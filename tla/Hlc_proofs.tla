----------------------------- MODULE Hlc_proofs -----------------------------
(***************************************************************************)
(* Proofs about the hybrid logical clock: the order of the timestamps and  *)
(* the values `tick` and `merge` compute; HlcClock, for any set of         *)
(* devices, any behaviour of their system clocks and any delivery of the   *)
(* events; HlcAtomics, for any number of threads, calls and readings of    *)
(* the clock, and any stamps merged.                                       *)
(***************************************************************************)
EXTENDS HlcClock, HlcAtomics, FiniteSetTheorems, TLAPS

-----------------------------------------------------------------------------
(* The order and the values computed.                                      *)

(* No stamp comes before itself. *)
LEMMA BeforeIrreflexive ==
    ASSUME NEW a \in Timestamp(Nat)
    PROVE  ~Before(a, a)
BY DEF Before, Timestamp

(* `Ord for Hlc` is transitive, also when the first two stamps are equal.  *)
LEMMA BeforeTransitive ==
    ASSUME NEW a \in Timestamp(Nat), NEW b \in Timestamp(Nat),
           NEW c \in Timestamp(Nat),
           AtOrBefore(a, b), Before(b, c)
    PROVE  Before(a, c)
BY DEF Before, AtOrBefore, Timestamp

(* What tick leaves is after the generator's state.                        *)
LEMMA TickAdvances ==
    ASSUME NEW clock \in Nat, NEW w \in Nat, NEW l \in Nat, NEW d \in Nat
    PROVE  /\ TickWall(clock, w) \in Nat
           /\ TickLamport(clock, w, l) \in Nat
           /\ Before(Stamp(w, l, d),
                     Stamp(TickWall(clock, w), TickLamport(clock, w, l), d))
BY DEF TickWall, TickLamport, Larger, Before, Stamp

(* What merge leaves is after the generator's state and after the stamp it *)
(* was given.                                                              *)
LEMMA MergeAdvances ==
    ASSUME NEW clock \in Nat, NEW w \in Nat, NEW l \in Nat, NEW d \in Nat,
           NEW e \in Timestamp(Nat)
    PROVE  LET h == Stamp(MergeWall(clock, w, e), MergeLamport(clock, w, l, e), d)
           IN  /\ MergeWall(clock, w, e) \in Nat
               /\ MergeLamport(clock, w, l, e) \in Nat
               /\ Before(Stamp(w, l, d), h)
               /\ Before(e, h)
BY DEF MergeWall, MergeLamport, Larger, Before, Stamp, Timestamp

-----------------------------------------------------------------------------
(* HlcClock: many devices.                                                 *)

(* Every reachable state has its types, for all values of the constants.   *)
THEOREM TypeCorrect == Spec => []TypeOK
<1>1. Init => TypeOK
  BY DEF Init, TypeOK
<1>2. TypeOK /\ [Next]_vars => TypeOK'
  <2> SUFFICES ASSUME TypeOK, [Next]_vars PROVE TypeOK'
    OBVIOUS
  <2> USE HlcClockAssumption DEF TypeOK
  <2>1. ASSUME NEW d \in Device, NEW w \in Nat, NEW l \in Nat,
               NEW past \in SUBSET issued, Issue(d, w, l, past)
        PROVE  TypeOK'
    <3>1. Stamp(w, l, d) \in Timestamp(Device)
      BY DEF Stamp, Timestamp
    <3>2. issued' \in SUBSET Timestamp(Device) /\ nIssued' \in Nat
      BY <2>1, <3>1 DEF Issue
    <3>3. known' \in [Device -> SUBSET issued']
      BY <2>1 DEF Issue
    <3>4. precedes' \in SUBSET (issued' \X issued')
      BY <2>1 DEF Issue
    <3>5. wall' \in [Device -> Nat] /\ lamport' \in [Device -> Nat]
      BY <2>1 DEF Issue
    <3>6. UNCHANGED <<clk, peak, restarts>>
      BY <2>1 DEF Issue
    <3> QED BY <3>2, <3>3, <3>4, <3>5, <3>6
  <2>2. ASSUME NEW d \in Device, Tick(d) PROVE TypeOK'
    <3>1. d \in Nat /\ clk[d] \in Nat /\ wall[d] \in Nat /\ lamport[d] \in Nat
      OBVIOUS
    <3> QED BY <2>1, <2>2, <3>1, TickAdvances DEF Tick
  <2>3. ASSUME NEW d \in Device, NEW e \in issued, Merge(d, e) PROVE TypeOK'
    <3>1. d \in Nat /\ clk[d] \in Nat /\ wall[d] \in Nat /\ lamport[d] \in Nat
      OBVIOUS
    <3>2. e \in Timestamp(Nat)
      BY DEF Timestamp
    <3>3. /\ MergeWall(clk[d], wall[d], e) \in Nat
          /\ MergeLamport(clk[d], wall[d], lamport[d], e) \in Nat
      BY <3>1, <3>2, MergeAdvances
    <3>4. known[d] \cup {e} \cup {g \in issued : <<g, e>> \in precedes}
            \in SUBSET issued
      OBVIOUS
    <3> QED BY <2>1, <2>3, <3>3, <3>4 DEF Merge
  <2>4. ASSUME NEW d \in Device, NEW t \in 0 .. MaxWall, MoveClock(d, t)
        PROVE  TypeOK'
    BY <2>4 DEF MoveClock, Larger
  <2>5. ASSUME NEW d \in Device, Restart(d) PROVE TypeOK'
    BY <2>5 DEF Restart, Larger
  <2>6. CASE UNCHANGED vars
    BY <2>6 DEF vars
  <2> QED BY <2>2, <2>3, <2>4, <2>5, <2>6 DEF Next
<1> QED BY <1>1, <1>2, PTL DEF Spec

-----------------------------------------------------------------------------
(* A call that returns a stamp after the generator's state and after all   *)
(* of the past it takes over keeps the order invariant.                    *)
LEMMA IssueKeepsOrder ==
    ASSUME TypeOK, OrderInv, restarts = 0,
           NEW d \in Device, NEW w \in Nat, NEW l \in Nat,
           NEW past \in SUBSET issued,
           known[d] \subseteq past,
           \A g \in past : Before(g, Stamp(w, l, d)),
           Issue(d, w, l, past)
    PROVE  OrderInv'
<1> DEFINE h == Stamp(w, l, d)
<1> USE HlcClockAssumption
<1>1. /\ issued' = issued \cup {h}
      /\ nIssued' = nIssued + 1
      /\ precedes' = precedes \cup (past \X {h})
      /\ wall' = [wall EXCEPT ![d] = w]
      /\ lamport' = [lamport EXCEPT ![d] = l]
      /\ known' = [known EXCEPT ![d] = past \cup {h}]
  BY DEF Issue
<1>2. h \in Timestamp(Device) /\ h \in Timestamp(Nat) /\ h.dev = d
  BY DEF Stamp, Timestamp
<1>3. Causality'
  BY <1>1 DEF OrderInv, Causality
<1>4. AfterItsPast'
  <2> SUFFICES ASSUME NEW c \in Device, NEW g \in known'[c]
               PROVE  AtOrBefore(g, Stamp(wall'[c], lamport'[c], c))
    BY DEF AfterItsPast
  <2>1. CASE c = d
    <3>1. wall'[c] = w /\ lamport'[c] = l /\ g \in past \cup {h}
      BY <1>1, <2>1 DEF TypeOK
    <3> QED BY <2>1, <3>1 DEF AtOrBefore
  <2>2. CASE c # d
    <3>1. wall'[c] = wall[c] /\ lamport'[c] = lamport[c] /\ g \in known[c]
      BY <1>1, <2>2 DEF TypeOK
    <3> QED BY <3>1 DEF OrderInv, AfterItsPast
  <2> QED BY <2>1, <2>2
<1>5. KnowsItsOwn'
  <2> SUFFICES ASSUME NEW g \in issued' PROVE g \in known'[g.dev]
    BY DEF KnowsItsOwn
  <2>1. CASE g = h
    BY <1>1, <1>2, <2>1 DEF TypeOK
  <2>2. CASE g \in issued
    <3>1. g \in known[g.dev] /\ g.dev \in Device
      BY <2>2 DEF OrderInv, KnowsItsOwn, TypeOK, Timestamp
    <3> QED BY <1>1, <3>1 DEF TypeOK
  <2> QED BY <1>1, <2>1, <2>2
<1>6. NoStampTwice'
  <2>1. h \notin issued
    <3> SUFFICES ASSUME h \in issued PROVE FALSE
      OBVIOUS
    <3>1. h \in past
      BY <1>2 DEF OrderInv, KnowsItsOwn
    <3> QED BY <1>2, <3>1, BeforeIrreflexive
  <2>2. IsFiniteSet(issued) /\ Cardinality(issued) = nIssued
    BY DEF OrderInv, NoStampTwice
  <2> QED BY <1>1, <2>1, <2>2, FS_AddElement DEF NoStampTwice
<1> QED BY <1>3, <1>4, <1>5, <1>6 DEF OrderInv

(* Whatever is at or before the generator is before any stamp that is      *)
(* after the generator.                                                    *)
LEMMA PastIsBefore ==
    ASSUME TypeOK, AfterItsPast, NEW d \in Device,
           NEW h \in Timestamp(Nat),
           Before(Stamp(wall[d], lamport[d], d), h)
    PROVE  \A g \in known[d] : Before(g, h)
<1> SUFFICES ASSUME NEW g \in known[d] PROVE Before(g, h)
  OBVIOUS
<1>1. g \in Timestamp(Nat) /\ Stamp(wall[d], lamport[d], d) \in Timestamp(Nat)
  <2>1. d \in Nat /\ wall[d] \in Nat /\ lamport[d] \in Nat
    BY HlcClockAssumption DEF TypeOK
  <2>2. g \in Timestamp(Device)
    BY DEF TypeOK
  <2> QED BY <2>1, <2>2, HlcClockAssumption DEF Timestamp, Stamp
<1> QED BY <1>1, BeforeTransitive DEF AfterItsPast

(* The inductive invariant behind causality and distinctness: a running    *)
(* generator is at or after every stamp in its device's causal past.       *)
THEOREM OrderInvariant == Spec => []OrderInv
<1> USE HlcClockAssumption
<1>1. Init => OrderInv
  BY FS_EmptySet DEF Init, OrderInv, Causality, AfterItsPast, KnowsItsOwn,
                     NoStampTwice
<1>2. TypeOK /\ OrderInv /\ [Next]_vars => OrderInv'
  <2> SUFFICES ASSUME TypeOK, OrderInv, [Next]_vars PROVE OrderInv'
    OBVIOUS
  <2>1. ASSUME NEW d \in Device, Tick(d) PROVE OrderInv'
    <3> DEFINE w == TickWall(clk[d], wall[d])
               l == TickLamport(clk[d], wall[d], lamport[d])
    <3>1. /\ d \in Nat /\ clk[d] \in Nat /\ wall[d] \in Nat
          /\ lamport[d] \in Nat /\ known[d] \in SUBSET issued
      BY DEF TypeOK
    <3>2. w \in Nat /\ l \in Nat
          /\ Before(Stamp(wall[d], lamport[d], d), Stamp(w, l, d))
      BY <3>1, TickAdvances
    <3>3. Issue(d, w, l, known[d])
      BY <2>1 DEF Tick
    <3>4. CASE restarts = 0
      <4>1. Stamp(w, l, d) \in Timestamp(Nat)
        BY <3>1, <3>2 DEF Stamp, Timestamp
      <4>2. \A g \in known[d] : Before(g, Stamp(w, l, d))
        BY <3>2, <3>4, <4>1, PastIsBefore DEF OrderInv
      <4> HIDE DEF w, l
      <4> QED BY <3>1, <3>2, <3>3, <3>4, <4>2, IssueKeepsOrder
    <3>5. CASE restarts # 0
      BY <3>3, <3>5 DEF Issue, OrderInv
    <3> QED BY <3>4, <3>5
  <2>2. ASSUME NEW d \in Device, NEW e \in issued, Merge(d, e)
        PROVE  OrderInv'
    <3> DEFINE w == MergeWall(clk[d], wall[d], e)
               l == MergeLamport(clk[d], wall[d], lamport[d], e)
               past == known[d] \cup {e} \cup {g \in issued : <<g, e>> \in precedes}
    <3>1. /\ d \in Nat /\ clk[d] \in Nat /\ wall[d] \in Nat
          /\ lamport[d] \in Nat /\ e \in Timestamp(Nat)
          /\ past \in SUBSET issued
      BY DEF TypeOK, Timestamp
    <3>2. /\ w \in Nat /\ l \in Nat
          /\ Before(Stamp(wall[d], lamport[d], d), Stamp(w, l, d))
          /\ Before(e, Stamp(w, l, d))
      BY <3>1, MergeAdvances
    <3>3. Issue(d, w, l, past)
      BY <2>2 DEF Merge
    <3>4. CASE restarts = 0
      <4>1. Stamp(w, l, d) \in Timestamp(Nat)
        BY <3>1, <3>2 DEF Stamp, Timestamp
      <4>2. \A g \in known[d] : Before(g, Stamp(w, l, d))
        BY <3>2, <3>4, <4>1, PastIsBefore DEF OrderInv
      <4>3. ASSUME NEW g \in issued, <<g, e>> \in precedes
            PROVE  Before(g, Stamp(w, l, d))
        <5>1. Before(g, e) /\ g \in Timestamp(Nat)
          BY <3>4, <4>3 DEF OrderInv, Causality, TypeOK, Timestamp
        <5> QED BY <3>1, <3>2, <4>1, <5>1, BeforeTransitive DEF AtOrBefore
      <4>4. \A g \in past : Before(g, Stamp(w, l, d))
        BY <3>2, <4>2, <4>3
      <4>5. known[d] \subseteq past
        OBVIOUS
      <4> HIDE DEF w, l, past
      <4> QED BY <3>1, <3>2, <3>3, <3>4, <4>4, <4>5, IssueKeepsOrder
    <3>5. CASE restarts # 0
      BY <3>3, <3>5 DEF Issue, OrderInv
    <3> QED BY <3>4, <3>5
  <2>3. ASSUME NEW d \in Device, NEW t \in 0 .. MaxWall, MoveClock(d, t)
        PROVE  OrderInv'
    BY <2>3 DEF MoveClock, OrderInv, Causality, AfterItsPast, KnowsItsOwn,
                NoStampTwice
  <2>4. ASSUME NEW d \in Device, Restart(d) PROVE OrderInv'
    BY <2>4 DEF Restart, OrderInv, TypeOK
  <2>5. CASE UNCHANGED vars
    BY <2>5 DEF vars, OrderInv, Causality, AfterItsPast, KnowsItsOwn,
                NoStampTwice
  <2> QED BY <2>1, <2>2, <2>3, <2>4, <2>5 DEF Next
<1> QED BY <1>1, <1>2, TypeCorrect, PTL DEF Spec

(* While no device has restarted, the happened-before relation is part of  *)
(* the stamp order, over any number of devices and messages.               *)
THEOREM CausalityHolds == Spec => []CausalityWhileRunning
<1>1. OrderInv => CausalityWhileRunning
  BY DEF OrderInv, CausalityWhileRunning
<1> QED BY <1>1, OrderInvariant, PTL

(* While no device has restarted, no two calls return the same stamp.      *)
THEOREM DistinctStamps == Spec => []DistinctWhileRunning
<1>1. OrderInv => DistinctWhileRunning
  BY DEF OrderInv, NoStampTwice, DistinctWhileRunning
<1> QED BY <1>1, OrderInvariant, PTL

-----------------------------------------------------------------------------
(* No generator and no stamp has a wall time above the highest clock.      *)
THEOREM WallInvariant == Spec => []WallInv
<1>1. Init => WallInv
  BY DEF Init, WallInv
<1>2. TypeOK /\ WallInv /\ [Next]_vars => WallInv'
  <2> SUFFICES ASSUME TypeOK, WallInv, [Next]_vars PROVE WallInv'
    OBVIOUS
  <2> USE HlcClockAssumption DEF TypeOK, WallInv
  <2>1. ASSUME NEW d \in Device, Tick(d) PROVE WallInv'
    BY <2>1 DEF Tick, Issue, TickWall, Larger, Stamp
  <2>2. ASSUME NEW d \in Device, NEW e \in issued, Merge(d, e) PROVE WallInv'
    <3>1. e.wall \in Nat /\ clk[d] \in Nat /\ wall[d] \in Nat
      BY DEF Timestamp
    <3>2. MergeWall(clk[d], wall[d], e) <= peak
      BY <3>1 DEF MergeWall, Larger
    <3> QED BY <2>2, <3>2 DEF Merge, Issue, Stamp
  <2>3. ASSUME NEW d \in Device, NEW t \in 0 .. MaxWall, MoveClock(d, t)
        PROVE  WallInv'
    BY <2>3 DEF MoveClock, Larger, Timestamp
  <2>4. ASSUME NEW d \in Device, Restart(d) PROVE WallInv'
    BY <2>4 DEF Restart, Larger, Timestamp
  <2>5. CASE UNCHANGED vars
    BY <2>5 DEF vars
  <2> QED BY <2>1, <2>2, <2>3, <2>4, <2>5 DEF Next
<1> QED BY <1>1, <1>2, TypeCorrect, PTL DEF Spec

(* A generator never runs ahead of the highest clock any device has shown, *)
(* nor, while running, behind a stamp it has issued or absorbed.           *)
THEOREM StaysCloseToWallTime == Spec => []CloseToWallTime
<1>1. TypeOK /\ OrderInv /\ WallInv => CloseToWallTime
  <2> SUFFICES ASSUME TypeOK, OrderInv, WallInv PROVE CloseToWallTime
    OBVIOUS
  <2>1. ASSUME restarts = 0, NEW d \in Device, NEW g \in known[d]
        PROVE  g.wall <= wall[d]
    <3>1. g.wall \in Nat /\ wall[d] \in Nat
      BY DEF TypeOK, Timestamp
    <3>2. AtOrBefore(g, Stamp(wall[d], lamport[d], d))
      BY <2>1 DEF OrderInv, AfterItsPast
    <3> QED BY <3>1, <3>2 DEF AtOrBefore, Before, Stamp
  <2> QED BY <2>1 DEF WallInv, CloseToWallTime
<1> QED BY <1>1, TypeCorrect, OrderInvariant, WallInvariant, PTL

-----------------------------------------------------------------------------
(* HlcAtomics: one generator, many threads.                                *)

(* A stamp of device d is a timestamp of it. *)
LEMMA StampType ==
    ASSUME NEW D, NEW d \in D, NEW w \in Nat, NEW l \in Nat
    PROVE  Stamp(w, l, d) \in Timestamp(D)
BY DEF Stamp, Timestamp

(* A timestamp of one of some devices is a timestamp. *)
LEMMA StampOfDevice ==
    ASSUME NEW D \in SUBSET Nat, NEW h \in Timestamp(D)
    PROVE  h \in Timestamp(Nat)
BY DEF Timestamp

(* What may be merged is a timestamp, and so is the absent argument of     *)
(* tick, which is no stamp that may be merged.                             *)
LEMMA ArgType ==
    /\ NoStamp \in Timestamp({Dev}) /\ NoStamp \in Timestamp(Nat)
    /\ NoStamp \notin Incoming
    /\ Incoming \in SUBSET Timestamp(Nat)
<1> USE HlcAtomicsAssumption
<1>1. NoStamp \in Timestamp({Dev}) /\ NoStamp \in Timestamp(Nat)
  BY StampType DEF NoStamp
<1>2. NoStamp \notin Incoming
  BY DEF NoStamp, Stamp, Timestamp
<1>3. Incoming \in SUBSET Timestamp(Nat)
  BY DEF Timestamp
<1> QED
  BY <1>1, <1>2, <1>3

-----------------------------------------------------------------------------
(* A call that ends returns a well-typed stamp and leaves a well-typed     *)
(* state.                                                                  *)
LEMMA FinishKeepsType ==
    ASSUME AtomicsTypeOK, NEW t \in Thread, NEW w \in Nat, NEW l \in Nat,
           Finish(t, w, l), aWall' \in Nat, aLamport' \in Nat
    PROVE  AtomicsTypeOK'
<1> USE HlcAtomicsAssumption DEF AtomicsTypeOK
<1> DEFINE h == Stamp(w, l, Dev)
<1>1. h \in Timestamp({Dev}) /\ h \in Timestamp(Nat)
  BY StampType
<1>2. arg[t] \in Timestamp(Nat)
  BY ArgType
<1>3. /\ pc' = [pc EXCEPT ![t] = "idle"]
      /\ last' = h
      /\ got' = [got EXCEPT ![t] = h]
      /\ settled' = settled \cup {h} \cup ({arg[t]} \ {NoStamp})
      /\ UNCHANGED <<sysClk, now, prevWall, prevLam, arg, base, calls, overlapped>>
  BY DEF Finish, locals, begun
<1> HIDE DEF h
<1>4. last' \in Timestamp({Dev}) /\ got' \in [Thread -> Timestamp({Dev})]
  BY <1>1, <1>3
<1>5. settled' \in SUBSET Timestamp(Nat)
  BY <1>1, <1>2, <1>3
<1>6. base' \in [Thread -> SUBSET settled']
  BY <1>3
<1>7. pc' \in [Thread -> Points]
  BY <1>3 DEF Points
<1> QED
  BY <1>3, <1>4, <1>5, <1>6, <1>7

(* Every reachable state has its types, for all values of the constants.   *)
THEOREM AtomicsTypeCorrect == AtomicsSpec => []AtomicsTypeOK
<1>0. MaxReading \in Nat /\ MaxCalls \in Nat
  BY HlcAtomicsAssumption
<1>1. AtomicsInit => AtomicsTypeOK
  <2> SUFFICES ASSUME AtomicsInit PROVE AtomicsTypeOK
    OBVIOUS
  <2>1. sysClk \in 0 .. MaxReading /\ now \in [Thread -> 0 .. MaxReading]
    BY <1>0 DEF AtomicsInit
  <2>2. aWall \in Nat /\ aLamport \in Nat /\ calls \in 0 .. MaxCalls
    BY <1>0 DEF AtomicsInit
  <2>3. prevWall \in [Thread -> Nat] /\ prevLam \in [Thread -> Nat]
    BY DEF AtomicsInit
  <2>4. settled \in SUBSET Timestamp(Nat) /\ base \in [Thread -> SUBSET settled]
    BY DEF AtomicsInit
  <2>5. /\ last \in Timestamp({Dev}) /\ got \in [Thread -> Timestamp({Dev})]
        /\ arg \in [Thread -> Incoming \cup {NoStamp}]
    BY ArgType DEF AtomicsInit
  <2>6. pc \in [Thread -> Points] /\ overlapped \in BOOLEAN
    BY DEF AtomicsInit, Points
  <2> QED
    BY <2>1, <2>2, <2>3, <2>4, <2>5, <2>6 DEF AtomicsTypeOK
<1>2. AtomicsTypeOK /\ [AtomicsNext]_atomicsVars => AtomicsTypeOK'
  <2> SUFFICES ASSUME AtomicsTypeOK, [AtomicsNext]_atomicsVars PROVE AtomicsTypeOK'
    OBVIOUS
  <2>1. CASE ClockAdvances
    <3>1. sysClk' \in 0 .. MaxReading
      BY <1>0, <2>1 DEF AtomicsTypeOK, ClockAdvances
    <3>2. UNCHANGED <<aWall, aLamport, pc, now, prevWall, prevLam, arg, last, got,
                      settled, base, calls, overlapped>>
      BY <2>1 DEF ClockAdvances, history, begun
    <3> QED
      BY <3>1, <3>2 DEF AtomicsTypeOK
  <2>2. ASSUME NEW t \in Thread, NEW e \in Incoming \cup {NoStamp}, Begin(t, e)
        PROVE  AtomicsTypeOK'
    <3>1. calls' \in 0 .. MaxCalls
      BY <1>0, <2>2 DEF AtomicsTypeOK, Begin
    <3>2. pc' \in [Thread -> Points]
      BY <2>2 DEF AtomicsTypeOK, Begin, Points
    <3>3. /\ arg' \in [Thread -> Incoming \cup {NoStamp}]
          /\ base' \in [Thread -> SUBSET settled]
      BY <2>2 DEF AtomicsTypeOK, Begin
    <3>4. overlapped' \in BOOLEAN
      BY <2>2 DEF AtomicsTypeOK, Begin
    <3>5. UNCHANGED <<sysClk, aWall, aLamport, now, prevWall, prevLam, last, got,
                      settled>>
      BY <2>2 DEF Begin, locals, history
    <3> QED
      BY <3>1, <3>2, <3>3, <3>4, <3>5 DEF AtomicsTypeOK
  <2>3. ASSUME NEW t \in Thread, ReadClock(t) PROVE AtomicsTypeOK'
    BY <2>3 DEF AtomicsTypeOK, ReadClock, Points, history, begun
  <2>4. ASSUME NEW t \in Thread, LoadWall(t) PROVE AtomicsTypeOK'
    BY <2>4 DEF AtomicsTypeOK, LoadWall, Points, history, begun
  <2>5. ASSUME NEW t \in Thread, TickStoreWall(t) PROVE AtomicsTypeOK'
    <3>1. TickWall(now[t], prevWall[t]) \in Nat
      BY DEF AtomicsTypeOK, TickWall, Larger
    <3> QED
      BY <2>5, <3>1 DEF AtomicsTypeOK, TickStoreWall, Points, locals, history, begun
  <2>6. ASSUME NEW t \in Thread, TickStoreLamport(t) PROVE AtomicsTypeOK'
    <3>1. TickWall(now[t], prevWall[t]) \in Nat /\ aWall \in Nat
      BY DEF AtomicsTypeOK, TickWall, Larger
    <3> QED
      BY <2>6, <3>1, FinishKeepsType DEF TickStoreLamport
  <2>7. ASSUME NEW t \in Thread, TickFetchAdd(t) PROVE AtomicsTypeOK'
    <3>1. TickWall(now[t], prevWall[t]) \in Nat /\ aWall \in Nat /\ aLamport + 1 \in Nat
      BY DEF AtomicsTypeOK, TickWall, Larger
    <3> QED
      BY <2>7, <3>1, FinishKeepsType DEF TickFetchAdd
  <2>8. ASSUME NEW t \in Thread, MergeLoadLamport(t) PROVE AtomicsTypeOK'
    BY <2>8 DEF AtomicsTypeOK, MergeLoadLamport, Points, history, begun
  <2>9. ASSUME NEW t \in Thread, MergeStoreWall(t) \/ MergeStoreLamport(t)
        PROVE  AtomicsTypeOK'
    <3>1. /\ arg[t] \in Timestamp(Nat) /\ now[t] \in Nat
          /\ prevWall[t] \in Nat /\ prevLam[t] \in Nat
      BY ArgType DEF AtomicsTypeOK
    <3>2. /\ MergeWall(now[t], prevWall[t], arg[t]) \in Nat
          /\ MergeLamport(now[t], prevWall[t], prevLam[t], arg[t]) \in Nat
      BY <3>1, MergeAdvances
    <3>3. CASE MergeStoreWall(t)
      BY <3>2, <3>3 DEF AtomicsTypeOK, MergeStoreWall, Points, locals, history, begun
    <3>4. CASE MergeStoreLamport(t)
      BY <3>2, <3>4, FinishKeepsType DEF MergeStoreLamport, AtomicsTypeOK
    <3> QED
      BY <2>9, <3>3, <3>4
  <2>10. CASE UNCHANGED atomicsVars
    BY <2>10 DEF AtomicsTypeOK, atomicsVars, locals, history, begun
  <2> QED
    BY <2>1, <2>2, <2>3, <2>4, <2>5, <2>6, <2>7, <2>8, <2>9, <2>10
       DEF AtomicsNext, CallTick, CallMerge
<1> QED
  BY <1>1, <1>2, PTL DEF AtomicsSpec

-----------------------------------------------------------------------------
(* A step of the call thread t makes. *)
StepOf(t) ==
    \/ \E e \in Incoming \cup {NoStamp} : Begin(t, e)
    \/ ReadClock(t) \/ LoadWall(t)
    \/ TickStoreWall(t) \/ TickStoreLamport(t) \/ TickFetchAdd(t)
    \/ MergeLoadLamport(t) \/ MergeStoreWall(t) \/ MergeStoreLamport(t)

(* Every step is one of some thread, or only the clock's. *)
LEMMA NextIsAStep ==
    ASSUME [AtomicsNext]_atomicsVars
    PROVE  \/ UNCHANGED <<aWall, aLamport, pc, now, prevWall, prevLam, arg, last,
                          got, settled, base, overlapped>>
           \/ \E t \in Thread : StepOf(t)
BY DEF AtomicsNext, atomicsVars, locals, history, begun, ClockAdvances,
       CallTick, CallMerge, StepOf

(* The calls of the other threads are where they were, whatever step       *)
(* thread t takes.                                                         *)
LEMMA OthersUntouched ==
    ASSUME AtomicsTypeOK, NEW t \in Thread, StepOf(t), NEW u \in Thread \ {t}
    PROVE  /\ pc'[u] = pc[u] /\ arg'[u] = arg[u] /\ got'[u] = got[u]
           /\ base'[u] = base[u]
<1>1. CASE \E e \in Incoming \cup {NoStamp} : Begin(t, e)
  BY <1>1 DEF Begin, AtomicsTypeOK, history
<1>2. CASE ReadClock(t) \/ LoadWall(t) \/ TickStoreWall(t)
           \/ MergeLoadLamport(t) \/ MergeStoreWall(t)
  BY <1>2 DEF ReadClock, LoadWall, TickStoreWall, MergeLoadLamport,
              MergeStoreWall, AtomicsTypeOK, history, begun
<1>3. CASE TickStoreLamport(t) \/ TickFetchAdd(t) \/ MergeStoreLamport(t)
  BY <1>3 DEF TickStoreLamport, TickFetchAdd, MergeStoreLamport, Finish, AtomicsTypeOK,
              begun
<1> QED
  BY <1>1, <1>2, <1>3 DEF StepOf

(* The inductive invariant behind MergeReturnsLater: merge computes its    *)
(* stamp from what it has read itself.                                     *)
LEMMA ArgInvariant == AtomicsSpec => [](ArgFits /\ MergeReturnsLater)
<1> DEFINE Inv == ArgFits /\ MergeReturnsLater
<1>1. AtomicsInit => Inv
  BY DEF AtomicsInit, ArgFits, MergeReturnsLater
<1>2. AtomicsTypeOK /\ Inv /\ [AtomicsNext]_atomicsVars => Inv'
  <2> SUFFICES ASSUME AtomicsTypeOK, Inv, [AtomicsNext]_atomicsVars PROVE Inv'
    OBVIOUS
  <2>1. CASE UNCHANGED <<aWall, aLamport, pc, now, prevWall, prevLam, arg, last,
                         got, settled, base, overlapped>>
    BY <2>1 DEF ArgFits, MergeReturnsLater
  <2>2. ASSUME NEW t \in Thread, StepOf(t) PROVE Inv'
    <3>1. SUFFICES
            /\ pc'[t] \in {"storeWall", "tickLamport", "fetchAdd"} =>
                 arg'[t] = NoStamp
            /\ pc'[t] \in {"loadLamport", "mergeWall", "mergeLamport"} =>
                 arg'[t] # NoStamp
            /\ pc'[t] = "idle" /\ arg'[t] # NoStamp => Before(arg'[t], got'[t])
      BY <2>2, OthersUntouched DEF ArgFits, MergeReturnsLater
    <3>2. CASE \E e \in Incoming \cup {NoStamp} : Begin(t, e)
      BY <3>2 DEF Begin, AtomicsTypeOK
    <3>3. CASE ReadClock(t) \/ LoadWall(t) \/ TickStoreWall(t)
               \/ MergeLoadLamport(t) \/ MergeStoreWall(t)
      BY <3>3 DEF ReadClock, LoadWall, TickStoreWall, MergeLoadLamport,
                  MergeStoreWall, AtomicsTypeOK, ArgFits
    <3>4. CASE TickStoreLamport(t) \/ TickFetchAdd(t)
      <4>1. arg[t] = NoStamp
        BY <3>4 DEF TickStoreLamport, TickFetchAdd, ArgFits
      <4>2. arg' = arg /\ pc'[t] = "idle"
        BY <3>4 DEF TickStoreLamport, TickFetchAdd, Finish, AtomicsTypeOK
      <4> QED
        BY <4>1, <4>2
    <3>5. CASE MergeStoreLamport(t)
      <4> DEFINE e == arg[t]
                 w == MergeWall(now[t], prevWall[t], e)
                 l == MergeLamport(now[t], prevWall[t], prevLam[t], e)
      <4>1. pc'[t] = "idle" /\ arg' = arg /\ got'[t] = Stamp(w, l, Dev)
        BY <3>5 DEF MergeStoreLamport, Finish, AtomicsTypeOK
      <4>2. /\ e \in Timestamp(Nat) /\ now[t] \in Nat /\ Dev \in Nat
            /\ prevWall[t] \in Nat /\ prevLam[t] \in Nat
        <5>1. now[t] \in Nat /\ prevWall[t] \in Nat /\ prevLam[t] \in Nat
          BY DEF AtomicsTypeOK
        <5>2. e \in Timestamp(Nat)
          BY ArgType DEF AtomicsTypeOK
        <5> QED
          BY <5>1, <5>2, HlcAtomicsAssumption
      <4>3. Before(e, Stamp(w, l, Dev))
        BY <4>2, MergeAdvances
      <4> QED
        BY <4>1, <4>3
    <3> QED
      BY <2>2, <3>2, <3>3, <3>4, <3>5 DEF StepOf
  <2> QED
    BY <2>1, <2>2, NextIsAStep
<1> QED
  BY <1>1, <1>2, AtomicsTypeCorrect, PTL DEF AtomicsSpec

(* The stamp merge returns is after the stamp it was given, whatever other *)
(* calls do to the two atomics meanwhile.                                  *)
THEOREM MergeIsLater == AtomicsSpec => []MergeReturnsLater
BY ArgInvariant, PTL

-----------------------------------------------------------------------------
(* Stamps at or before the generator's old state are before a stamp that   *)
(* is after that state, so a call that ends with such a stamp leaves every *)
(* settled stamp at or before it.                                          *)
LEMMA FinishKeepsOrder ==
    ASSUME AtomicsTypeOK, NEW t \in Thread, base[t] = settled,
           NEW w \in Nat, NEW l \in Nat, Finish(t, w, l),
           NEW old \in Timestamp(Nat), AllAtOrBefore(settled, old),
           Before(old, Stamp(w, l, Dev)),
           arg[t] = NoStamp \/ Before(arg[t], Stamp(w, l, Dev))
    PROVE  /\ AllAtOrBefore(settled', Stamp(w, l, Dev))
           /\ \A g \in base'[t] : Before(g, got'[t])
<1> DEFINE h == Stamp(w, l, Dev)
<1>1. h \in Timestamp(Nat)
  BY HlcAtomicsAssumption, StampType
<1>2. \A g \in settled : Before(g, h)
  BY <1>1, BeforeTransitive DEF AllAtOrBefore, AtomicsTypeOK
<1>3. /\ settled' = settled \cup {h} \cup ({arg[t]} \ {NoStamp})
      /\ base' = base /\ got'[t] = h
  BY DEF Finish, AtomicsTypeOK, begun
<1> HIDE DEF h
<1>4. AllAtOrBefore(settled', h)
  BY <1>2, <1>3 DEF AllAtOrBefore, AtOrBefore, h
<1> QED
  BY <1>2, <1>3, <1>4 DEF h

(* What a thread's next load, store or call reads or leaves is current.    *)
LEMMA StaysCurrent ==
    ASSUME AtomicsTypeOK, AtomicsTypeOK', NEW t \in Thread, Current(t),
           ReadClock(t) \/ LoadWall(t) \/ TickStoreWall(t)
           \/ MergeLoadLamport(t) \/ MergeStoreWall(t)
    PROVE  Current(t)'
<1>1. CASE ReadClock(t)
  BY <1>1 DEF ReadClock, Current, AtomicsTypeOK, history, begun
<1>2. CASE LoadWall(t)
  <2>1. /\ pc'[t] = IF arg[t] # NoStamp THEN "loadLamport"
                    ELSE IF now[t] > aWall THEN "storeWall" ELSE "fetchAdd"
        /\ prevWall'[t] = aWall
        /\ UNCHANGED <<aWall, aLamport, now, settled, base>>
    BY <1>2 DEF LoadWall, AtomicsTypeOK, history, begun
  <2>2. now[t] \in Nat /\ aWall \in Nat /\ pc[t] = "loadWall"
    BY <1>2 DEF LoadWall, AtomicsTypeOK
  <2> QED
    BY <2>1, <2>2 DEF Current
<1>3. CASE TickStoreWall(t)
  BY <1>3 DEF TickStoreWall, Current, AtomicsTypeOK, locals, history, begun
<1>4. CASE MergeLoadLamport(t)
  BY <1>4 DEF MergeLoadLamport, Current, AtomicsTypeOK, history, begun
<1>5. CASE MergeStoreWall(t)
  <2>1. /\ pc'[t] = "mergeLamport"
        /\ aWall' = MergeWall(now[t], prevWall[t], arg[t])
        /\ UNCHANGED <<aLamport, now, prevWall, prevLam, arg, settled, base>>
    BY <1>5 DEF MergeStoreWall, AtomicsTypeOK, locals, history, begun
  <2>2. /\ base[t] = settled /\ prevWall[t] = aWall /\ prevLam[t] = aLamport
        /\ AllAtOrBefore(settled, Stamp(aWall, aLamport, Dev))
    BY <1>5 DEF MergeStoreWall, Current
  <2> QED
    BY <2>1, <2>2 DEF Current
<1> QED
  BY <1>1, <1>2, <1>3, <1>4, <1>5

(* A call that runs alone ends with a stamp after the generator's state    *)
(* and with that stamp as the new state.                                   *)
LEMMA FinishesLater ==
    ASSUME AtomicsTypeOK, ArgFits, NEW t \in Thread, Current(t),
           TickStoreLamport(t) \/ TickFetchAdd(t) \/ MergeStoreLamport(t)
    PROVE  /\ AllAtOrBefore(settled', Stamp(aWall', aLamport', Dev))
           /\ \A g \in base'[t] : Before(g, got'[t])
<1> DEFINE e == arg[t]
           old == Stamp(prevWall[t], aLamport, Dev)
<1>1. /\ now[t] \in Nat /\ prevWall[t] \in Nat /\ aLamport \in Nat /\ Dev \in Nat
      /\ aWall \in Nat /\ e \in Timestamp(Nat) /\ old \in Timestamp(Nat)
  <2>1. now[t] \in Nat /\ prevWall[t] \in Nat /\ aLamport \in Nat /\ aWall \in Nat
    BY DEF AtomicsTypeOK
  <2>2. e \in Timestamp(Nat)
    BY ArgType DEF AtomicsTypeOK
  <2>3. Dev \in Nat
    BY HlcAtomicsAssumption
  <2> QED
    BY <2>1, <2>2, <2>3, StampType
<1>2. base[t] = settled /\ AllAtOrBefore(settled, old)
  <2>1. base[t] = settled
    BY DEF Current
  <2>2. CASE pc[t] = "fetchAdd"
    BY <2>2 DEF Current
  <2>3. CASE pc[t] \in {"tickLamport", "mergeLamport"}
    BY <2>3 DEF Current
  <2> QED
    BY <2>1, <2>2, <2>3 DEF TickStoreLamport, TickFetchAdd, MergeStoreLamport
<1>3. CASE TickStoreLamport(t)
  <2>1. /\ now[t] > prevWall[t] /\ aWall = TickWall(now[t], prevWall[t])
        /\ aWall' = aWall /\ aLamport' = 0 /\ e = NoStamp /\ Finish(t, aWall, 0)
    BY <1>3 DEF TickStoreLamport, Current, ArgFits
  <2>2. Before(old, Stamp(aWall, 0, Dev))
    BY <1>1, <2>1 DEF TickWall, Larger, Before, Stamp
  <2> QED
    BY <1>1, <1>2, <2>1, <2>2, FinishKeepsOrder
<1>4. CASE TickFetchAdd(t)
  <2>1. /\ now[t] <= prevWall[t] /\ aWall = prevWall[t] /\ e = NoStamp
        /\ aWall' = aWall /\ aLamport' = aLamport + 1
        /\ Finish(t, TickWall(now[t], prevWall[t]), aLamport + 1)
    BY <1>4 DEF TickFetchAdd, Current, ArgFits
  <2>2. TickWall(now[t], prevWall[t]) = aWall /\ aLamport + 1 \in Nat
    BY <1>1, <2>1 DEF TickWall, Larger
  <2>3. Before(old, Stamp(aWall, aLamport + 1, Dev))
    BY <1>1, <2>1 DEF Before, Stamp
  <2> QED
    BY <1>1, <1>2, <2>1, <2>2, <2>3, FinishKeepsOrder
<1>5. CASE MergeStoreLamport(t)
  <2> DEFINE l == MergeLamport(now[t], prevWall[t], aLamport, e)
  <2>1. /\ prevLam[t] = aLamport /\ aWall = MergeWall(now[t], prevWall[t], e)
        /\ aWall' = aWall /\ aLamport' = l /\ Finish(t, aWall, l)
    BY <1>5 DEF MergeStoreLamport, Current
  <2>2. l \in Nat /\ Before(old, Stamp(aWall, l, Dev)) /\ Before(e, Stamp(aWall, l, Dev))
    BY <1>1, <2>1, MergeAdvances
  <2> HIDE DEF l
  <2> QED
    BY <1>1, <1>2, <2>1, <2>2, FinishKeepsOrder
<1> QED
  BY <1>3, <1>4, <1>5

(* The inductive invariant behind the next two theorems. *)
LEMMA SerialInvariant == AtomicsSpec => []SerialInv
<1>1. AtomicsInit => SerialInv
  BY DEF AtomicsInit, SerialInv, Running, AllAtOrBefore
<1>2. AtomicsTypeOK /\ AtomicsTypeOK' /\ ArgFits /\ SerialInv
        /\ [AtomicsNext]_atomicsVars => SerialInv'
  <2> SUFFICES ASSUME AtomicsTypeOK, AtomicsTypeOK', ArgFits, SerialInv,
                      [AtomicsNext]_atomicsVars,
                      ~overlapped'
               PROVE  SerialInv'
    BY DEF SerialInv
  <2>1. CASE UNCHANGED <<aWall, aLamport, pc, now, prevWall, prevLam, arg, last,
                         got, settled, base, overlapped>>
    <3>1. Running' = Running /\ \A t : Current(t)' <=> Current(t)
      BY <2>1 DEF Running, Current
    <3> QED
      BY <2>1, <3>1 DEF SerialInv
  <2>2. ASSUME NEW t \in Thread, StepOf(t) PROVE SerialInv'
    <3>0. ~overlapped
      BY <2>2 DEF StepOf, Begin, ReadClock, LoadWall, TickStoreWall,
           TickStoreLamport, TickFetchAdd, MergeLoadLamport, MergeStoreWall,
           MergeStoreLamport, Finish, begun, AtomicsTypeOK
    <3>1. /\ \A u, v \in Running : u = v
          /\ \A u \in Running : Current(u)
          /\ Running = {} => AllAtOrBefore(settled, Stamp(aWall, aLamport, Dev))
          /\ \A u \in Thread \ Running : \A h \in base[u] : Before(h, got[u])
      BY <3>0 DEF SerialInv
    <3>2. CASE \E e \in Incoming \cup {NoStamp} : Begin(t, e)
      <4>1. Running = {} /\ pc'[t] = "clock"
        BY <3>2 DEF Begin, Running, AtomicsTypeOK
      <4>2. Running' = {t}
        BY <4>1, <2>2, OthersUntouched DEF Running
      <4>3. Current(t)'
        <5>1. /\ base'[t] = settled /\ UNCHANGED <<aWall, aLamport, settled>>
          BY <3>2 DEF Begin, AtomicsTypeOK, history
        <5> QED
          BY <3>1, <4>1, <5>1 DEF Current
      <4> QED
        BY <2>2, <3>1, <4>1, <4>2, <4>3, OthersUntouched DEF SerialInv
    <3>3. CASE ReadClock(t) \/ LoadWall(t) \/ TickStoreWall(t)
               \/ MergeLoadLamport(t) \/ MergeStoreWall(t)
      <4>1. pc[t] # "idle" /\ pc'[t] # "idle"
        BY <3>3 DEF ReadClock, LoadWall, TickStoreWall, MergeLoadLamport,
                    MergeStoreWall, AtomicsTypeOK
      <4>2. Running = {t} /\ Running' = {t}
        BY <2>2, <3>1, <4>1, OthersUntouched DEF Running
      <4>3. Current(t)'
        BY <3>1, <3>3, <4>2, StaysCurrent
      <4> QED
        BY <2>2, <3>1, <4>2, <4>3, OthersUntouched DEF SerialInv
    <3>4. CASE TickStoreLamport(t) \/ TickFetchAdd(t) \/ MergeStoreLamport(t)
      <4>1. pc[t] # "idle" /\ pc'[t] = "idle"
        BY <3>4 DEF TickStoreLamport, TickFetchAdd, MergeStoreLamport, Finish,
                    AtomicsTypeOK
      <4>2. Running = {t} /\ Running' = {}
        BY <2>2, <3>1, <4>1, OthersUntouched DEF Running
      <4>3. /\ AllAtOrBefore(settled', Stamp(aWall', aLamport', Dev))
            /\ \A g \in base'[t] : Before(g, got'[t])
        BY <3>1, <3>4, <4>2, FinishesLater
      <4> QED
        BY <2>2, <3>1, <4>2, <4>3, OthersUntouched DEF SerialInv, AllAtOrBefore
    <3> QED
      BY <2>2, <3>2, <3>3, <3>4 DEF StepOf
  <2> QED
    BY <2>1, <2>2, NextIsAStep
<1> QED
  BY <1>1, <1>2, AtomicsTypeCorrect, ArgInvariant, PTL DEF AtomicsSpec

(* Until two calls overlap, a call returns a stamp after everything any    *)
(* call had returned or merged before it began.                            *)
THEOREM OrderedWithoutOverlap == AtomicsSpec => []OrderedUnlessOverlapped
<1>1. SerialInv => OrderedUnlessOverlapped
  BY DEF SerialInv, OrderedUnlessOverlapped, Running
<1> QED
  BY <1>1, SerialInvariant, PTL

-----------------------------------------------------------------------------
(* What an outside observer sees of the generator's wall time. *)
LEMMA Observed ==
    /\ InStores = {} => ObservedWall = aWall
    /\ \A t : InStores = {t} => ObservedWall = prevWall[t]
BY DEF ObservedWall

(* The generator's promise is stated with the same operators of Hlc. *)
LEMMA SameOperators ==
    /\ \A w, l, d : Generator!Stamp(w, l, d) = Stamp(w, l, d)
    /\ \A n, w : Generator!TickWall(n, w) = TickWall(n, w)
    /\ \A n, w, l : Generator!TickLamport(n, w, l) = TickLamport(n, w, l)
    /\ \A n, w, e : Generator!MergeWall(n, w, e) = MergeWall(n, w, e)
    /\ \A n, w, l, e :
          Generator!MergeLamport(n, w, l, e) = MergeLamport(n, w, l, e)
<1>1. \A w, l, d : Generator!Stamp(w, l, d) = Stamp(w, l, d)
  BY DEF Generator!Stamp, Stamp
<1>2. \A m, n : Generator!Larger(m, n) = Larger(m, n)
  BY DEF Generator!Larger, Larger
<1>3. \A n, w : Generator!TickWall(n, w) = TickWall(n, w)
  BY <1>2 DEF Generator!TickWall, TickWall
<1>4. \A n, w, l : Generator!TickLamport(n, w, l) = TickLamport(n, w, l)
  BY <1>3 DEF Generator!TickLamport, TickLamport
<1>5. \A n, w, e : Generator!MergeWall(n, w, e) = MergeWall(n, w, e)
  BY <1>2 DEF Generator!MergeWall, MergeWall
<1>6. \A n, w, l, e :
         Generator!MergeLamport(n, w, l, e) = MergeLamport(n, w, l, e)
  BY <1>2, <1>5 DEF Generator!MergeLamport, MergeLamport
<1> QED
  BY <1>1, <1>3, <1>4, <1>5, <1>6

(* Until two calls overlap, the loads and stores of the code implement the *)
(* generator's promise: each call is one atomic step to the stamp it       *)
(* returns, taken at its last store, and its other steps are invisible.    *)
THEOREM LoadsAndStoresImplement == AtomicsSpec => ImplementsGenerator
<1>1. AtomicsInit => Generator!GInit
  <2> SUFFICES ASSUME AtomicsInit PROVE Generator!GInit
    OBVIOUS
  <2>1. InStores = {}
    BY DEF AtomicsInit, InStores
  <2> QED
    BY <2>1, Observed, SameOperators DEF AtomicsInit, Generator!GInit, NoStamp
<1>2. AtomicsTypeOK /\ ArgFits /\ SerialInv /\ [AtomicsNext]_atomicsVars =>
        [overlapped' \/ Generator!GNext]_(Generator!gvars)
  <2> SUFFICES ASSUME AtomicsTypeOK, ArgFits, SerialInv,
                      [AtomicsNext]_atomicsVars, ~overlapped'
               PROVE  \/ Generator!GNext
                      \/ UNCHANGED <<ObservedWall, aLamport, last>>
    BY DEF Generator!gvars
  <2>1. CASE UNCHANGED <<aWall, aLamport, pc, now, prevWall, prevLam, arg, last,
                         got, settled, base, overlapped>>
    BY <2>1 DEF ObservedWall, InStores
  <2>2. ASSUME NEW t \in Thread, StepOf(t)
        PROVE  \/ Generator!GNext
               \/ UNCHANGED <<ObservedWall, aLamport, last>>
    <3>0. ~overlapped
      BY <2>2 DEF StepOf, Begin, ReadClock, LoadWall, TickStoreWall,
           TickStoreLamport, TickFetchAdd, MergeLoadLamport, MergeStoreWall,
           MergeStoreLamport, Finish, begun, AtomicsTypeOK
    <3>1. \A u, v \in Running : u = v
      BY <3>0 DEF SerialInv
    <3>2. pc[t] # "idle" => Current(t) /\ \A u \in Thread \ {t} : pc[u] = "idle"
      BY <3>0, <3>1 DEF SerialInv, Running
    <3>3. \A u \in Thread \ {t} : pc'[u] = pc[u]
      BY <2>2, OthersUntouched
    <3>4. CASE \E e \in Incoming \cup {NoStamp} : Begin(t, e)
      <4>1. Running = {} /\ pc[t] = "idle" /\ pc'[t] = "clock"
        BY <3>4 DEF Begin, Running, AtomicsTypeOK
      <4>2. InStores = {} /\ InStores' = {}
        BY <3>3, <4>1 DEF InStores, Running
      <4>3. UNCHANGED <<aWall, aLamport, last>>
        BY <3>4 DEF Begin, history
      <4> QED
        BY <4>2, <4>3 DEF ObservedWall
    <3>5. CASE ReadClock(t) \/ LoadWall(t) \/ MergeLoadLamport(t)
      <4>1. /\ pc[t] \in {"clock", "loadWall", "loadLamport"}
            /\ pc'[t] \in {"loadWall", "loadLamport", "storeWall", "fetchAdd",
                           "mergeWall"}
        BY <3>5 DEF ReadClock, LoadWall, MergeLoadLamport, AtomicsTypeOK
      <4>2. InStores = {} /\ InStores' = {}
        BY <3>2, <3>3, <4>1 DEF InStores
      <4>3. UNCHANGED <<aWall, aLamport, last>>
        BY <3>5 DEF ReadClock, LoadWall, MergeLoadLamport, history
      <4> QED
        BY <4>2, <4>3 DEF ObservedWall
    <3>6. CASE TickStoreWall(t) \/ MergeStoreWall(t)
      <4>1. /\ pc[t] \in {"storeWall", "mergeWall"}
            /\ pc'[t] \in {"tickLamport", "mergeLamport"}
            /\ UNCHANGED <<aLamport, last, prevWall>>
        BY <3>6 DEF TickStoreWall, MergeStoreWall, AtomicsTypeOK, locals, history
      <4>2. InStores = {} /\ InStores' = {t}
        BY <3>2, <3>3, <4>1 DEF InStores
      <4>3. prevWall[t] = aWall
        BY <3>2, <4>1 DEF Current
      <4> QED
        BY <4>1, <4>2, <4>3 DEF ObservedWall
    <3>7. CASE TickStoreLamport(t) \/ TickFetchAdd(t) \/ MergeStoreLamport(t)
      <4>1. pc[t] # "idle" /\ pc'[t] = "idle"
        BY <3>7 DEF TickStoreLamport, TickFetchAdd, MergeStoreLamport, Finish,
                    AtomicsTypeOK
      <4>2. InStores' = {} /\ Current(t)
        BY <3>2, <3>3, <4>1 DEF InStores
      <4>3. ObservedWall' = aWall'
        BY <4>2 DEF ObservedWall
      <4>4. now[t] \in 0 .. MaxReading /\ now[t] \in Nat /\ prevWall[t] \in Nat
        BY DEF AtomicsTypeOK
      <4>5. CASE TickStoreLamport(t)
        <5>1. ObservedWall = prevWall[t]
          BY <3>2, <4>5, Observed DEF TickStoreLamport, InStores
        <5>2. /\ aWall' = aWall /\ aWall = TickWall(now[t], prevWall[t])
              /\ aLamport' = 0 /\ now[t] > prevWall[t]
              /\ last' = Stamp(aWall, 0, Dev)
          BY <4>2, <4>5 DEF TickStoreLamport, Current, Finish
        <5>3. TickLamport(now[t], prevWall[t], aLamport) = 0
          BY <4>4, <5>2 DEF TickLamport, TickWall, Larger
        <5>4. Generator!GTick(now[t])
          BY <4>3, <5>1, <5>2, <5>3, SameOperators
             DEF Generator!GTick, Generator!Return
        <5> QED
          BY <4>4, <5>4 DEF Generator!GNext
      <4>6. CASE TickFetchAdd(t)
        <5>1. ObservedWall = aWall /\ prevWall[t] = aWall
          BY <3>2, <4>2, <4>6, Observed DEF TickFetchAdd, InStores, Current
        <5>2. /\ aWall' = aWall /\ now[t] <= aWall /\ aLamport' = aLamport + 1
              /\ last' = Stamp(TickWall(now[t], aWall), aLamport + 1, Dev)
          BY <4>2, <4>6, <5>1 DEF TickFetchAdd, Current, Finish
        <5>3. /\ TickWall(now[t], aWall) = aWall
              /\ TickLamport(now[t], aWall, aLamport) = aLamport + 1
          BY <4>4, <5>1, <5>2 DEF TickLamport, TickWall, Larger
        <5>4. Generator!GTick(now[t])
          BY <4>3, <5>1, <5>2, <5>3, SameOperators
             DEF Generator!GTick, Generator!Return
        <5> QED
          BY <4>4, <5>4 DEF Generator!GNext
      <4>7. CASE MergeStoreLamport(t)
        <5>1. ObservedWall = prevWall[t]
          BY <3>2, <4>7, Observed DEF MergeStoreLamport, InStores
        <5>2. arg[t] \in Incoming
          BY <4>7 DEF MergeStoreLamport, ArgFits, AtomicsTypeOK
        <5>3. /\ aWall' = aWall /\ prevLam[t] = aLamport
              /\ aWall = MergeWall(now[t], prevWall[t], arg[t])
          BY <4>2, <4>7 DEF MergeStoreLamport, Current
        <5>4. /\ aLamport' = MergeLamport(now[t], prevWall[t], aLamport, arg[t])
              /\ last' = Stamp(aWall, aLamport', Dev)
          BY <4>7, <5>3 DEF MergeStoreLamport, Finish
        <5>5. Generator!GMerge(now[t], arg[t])
          BY <4>3, <5>1, <5>3, <5>4, SameOperators
             DEF Generator!GMerge, Generator!Return
        <5> QED
          BY <4>4, <5>2, <5>5 DEF Generator!GNext
      <4> QED
        BY <3>7, <4>5, <4>6, <4>7
    <3> QED
      BY <2>2, <3>4, <3>5, <3>6, <3>7 DEF StepOf
  <2> QED
    BY <2>1, <2>2, NextIsAStep
<1> QED
  BY <1>1, <1>2, AtomicsTypeCorrect, ArgInvariant, SerialInvariant, PTL
     DEF AtomicsSpec, ImplementsGenerator
=============================================================================
