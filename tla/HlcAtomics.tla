----------------------------- MODULE HlcAtomics -----------------------------
(***************************************************************************)
(* One HlcGenerator used by several threads: `tick` and `merge` take       *)
(* &self, and every load and store of the two atomics is a step of its     *)
(* own.  The steps are sequentially consistent; the Relaxed loads of the   *)
(* code may be staler still.                                               *)
(***************************************************************************)
EXTENDS Hlc, Integers

CONSTANTS
    Thread,
    Dev,        \* device id of this generator
    Incoming,   \* stamps of other devices that may be merged
    MaxReading, \* bound: highest reading of the system clock
    MaxCalls    \* bound: calls made by all the threads together

ASSUME HlcAtomicsAssumption ==
    /\ Dev \in Nat
    /\ Incoming \subseteq Timestamp(Nat \ {Dev})
    /\ MaxReading \in Nat
    /\ MaxCalls \in Nat

VARIABLES
    sysClk,    \* the system clock
    aWall,     \* AtomicI64 wall_ms
    aLamport,  \* AtomicU64 lamport
    pc,        \* where each thread is in its call
    now,       \* local now_ms of each thread
    prevWall,  \* local prev_wall of each thread
    prevLam,   \* local prev_lamport of each thread
    arg,       \* the argument of merge, or NoStamp in tick
    last,      \* history: the latest stamp returned
    got,       \* history: the latest stamp returned to each thread
    settled,   \* history: stamps returned or merged by calls that are over
    base,      \* history: settled as it was when each thread's call began
    calls,     \* history: calls begun
    overlapped \* history: two calls have been under way at once

atomicsVars == <<sysClk, aWall, aLamport, pc, now, prevWall, prevLam, arg, last,
                 got, settled, base, calls, overlapped>>
locals == <<now, prevWall, prevLam>>
history == <<last, got, settled>>
begun == <<base, calls, overlapped>>

NoStamp == Stamp(0, 0, Dev)

Points == {"idle", "clock", "loadWall", "storeWall", "tickLamport",
           "fetchAdd", "loadLamport", "mergeWall", "mergeLamport"}

AtomicsTypeOK ==
    /\ sysClk \in 0 .. MaxReading
    /\ aWall \in Nat /\ aLamport \in Nat
    /\ pc \in [Thread -> Points]
    /\ now \in [Thread -> 0 .. MaxReading]
    /\ prevWall \in [Thread -> Nat] /\ prevLam \in [Thread -> Nat]
    /\ arg \in [Thread -> Incoming \cup {NoStamp}]
    /\ last \in Timestamp({Dev})
    /\ got \in [Thread -> Timestamp({Dev})]
    /\ settled \in SUBSET Timestamp(Nat)
    /\ base \in [Thread -> SUBSET settled]
    /\ calls \in 0 .. MaxCalls
    /\ overlapped \in BOOLEAN

AtomicsInit ==
    /\ sysClk = 0 /\ aWall = 0 /\ aLamport = 0
    /\ pc = [t \in Thread |-> "idle"]
    /\ now = [t \in Thread |-> 0]
    /\ prevWall = [t \in Thread |-> 0]
    /\ prevLam = [t \in Thread |-> 0]
    /\ arg = [t \in Thread |-> NoStamp]
    /\ last = NoStamp
    /\ got = [t \in Thread |-> NoStamp]
    /\ settled = {}
    /\ base = [t \in Thread |-> {}]
    /\ calls = 0
    /\ overlapped = FALSE

(* The system clock never goes back here: HlcClock covers that.            *)
ClockAdvances ==
    /\ sysClk < MaxReading
    /\ sysClk' = sysClk + 1
    /\ UNCHANGED <<aWall, aLamport, pc, now, prevWall, prevLam, arg, history, begun>>

Begin(t, e) ==
    /\ pc[t] = "idle"
    /\ calls < MaxCalls
    /\ calls' = calls + 1
    /\ arg' = [arg EXCEPT ![t] = e]
    /\ base' = [base EXCEPT ![t] = settled]
    /\ pc' = [pc EXCEPT ![t] = "clock"]
    /\ overlapped' = (overlapped \/ \E u \in Thread \ {t} : pc[u] # "idle")
    /\ UNCHANGED <<sysClk, aWall, aLamport, locals, history>>

CallTick(t) == Begin(t, NoStamp)
CallMerge(t) == \E e \in Incoming : Begin(t, e)

(* let now_ms = self.clock.now_ms();                                       *)
ReadClock(t) ==
    /\ pc[t] = "clock"
    /\ now' = [now EXCEPT ![t] = sysClk]
    /\ pc' = [pc EXCEPT ![t] = "loadWall"]
    /\ UNCHANGED <<sysClk, aWall, aLamport, prevWall, prevLam, arg, history, begun>>

(* let prev_wall = self.wall_ms.load(..); then tick chooses its branch.    *)
LoadWall(t) ==
    /\ pc[t] = "loadWall"
    /\ prevWall' = [prevWall EXCEPT ![t] = aWall]
    /\ pc' = [pc EXCEPT ![t] =
                IF arg[t] # NoStamp THEN "loadLamport"
                ELSE IF now[t] > aWall THEN "storeWall"
                ELSE "fetchAdd"]
    /\ UNCHANGED <<sysClk, aWall, aLamport, now, prevLam, arg, history, begun>>

Finish(t, w, l) ==
    LET h == Stamp(w, l, Dev)
    IN  /\ pc' = [pc EXCEPT ![t] = "idle"]
        /\ last' = h
        /\ got' = [got EXCEPT ![t] = h]
        /\ settled' = settled \cup {h} \cup ({arg[t]} \ {NoStamp})
        /\ UNCHANGED <<sysClk, locals, arg, begun>>

(* tick, wall time advanced: two stores.                                   *)
TickStoreWall(t) ==
    /\ pc[t] = "storeWall"
    /\ aWall' = TickWall(now[t], prevWall[t])
    /\ pc' = [pc EXCEPT ![t] = "tickLamport"]
    /\ UNCHANGED <<sysClk, aLamport, locals, arg, history, begun>>

TickStoreLamport(t) ==
    /\ pc[t] = "tickLamport"
    /\ aLamport' = 0
    /\ UNCHANGED aWall
    /\ Finish(t, TickWall(now[t], prevWall[t]), 0)

(* mutated: the value before the fetch_add is returned *)
TickFetchAddOld(t) ==
    /\ pc[t] = "fetchAdd"
    /\ aLamport' = aLamport + 1
    /\ UNCHANGED aWall
    /\ Finish(t, TickWall(now[t], prevWall[t]), aLamport)

(* tick, wall time stood still: lamport.fetch_add(1) + 1.                  *)
TickFetchAdd(t) ==
    /\ pc[t] = "fetchAdd"
    /\ aLamport' = aLamport + 1
    /\ UNCHANGED aWall
    /\ Finish(t, TickWall(now[t], prevWall[t]), aLamport + 1)

MergeLoadLamport(t) ==
    /\ pc[t] = "loadLamport"
    /\ prevLam' = [prevLam EXCEPT ![t] = aLamport]
    /\ pc' = [pc EXCEPT ![t] = "mergeWall"]
    /\ UNCHANGED <<sysClk, aWall, aLamport, now, prevWall, arg, history, begun>>

MergeStoreWall(t) ==
    /\ pc[t] = "mergeWall"
    /\ aWall' = MergeWall(now[t], prevWall[t], arg[t])
    /\ pc' = [pc EXCEPT ![t] = "mergeLamport"]
    /\ UNCHANGED <<sysClk, aLamport, locals, arg, history, begun>>

MergeStoreLamport(t) ==
    LET l == MergeLamport(now[t], prevWall[t], prevLam[t], arg[t])
    IN  /\ pc[t] = "mergeLamport"
        /\ aLamport' = l
        /\ UNCHANGED aWall
        /\ Finish(t, MergeWall(now[t], prevWall[t], arg[t]), l)

AtomicsNext ==
    \/ ClockAdvances
    \/ \E t \in Thread :
        \/ CallTick(t) \/ CallMerge(t)
        \/ ReadClock(t) \/ LoadWall(t)
        \/ TickStoreWall(t) \/ TickStoreLamport(t) \/ TickFetchAdd(t)
        \/ MergeLoadLamport(t) \/ MergeStoreWall(t) \/ MergeStoreLamport(t)

AtomicsSpec == AtomicsInit /\ [][AtomicsNext]_atomicsVars

-----------------------------------------------------------------------------
(* The stamp merge returns is after the stamp it was given, however the    *)
(* loads and stores of the threads interleave: the receiver's answer to an *)
(* event is never ordered before that event.                               *)
MergeReturnsLater ==
    \A t \in Thread :
        pc[t] = "idle" /\ arg[t] # NoStamp => Before(arg[t], got[t])

(* The strengthening MergeReturnsLater needs: a call is at tick's points   *)
(* without an argument and at merge's points with one.                     *)
ArgFits ==
    \A t \in Thread :
        /\ pc[t] \in {"storeWall", "tickLamport", "fetchAdd"} => arg[t] = NoStamp
        /\ pc[t] \in {"loadLamport", "mergeWall", "mergeLamport"} =>
              arg[t] # NoStamp

(* "produces ordered timestamps for local and received events": a call     *)
(* returns a stamp after every stamp returned or merged before it began,   *)
(* on whichever threads, as long as no two calls have overlapped.          *)
OrderedUnlessOverlapped ==
    \A t \in Thread :
        pc[t] = "idle" /\ ~overlapped => \A h \in base[t] : Before(h, got[t])

(* The strengthening OrderedUnlessOverlapped needs.  Until two calls       *)
(* overlap, what the call under way has read is current, and every stamp   *)
(* settled is at or before the generator's state, read as if a call        *)
(* between its two stores had not begun.                                   *)
AllAtOrBefore(S, h) == \A g \in S : AtOrBefore(g, h)

Running == {t \in Thread : pc[t] # "idle"}

Current(t) ==
    /\ base[t] = settled
    /\ pc[t] \in {"storeWall", "fetchAdd", "loadLamport", "mergeWall"} =>
          prevWall[t] = aWall
    /\ pc[t] \in {"tickLamport", "mergeLamport"} =>
          AllAtOrBefore(settled, Stamp(prevWall[t], aLamport, Dev))
    /\ pc[t] \notin {"tickLamport", "mergeLamport"} =>
          AllAtOrBefore(settled, Stamp(aWall, aLamport, Dev))
    /\ pc[t] \in {"storeWall", "tickLamport"} => now[t] > prevWall[t]
    /\ pc[t] = "fetchAdd" => now[t] <= prevWall[t]
    /\ pc[t] = "tickLamport" => aWall = TickWall(now[t], prevWall[t])
    /\ pc[t] \in {"mergeWall", "mergeLamport"} => prevLam[t] = aLamport
    /\ pc[t] = "mergeLamport" => aWall = MergeWall(now[t], prevWall[t], arg[t])

SerialInv ==
    overlapped \/
        /\ \A t, u \in Running : t = u
        /\ \A t \in Running : Current(t)
        /\ Running = {} => AllAtOrBefore(settled, Stamp(aWall, aLamport, Dev))
        /\ \A t \in Thread \ Running : \A h \in base[t] : Before(h, got[t])

(* The two atomics as an outside observer of finished calls sees them: a   *)
(* call between its two stores has not happened yet.                       *)
InStores == {t \in Thread : pc[t] \in {"tickLamport", "mergeLamport"}}

ObservedWall ==
    IF InStores = {} THEN aWall ELSE prevWall[CHOOSE t \in InStores : TRUE]

Generator ==
    INSTANCE HlcGenerator WITH
        wall <- ObservedWall, lamport <- aLamport, MaxWall <- MaxReading

(* Until two calls overlap, the loads and stores implement the generator's *)
(* promise: every call is one atomic step to the stamp it returns.         *)
ImplementsGenerator ==
    Generator!GInit /\ [][overlapped' \/ Generator!GNext]_(Generator!gvars)

=============================================================================
