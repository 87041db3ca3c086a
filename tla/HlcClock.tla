------------------------------ MODULE HlcClock ------------------------------
(***************************************************************************)
(* A set of devices, each with one HlcGenerator (core/src/sync/hlc.rs)     *)
(* that it uses from one thread at a time: `tick` stamps a local event,    *)
(* `merge` absorbs the stamp of any event ever issued.  Events travel over *)
(* an arbitrary network: merging any issued stamp, any number of times and *)
(* in any order, covers loss, duplication and reordering.  System clocks   *)
(* are skewed, and step backwards when ClockMayStepBack.  A restart builds *)
(* a fresh generator (`HlcGenerator::new`): its state is never saved.      *)
(***************************************************************************)
EXTENDS Hlc, Integers, FiniteSets

CONSTANTS
    Device,            \* device ids, compared as numbers
    ClockMayStepBack,  \* may a system clock be set back while running?
    MaxWall,           \* bound: highest reading of a system clock
    MaxEvents,         \* bound: stamps issued by all the devices together
    MaxRestarts        \* bound: restarts of all the devices together

ASSUME HlcClockAssumption ==
    /\ Device \subseteq Nat
    /\ ClockMayStepBack \in BOOLEAN
    /\ MaxWall \in Nat
    /\ MaxEvents \in Nat
    /\ MaxRestarts \in Nat

VARIABLES
    clk,        \* reading of each device's system clock, now_ms()
    wall,       \* HlcGenerator.wall_ms of each device
    lamport,    \* HlcGenerator.lamport of each device
    issued,     \* history: every stamp tick or merge returned
    nIssued,    \* history: how many calls returned one
    known,      \* history: the stamps in each device's causal past
    precedes,   \* history: <<g, h>>, the event of g happened before that of h
    peak,       \* history: highest reading any clock ever had
    restarts    \* history: restarts so far

vars == <<clk, wall, lamport, issued, nIssued, known, precedes, peak, restarts>>

TypeOK ==
    /\ clk \in [Device -> Nat]
    /\ wall \in [Device -> Nat]
    /\ lamport \in [Device -> Nat]
    /\ issued \in SUBSET Timestamp(Device)
    /\ nIssued \in Nat
    /\ known \in [Device -> SUBSET issued]
    /\ precedes \in SUBSET (issued \X issued)
    /\ peak \in Nat
    /\ restarts \in Nat

Init ==
    /\ clk = [d \in Device |-> 0]
    /\ wall = [d \in Device |-> 0]
    /\ lamport = [d \in Device |-> 0]
    /\ issued = {}
    /\ nIssued = 0
    /\ known = [d \in Device |-> {}]
    /\ precedes = {}
    /\ peak = 0
    /\ restarts = 0

(* The call of device d leaves (w, l), returns that stamp, and its event   *)
(* comes after everything in past.                                         *)
Issue(d, w, l, past) ==
    LET h == Stamp(w, l, d)
    IN  /\ nIssued < MaxEvents
        /\ wall' = [wall EXCEPT ![d] = w]
        /\ lamport' = [lamport EXCEPT ![d] = l]
        /\ issued' = issued \cup {h}
        /\ nIssued' = nIssued + 1
        /\ known' = [known EXCEPT ![d] = past \cup {h}]
        /\ precedes' = precedes \cup (past \X {h})
        /\ UNCHANGED <<clk, peak, restarts>>

Tick(d) ==
    Issue(d, TickWall(clk[d], wall[d]),
             TickLamport(clk[d], wall[d], lamport[d]),
             known[d])

Merge(d, e) ==
    Issue(d, MergeWall(clk[d], wall[d], e),
             MergeLamport(clk[d], wall[d], lamport[d], e),
             known[d] \cup {e} \cup {g \in issued : <<g, e>> \in precedes})

(* The system clock moves: forwards, or anywhere if it may be set back.    *)
MoveClock(d, t) ==
    /\ t # clk[d]
    /\ ClockMayStepBack \/ t > clk[d]
    /\ clk' = [clk EXCEPT ![d] = t]
    /\ peak' = Larger(peak, t)
    /\ UNCHANGED <<wall, lamport, issued, nIssued, known, precedes, restarts>>

(* The process dies and starts again at least a millisecond later.  What   *)
(* the device has stored of its past is durable, the generator is not.     *)
Restart(d) ==
    /\ restarts < MaxRestarts
    /\ clk[d] < MaxWall
    /\ restarts' = restarts + 1
    /\ clk' = [clk EXCEPT ![d] = @ + 1]
    /\ peak' = Larger(peak, clk[d] + 1)
    /\ wall' = [wall EXCEPT ![d] = 0]
    /\ lamport' = [lamport EXCEPT ![d] = 0]
    /\ UNCHANGED <<issued, nIssued, known, precedes>>

Next ==
    \E d \in Device :
        \/ Tick(d)
        \/ \E e \in issued : Merge(d, e)
        \/ \E t \in 0 .. MaxWall : MoveClock(d, t)
        \/ Restart(d)

Spec == Init /\ [][Next]_vars

-----------------------------------------------------------------------------
(* sync-protocol.md section 3: "if event A causally precedes event B ...   *)
(* then HLC(A) < HLC(B)", whatever the system clocks do.                   *)
Causality == \A p \in precedes : Before(p[1], p[2])

(* The guarantee for as long as no generator has been rebuilt: Causality,  *)
(* through chains of merges over several devices with skewed clocks.       *)
CausalityWhileRunning == restarts = 0 => Causality

(* Two calls never return the same stamp, on one device or on two: the     *)
(* order is total over events ("strict total order", section 3.3), so      *)
(* last-writer-wins never meets a tie between distinct events.             *)
DistinctWhileRunning == restarts = 0 => Cardinality(issued) = nIssued

(* Stamps stay close to wall time: no generator runs ahead of the highest  *)
(* clock there ever was, and none stays behind the stamps it has absorbed. *)
CloseToWallTime ==
    /\ \A d \in Device : wall[d] <= peak
    /\ restarts = 0 => \A d \in Device : \A g \in known[d] : g.wall <= wall[d]

-----------------------------------------------------------------------------
(* Why these hold: a running generator is at or after every stamp in its   *)
(* device's causal past, and a device knows every stamp it issued itself.  *)
AfterItsPast ==
    \A d \in Device : \A g \in known[d] :
        AtOrBefore(g, Stamp(wall[d], lamport[d], d))

KnowsItsOwn == \A h \in issued : h \in known[h.dev]

NoStampTwice == IsFiniteSet(issued) /\ Cardinality(issued) = nIssued

OrderInv ==
    restarts = 0 => Causality /\ AfterItsPast /\ KnowsItsOwn /\ NoStampTwice

WallInv ==
    /\ \A d \in Device : clk[d] <= peak /\ wall[d] <= peak
    /\ \A h \in issued : h.wall <= peak

=============================================================================
