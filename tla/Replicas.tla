------------------------------ MODULE Replicas ------------------------------
(***************************************************************************)
(* Devices that edit one entity and exchange their events: each stamps its *)
(* writes with HlcGenerator::tick, absorbs the stamp of a received event   *)
(* with merge before it processes it, drops it when IdempotencyCache has   *)
(* seen it (core/src/sync/idempotency.rs), and reads the entity by         *)
(* resolving the log of what it holds (lww.rs).  The server that carries   *)
(* the events is external, modelled from the requests of network.rs: an    *)
(* event reaches it some time after it was written, and from then on may   *)
(* reach the other devices over the subscription, in any order and several *)
(* times, or in answer to a pull, which asks for the events after the      *)
(* device's cursor only.  A restart builds a new generator and a new       *)
(* cache; the log is stored, and the cursor may be or not.  The system     *)
(* clocks are skewed and may be set back, so a reading is any number.      *)
(***************************************************************************)
EXTENDS Lww, Idempotency, FiniteSets

CONSTANTS
    Device,            \* device ids, compared as numbers
    CacheSize,         \* IdempotencyCache.max_size
    MaxWall,           \* bound: highest reading of a system clock
    MaxEvents,         \* bound: events written by all the devices
    MaxRepeats,        \* bound: repeated events in the log of one device
    MaxRestarts        \* bound: restarts of all the devices together

ASSUME ReplicasAssumption ==
    /\ Device \subseteq Nat
    /\ {CacheSize, MaxWall, MaxEvents, MaxRepeats, MaxRestarts} \subseteq Nat

VARIABLES
    gen,      \* the (wall, lamport) of its HlcGenerator
    events,   \* every event ever written
    pushed,   \* those that reached the server
    log,      \* log[d]: the events device d holds, as it received them
    cache,    \* cache[d]: the event ids in its IdempotencyCache, oldest first
    cursor,   \* cursor[d]: wall and lamport of the last event it processed
    passed,   \* history: the pushed events the cursor of d was moved past, or
              \* had passed when they were pushed, without their being processed
    restarts  \* restarts so far

replicasVars ==
    <<gen, events, pushed, log, cache, cursor, passed, restarts>>

Ops == {"update", "delete"}

(* Cursor::from_hlc drops the device id: a cursor is behind the events of  *)
(* a later wall, or of a later lamport in the same one, and at the others. *)
Origin == [wall |-> 0, lamport |-> 0]
Position(ev) == [wall |-> ev.stamp.wall, lamport |-> ev.stamp.lamport]
Behind(at, ev) ==
    \/ at.wall < ev.stamp.wall
    \/ at.wall = ev.stamp.wall /\ at.lamport < ev.stamp.lamport

ReplicasInit ==
    /\ gen = [d \in Device |-> [wall |-> 0, lamport |-> 0]]
    /\ events = {}
    /\ pushed = {}
    /\ log = [d \in Device |-> <<>>]
    /\ cache = [d \in Device |-> <<>>]
    /\ cursor = [d \in Device |-> Origin]
    /\ passed = [d \in Device |-> {}]
    /\ restarts = 0

Holds(d) == {log[d][k] : k \in 1 .. Len(log[d])}

(* A local edit: tick, and the event joins the log. *)
Write(d, op, now) ==
    LET w == TickWall(now, gen[d].wall)
        l == TickLamport(now, gen[d].wall, gen[d].lamport)
        ev == [id |-> Cardinality(events) + 1, op |-> op, stamp |-> Stamp(w, l, d)]
    IN  /\ Cardinality(events) < MaxEvents
        /\ gen' = [gen EXCEPT ![d] = [wall |-> w, lamport |-> l]]
        /\ events' = events \cup {ev}
        /\ log' = [log EXCEPT ![d] = Append(@, ev)]
        /\ UNCHANGED <<pushed, cache, cursor, passed, restarts>>

(* An event is pushed, at once or long after it was written.               *)
Push(ev) ==
    /\ pushed' = pushed \cup {ev}
    /\ passed' = [d \in Device |->
                    passed[d] \cup {f \in {ev} : f.stamp.dev # d /\ ~Behind(cursor[d], f)}]
    /\ UNCHANGED <<gen, events, log, cache, cursor, restarts>>

(* What POST /sync/pull answers: the others' events after the cursor.      *)
Page(d) == {ev \in pushed : ev.stamp.dev # d /\ Behind(cursor[d], ev)}

(* An event is processed: a duplicate is dropped, any other absorbed.      *)
Absorb(d, ev, now) ==
    /\ gen' = [gen EXCEPT ![d] =
                 [wall    |-> MergeWall(now, @.wall, ev.stamp),
                  lamport |-> MergeLamport(now, @.wall, @.lamport, ev.stamp)]]
    /\ cache' = [cache EXCEPT ![d] = Insert(@, ev.id, CacheSize)]
    /\ log' = [log EXCEPT ![d] = Append(@, ev)]

Process(d, ev, now) ==
    /\ IF IsDuplicate(cache[d], ev.id) THEN UNCHANGED <<gen, cache, log>>
       ELSE Absorb(d, ev, now)
    /\ cursor' = [cursor EXCEPT ![d] = IF Behind(@, ev) THEN Position(ev) ELSE @]
    /\ passed' = [passed EXCEPT ![d] =
                    (@ \cup {f \in Page(d) : ~Behind(cursor'[d], f)}) \ {ev}]
    /\ UNCHANGED <<events, pushed, restarts>>

(* The next event of a pull: they come in the order of their stamps.       *)
Pull(d, ev, now) ==
    /\ ev \in Page(d)
    /\ \A f \in Page(d) : ~Before(f.stamp, ev.stamp)
    /\ Process(d, ev, now)

(* An event over the subscription: any, for the first time or again.       *)
Deliver(d, ev, now) ==
    /\ ev.stamp.dev # d
    /\ ev \in Holds(d) => Len(log[d]) - Cardinality(Holds(d)) < MaxRepeats
    /\ Process(d, ev, now)

(* HlcGenerator::new and IdempotencyCache::new; load_cursor, which finds   *)
(* no cursor as yet and is to find the one last saved.                     *)
Restart(d) ==
    /\ restarts < MaxRestarts
    /\ restarts' = restarts + 1
    /\ gen' = [gen EXCEPT ![d] = [wall |-> 0, lamport |-> 0]]
    /\ cache' = [cache EXCEPT ![d] = <<>>]
    /\ \/ UNCHANGED <<cursor, passed>>
       \/ /\ cursor' = [cursor EXCEPT ![d] = Origin]
          /\ passed' = [passed EXCEPT ![d] = {}]
    /\ UNCHANGED <<events, pushed, log>>

ReplicasNext ==
    \/ \E d \in Device :
        \/ \E now \in 0 .. MaxWall :
            \/ \E op \in Ops : Write(d, op, now)
            \/ \E ev \in pushed : Pull(d, ev, now) \/ Deliver(d, ev, now)
        \/ Restart(d)
    \/ \E ev \in events \ pushed : Push(ev)

ReplicasSpec == ReplicasInit /\ [][ReplicasNext]_replicasVars

(* A device that is connected pulls, again and again (the caller's loop,   *)
(* which is not in this repository): the next event of a pull arrives in   *)
(* the end.  Nothing is assumed of pushes and of the subscription.         *)
ReplicasFairSpec ==
    ReplicasSpec /\ \A d \in Device :
        WF_replicasVars(\E ev \in pushed, now \in 0 .. MaxWall : Pull(d, ev, now))

-----------------------------------------------------------------------------
(* Devices that hold the same events see the same entity, however the      *)
(* events were ordered, repeated and resolved ("deterministic conflict     *)
(* resolution", lww.rs), restarts included; only two different events with *)
(* one timestamp can keep them apart.                                      *)
Tied(S) == \E e, f \in S : e # f /\ e.stamp = f.stamp

ConvergedUnlessTied ==
    \A c, d \in Device :
        Holds(c) = Holds(d) /\ ~Tied(Holds(c)) => Resolve(log[c]) = Resolve(log[d])

(* A delete wins over every update that is not strictly newer, even one    *)
(* with its own timestamp, whichever was received first.                   *)
TombstoneHolds ==
    \A d \in Device : \A e \in Resolve(log[d]), f \in Holds(d) :
        e.op # "delete" /\ f.op = "delete" => Before(f.stamp, e.stamp)

(* A device that edits the entity sees its edit at once, whatever it had   *)
(* received before: its write is newer than all it has seen, so no older   *)
(* delete or faster clock hides it.                                        *)
SeesOwnWrite ==
    [][\A d \in Device :
         (log'[d] # log[d] /\ log'[d][Len(log'[d])].stamp.dev = d)
            => restarts > 0 \/ Resolve(log'[d]) = {log'[d][Len(log'[d])]}]_replicasVars

(* Once the devices have stopped editing and have pushed all they wrote,   *)
(* they come to see the same entity, unless a device's cursor went past an *)
(* event it has not received: one pushed after another device's later one  *)
(* was processed, or with the wall and lamport of one that was.            *)
Overtaken(d) == passed[d] \ Holds(d) # {}

EventuallyConverged ==
    <>[](\/ \A c, d \in Device : Resolve(log[c]) = Resolve(log[d])
         \/ Tied(events)
         \/ pushed # events
         \/ \E d \in Device : Overtaken(d))
=============================================================================
