-------------------------------- MODULE Lww --------------------------------
(***************************************************************************)
(* Last-writer-wins resolution (core/src/sync/lww.rs) as pure operators    *)
(* over logs: sequences of the events of one entity, in whatever order     *)
(* they were received.  Of an EventEnvelope only what resolution reads is  *)
(* kept: the event id, the operation and the HLC timestamp.  An Option is  *)
(* a set of at most one element.                                           *)
(***************************************************************************)
EXTENDS Hlc, Sequences, FiniteSets

(* mutated (as is the form so marked below: slips the code could well      *)
(* contain; nothing uses them): the events are taken as they came          *)
Unsorted(log) == log

(* Vec::sort_by_key is stable: events of equal timestamps keep their order. *)
Sooner(log, i, j) ==
    \/ Before(log[i].stamp, log[j].stamp)
    \/ log[i].stamp = log[j].stamp /\ i < j

Place(log, i) == Cardinality({j \in DOMAIN log : Sooner(log, j, i)}) + 1

Sorted(log) ==
    LET placed == {<<Place(log, i), log[i]>> : i \in DOMAIN log}
    IN  [k \in DOMAIN log |-> (CHOOSE p \in placed : p[1] = k)[2]]

(* mutated: only events before the delete are skipped, not one beside it *)
ResolveStepStrict(state, ev) ==
    IF \E d \in state.deleteAt : Before(ev.stamp, d)
    THEN state
    ELSE [current  |-> {ev},
          deleteAt |-> IF ev.op = "delete" THEN {ev.stamp} ELSE state.deleteAt]

(* One turn of the loop: an event no later than the last delete is skipped. *)
ResolveStep(state, ev) ==
    IF \E d \in state.deleteAt : AtOrBefore(ev.stamp, d)
    THEN state
    ELSE [current  |-> {ev},
          deleteAt |-> IF ev.op = "delete" THEN {ev.stamp} ELSE state.deleteAt]

(* What the loop over the events of a sorted log holds after each turn.    *)
Turns(sorted) ==
    LET state[k \in 0 .. Len(sorted)] ==
            IF k = 0 THEN [current |-> {}, deleteAt |-> {}]
            ELSE ResolveStep(state[k - 1], sorted[k])
    IN  state

Resolve(log) == LET sorted == Sorted(log) IN Turns(sorted)[Len(sorted)].current
=============================================================================
