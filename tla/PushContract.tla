---------------------------- MODULE PushContract ----------------------------
(***************************************************************************)
(* What the callers of SyncNetwork's push may rely on, with no requests,   *)
(* attempts or statuses in sight: the server's log only grows, only by     *)
(* valid events of a call that was made, and a call answered Ok reports    *)
(* on each of its events: rejected is all it ever reports of an invalid    *)
(* one, and anything else only of one in the log.                          *)
(***************************************************************************)
CONSTANTS Call, Event, Invalid

VARIABLES
    made,     \* <<call, batch>>
    stored,
    reported  \* <<call, report>> of the calls that returned Ok
cvars == <<made, stored, reported>>

CInit ==
    /\ made = {}
    /\ stored = {}
    /\ reported = {}

Make(c) ==
    /\ \A m \in made : m[1] # c
    /\ \E B \in SUBSET Event : made' = made \cup {<<c, B>>}
    /\ UNCHANGED <<stored, reported>>

(* Part of a call's events reach the log, perhaps after the call returned. *)
Commit(batch) ==
    /\ \E S \in SUBSET (batch \ Invalid) : stored' = stored \cup S
    /\ UNCHANGED <<made, reported>>

AnswerOk(c, batch) ==
    /\ \A r \in reported : r[1] # c
    /\ \E r \in [batch -> {"accepted", "duplicate", "rejected"}] :
        /\ \A e \in batch : r[e] = "rejected" \/ e \in stored \ Invalid
        /\ reported' = reported \cup {<<c, r>>}
    /\ UNCHANGED <<made, stored>>

CNext ==
    \/ \E c \in Call : Make(c)
    \/ \E m \in made : Commit(m[2]) \/ AnswerOk(m[1], m[2])

CSpec == CInit /\ [][CNext]_cvars

=============================================================================
