-------------------------- MODULE MCOfflineMutation --------------------------
(* Instances of the offline queue and its hook for TLC. *)
EXTENDS OfflineMutation

MCChanges == [installed \in BOOLEAN |-> IF installed THEN 2 ELSE 1]
MCRaceChanges == [installed \in {TRUE} |-> 2]
=============================================================================
