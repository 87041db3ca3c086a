----------------------------- MODULE MCReplicas -----------------------------
(* Instances of the replicas for TLC. *)
EXTENDS Replicas

MCDevices == {1, 2}
=============================================================================
