---------------------------- MODULE MCModelStore ----------------------------
(* Instances of the model store for TLC. *)
EXTENDS ModelStore

CONSTANTS d1, d2, f1, f2, f3, m1, m2, m3

MCDownloads == {d1, d2}
MCFiles == {f1, f2, f3}
MCModels == {m1, m2, m3}
MCSize == [m \in MCModels |-> IF m = m1 THEN 2 ELSE 1]
MCImported == {m3}
=============================================================================
