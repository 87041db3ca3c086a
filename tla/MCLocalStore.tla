---------------------------- MODULE MCLocalStore ----------------------------
(* Instances of the local store for TLC: one replaced and one kept table. *)
EXTENDS LocalStore, TLC

CONSTANTS o1, o2

MCOpeners == {o1, o2}
MCTables == <<"drafts", "actions">>
MCSource == [t \in {"drafts", "actions"} |-> {"s"}]
MCOwn == [t \in {"drafts", "actions"} |-> IF t = "drafts" THEN {"u"} ELSE {}]
Symmetry == Permutations(MCOpeners)
=============================================================================
