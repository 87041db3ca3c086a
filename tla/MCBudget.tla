------------------------------ MODULE MCBudget ------------------------------
(* Instances of the budget for TLC. *)
EXTENDS Budget, TLC

CONSTANTS p1, p2, p3

MCCallers == {p1, p2, p3}
Symmetry == Permutations(MCCallers)
=============================================================================
