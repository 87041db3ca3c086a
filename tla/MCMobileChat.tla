---------------------------- MODULE MCMobileChat ----------------------------
(* Instances of the mobile chat for TLC. *)
EXTENDS MobileChat, TLC

CONSTANTS m1, m2, c1, c2

MCMessages == {m1, m2}

MCCalls == {c1, c2}

(* Messages and calls are only told apart *)
Symmetry == Permutations(MCMessages) \cup Permutations(MCCalls)
=============================================================================
