---------------------------- MODULE MCProvision ----------------------------
(* The constants of Provision for TLC. *)
EXTENDS Provision, TLC

Symmetry == Permutations(Names) \cup Permutations(Ids) \cup Permutations(Calls)
=============================================================================
