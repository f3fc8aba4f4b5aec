---------------------------- MODULE MCRegenerate ----------------------------
(* TLC instances of Regenerate. *)
EXTENDS Regenerate, TLC

Symmetry == Permutations(Users) \cup Permutations(Sigs) \cup Permutations(Requests)
=============================================================================
