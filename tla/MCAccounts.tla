----------------------------- MODULE MCAccounts -----------------------------
(* TLC instances of Accounts. *)
EXTENDS Accounts, TLC

Symmetry == Permutations(Requests) \cup Permutations(Sids)
               \cup Permutations(Users \ {Root})
=============================================================================
