------------------------------ MODULE MCSetup -------------------------------
(* TLC instances of Setup. *)
EXTENDS Setup
=============================================================================
