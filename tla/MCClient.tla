------------------------------ MODULE MCClient ------------------------------
(* The client of small chains, for TLC. *)
EXTENDS Client
=============================================================================
