------------------------------- MODULE MCJoin -------------------------------
(* Small chains that grow, for TLC. *)
EXTENDS Join
=============================================================================
