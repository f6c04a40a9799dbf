--------------------------- MODULE MCReplication ---------------------------
(* Small chains for TLC. *)
EXTENDS Replication
=============================================================================
