---------------------------- MODULE MCMembership ----------------------------
(* Three servers, each started and killed at most once. *)
EXTENDS Membership
=============================================================================
