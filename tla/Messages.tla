------------------------------ MODULE Messages ------------------------------
(***************************************************************************)
(* The vocabulary of a table server: keys, values, and the requests and    *)
(* answers that MessageT carries (source/htmessages.proto).  Answers reuse *)
(* the structure of the request, as invoke does.                           *)
(***************************************************************************)
EXTENDS Naturals, FiniteSets

CONSTANTS
  Key,
  Value,
  NoValue,   \* a key without entry in the table; a value of zero length
  Requests   \* the requests that connections may send

(* "other" stands for OP_BAD, OP_ERROR and every opcode that invoke sends to
   its default branch. *)
Opcode == {"put", "get", "del", "size", "getkeys", "gettable", "stats", "other"}

(* A request: its opcode, whether its c_type is the one that invoke wants
   with that opcode, and its arguments. *)
Request == [op : Opcode, typed : BOOLEAN, key : Key, val : Value \cup {NoValue}]

ASSUME KeyAssumption     == IsFiniteSet(Key) /\ NoValue \notin Value
ASSUME RequestAssumption == Requests \subseteq Request

(* Mutant: a delete passes for a read. *)
PutIsWrite(r) == r.op = "put"

(* isWrite looks at the opcode alone. *)
IsWrite(r) == r.op \in {"put", "del"}

Done(op)   == [reply |-> op]
ErrorReply == [reply |-> "error"]

(* The state of a connection, as its peer sees it. *)
Idle     == [stage |-> "idle"]
Asked(r) == [stage |-> "asked", req |-> r]
Given(a) == [stage |-> "answered", ans |-> a]

Present(tab) == {k \in Key : tab[k] # NoValue}
=============================================================================
