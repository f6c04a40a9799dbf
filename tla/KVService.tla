----------------------------- MODULE KVService -----------------------------
(***************************************************************************)
(* What one server promises to its connections: a table from keys to       *)
(* values on which every request takes effect at one instant between its   *)
(* arrival and its answer.  The module says nothing of locks, lists or     *)
(* counters; ServerThreads is shown to implement it.                       *)
(***************************************************************************)
EXTENDS Messages

CONSTANT Thread   \* the connections of the server, one clientThread each

VARIABLES
  table,    \* the value of every key
  dialog    \* per connection: idle, or the request it sent, or its answer

kvars == <<table, dialog>>

(* An error, and no effect, for a message whose opcode and c_type do not fit
   and for an empty value. *)
Rejected(r) == r.op = "other" \/ ~ r.typed \/ (r.op = "put" /\ r.val = NoValue)

(* The answer to request r when the table is tab.  The counters of a
   statistics answer are left out. *)
Answer(r, tab) ==
  IF Rejected(r) THEN ErrorReply ELSE
  CASE r.op = "get"      -> IF tab[r.key] = NoValue
                            THEN ErrorReply
                            ELSE [reply |-> "get", val |-> tab[r.key]]
    [] r.op = "size"     -> [reply |-> "size", n |-> Cardinality(Present(tab))]
    [] r.op = "getkeys"  -> [reply |-> "getkeys", keys |-> Present(tab),
                             n |-> Cardinality(Present(tab))]
    [] r.op = "gettable" -> [reply |-> "gettable",
                             entries |-> [k \in Present(tab) |-> tab[k]]]
    [] OTHER             -> Done(r.op)

After(r, tab) ==
  IF Rejected(r) \/ ~ IsWrite(r)
  THEN tab
  ELSE [tab EXCEPT ![r.key] = IF r.op = "put" THEN r.val ELSE NoValue]
-----------------------------------------------------------------------------
Init ==
  /\ table = [k \in Key |-> NoValue]
  /\ dialog = [t \in Thread |-> Idle]

Submit(t) ==
  /\ dialog[t] = Idle
  /\ \E r \in Requests : dialog' = [dialog EXCEPT ![t] = Asked(r)]
  /\ UNCHANGED table

(* The instant at which a request takes effect. *)
Execute(t) ==
  \E r \in Requests :
    /\ dialog[t] = Asked(r)
    /\ dialog' = [dialog EXCEPT ![t] = Given(Answer(r, table))]
    /\ table' = After(r, table)

(* The answer leaves, or the connection breaks before or after the request
   took effect. *)
Finish(t) ==
  /\ dialog[t] # Idle
  /\ dialog' = [dialog EXCEPT ![t] = Idle]
  /\ UNCHANGED table

Next == \E t \in Thread : Submit(t) \/ Execute(t) \/ Finish(t)

Spec == Init /\ [][Next]_kvars
=============================================================================
