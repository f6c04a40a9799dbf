----------------------------- MODULE Dictionary -----------------------------
(***************************************************************************)
(* What include/table.h promises: a map from keys to blocks, and what each *)
(* call returns, table_destroy excepted.  No lists, no hash.  HashTable is *)
(* shown to implement it.                                                  *)
(***************************************************************************)
EXTENDS Integers, FiniteSets, SequencesExt

CONSTANTS
  Key,
  Block,
  NULL,     \* no block
  Refused   \* keys the table may refuse: a call with one fails or crashes

VARIABLES
  map,      \* the block of every key, NULL when it has no entry
  open,     \* the table exists and its process runs
  answer    \* the last call, with its arguments, and what it returned

dvars == <<map, open, answer>>

Returns(call, r) == answer' = [call |-> call, ret |-> r]
Keys == {k \in Key : map[k] # NULL}

Init ==
  /\ map = [k \in Key |-> NULL]
  /\ open = TRUE
  /\ answer = [call |-> <<"create">>, ret |-> 0]

Put(k, b) ==
  /\ Returns(<<"put", k, b>>, 0)
  /\ map' = [map EXCEPT ![k] = b]

(* NULL is no block to put. *)
PutNothing(k) ==
  /\ Returns(<<"put", k, NULL>>, -1)
  /\ UNCHANGED map

Get(k) ==
  /\ Returns(<<"get", k>>, map[k])
  /\ UNCHANGED map

Delete(k) ==
  /\ Returns(<<"remove", k>>, IF map[k] = NULL THEN 1 ELSE 0)
  /\ map' = [map EXCEPT ![k] = NULL]

Size ==
  /\ Returns(<<"size">>, Cardinality(Keys))
  /\ UNCHANGED map

(* Every key once, in any order. *)
GetKeys ==
  /\ answer' \in [call : {<<"get_keys">>}, ret : SetToSeqs(Keys)]
  /\ UNCHANGED map

(* What it returns is left open here: table.h promises 0, and the run
   destroy_reports_failure shows that the code returns -1. *)
Destroy ==
  /\ \E r \in {0, -1} : Returns(<<"destroy">>, r)
  /\ map' = [k \in Key |-> NULL]
  /\ open' = FALSE

Refuse(k) ==
  /\ k \in Refused
  /\ \/ /\ \/ \E b \in Block : Returns(<<"put", k, b>>, -1)
           \/ Returns(<<"get", k>>, NULL)
           \/ Returns(<<"remove", k>>, -1)
        /\ UNCHANGED open
     \/ answer' = answer /\ open' = FALSE
  /\ UNCHANGED map

Next ==
  /\ open
  /\ \/ /\ \/ \E k \in Key : \/ \E b \in Block : Put(k, b)
                             \/ PutNothing(k) \/ Get(k) \/ Delete(k)
           \/ Size \/ GetKeys
        /\ UNCHANGED open
     \/ Destroy
     \/ \E k \in Key : Refuse(k)

Spec == Init /\ [][Next]_dvars
=============================================================================
