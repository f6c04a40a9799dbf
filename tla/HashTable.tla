------------------------------ MODULE HashTable ------------------------------
(***************************************************************************)
(* The table of a server: an array of sorted linked lists                  *)
(* (source/table.c, source/list.c, source/entry.c, source/block.c).  The   *)
(* calls are sequential; rwlock sees to that in the server.  Keys are the  *)
(* numbers of their places in the order of strcmp, and all that the hash   *)
(* sees of a key is the sum of its chars, which are signed: a letter with  *)
(* an accent counts as negative.  Memory does not run out.                 *)
(***************************************************************************)
EXTENDS Integers, SequencesExt

CONSTANTS
  Key,
  Block,
  NULL,
  CharSum,   \* per key, the sum of its chars
  n_lists    \* the server's argument

ASSUME TableAssumption ==
  /\ Key \subseteq Nat
  /\ NULL \notin Block /\ NULL \notin [key : Key, block : Block]
  /\ CharSum \in [Key -> Int]
  /\ n_lists \in Nat \ {0}

VARIABLES
  lists,     \* the lists of the table
  running,   \* the table is there, and the process has not crashed
  answer     \* the last call, with its arguments, and what it returned

vars == <<lists, running, answer>>

Index == 0 .. n_lists - 1

Returns(call, r) == answer' = [call |-> call, ret |-> r]
-----------------------------------------------------------------------------
(* sum % n_lists, with the sign of the sum as in C. *)
hash_function(k) ==
  LET r == (IF CharSum[k] < 0 THEN - CharSum[k] ELSE CharSum[k]) % n_lists
  IN  IF CharSum[k] < 0 THEN - r ELSE r

list_create == [nodes |-> <<>>, size |-> 0]

(* The first node with the key, 0 when there is none. *)
Find(l, k) == SelectInSeq(l.nodes, LAMBDA e : e.key = k)

list_get(l, k) ==
  IF Find(l, k) = 0 THEN NULL ELSE l.nodes[Find(l, k)]

(* Mutant: the scan goes one node too far. *)
PlaceBehind(l, e) ==
  LET stop == SelectInSeq(l.nodes, LAMBDA f : f.key >= e.key)
  IN  IF stop \in {0, Len(l.nodes)} THEN Len(l.nodes) + 1 ELSE stop + 1

(* Where the scan of list_add stops: the first node that is not smaller. *)
Place(l, e) ==
  LET stop == SelectInSeq(l.nodes, LAMBDA f : f.key >= e.key)
  IN  IF stop = 0 THEN Len(l.nodes) + 1 ELSE stop

(* The list after list_add.  A list whose size is 0 gets a new head,
   whatever it holds; an equal key gives its node the new entry. *)
list_add(l, e) ==
  LET at == Place(l, e) IN
  IF l.size = 0
  THEN [nodes |-> <<e>>, size |-> 1]
  ELSE IF at <= Len(l.nodes) /\ l.nodes[at].key = e.key
  THEN [l EXCEPT !.nodes = ReplaceAt(@, at, e)]
  ELSE [nodes |-> InsertAt(l.nodes, at, e), size |-> l.size + 1]

(* Mutant: size goes down for a key that is not there, too. *)
RemoveCountsMissing(l, k) ==
  [nodes |-> IF Find(l, k) = 0 THEN l.nodes ELSE RemoveAt(l.nodes, Find(l, k)),
   size  |-> l.size - 1]

list_remove(l, k) ==
  IF Find(l, k) = 0
  THEN l
  ELSE [nodes |-> RemoveAt(l.nodes, Find(l, k)), size |-> l.size - 1]

list_get_keys(l) == [i \in 1 .. l.size |-> l.nodes[i].key]

(* list_get_keys returns NULL for an empty list, which counts as a failure. *)
list_destroy(l) == IF l.nodes = <<>> THEN -1 ELSE 0

(* Mutant: entry_replace keeps the old block. *)
ReplaceKeepsBlock(l, k, b) == l

(* entry_replace on the entry that list_get found. *)
entry_replace(l, k, b) ==
  [l EXCEPT !.nodes[Find(l, k)] = [key |-> k, block |-> b]]

AllKeys == FlattenSeq([i \in 1 .. n_lists |-> list_get_keys(lists[i - 1])])
-----------------------------------------------------------------------------
(* table_create, with a positive number of lists. *)
Init ==
  /\ lists = [i \in Index |-> list_create]
  /\ running = TRUE
  /\ answer = [call |-> <<"create">>, ret |-> 0]

table_put(k, b) ==
  LET h == hash_function(k) IN
  /\ b # NULL /\ h \in Index
  /\ lists' = [lists EXCEPT ![h] =
       IF list_get(@, k) # NULL
       THEN entry_replace(@, k, b)
       ELSE list_add(@, [key |-> k, block |-> b])]
  /\ Returns(<<"put", k, b>>, 0)
  /\ UNCHANGED running

(* The check of the arguments comes before the hash. *)
table_put_null(k) ==
  /\ Returns(<<"put", k, NULL>>, -1)
  /\ UNCHANGED <<lists, running>>

table_get(k) ==
  LET h == hash_function(k) IN
  /\ h \in Index
  /\ LET e == list_get(lists[h], k)
     IN  Returns(<<"get", k>>, IF e = NULL THEN NULL ELSE e.block)
  /\ UNCHANGED <<lists, running>>

table_remove(k) ==
  LET h == hash_function(k) IN
  /\ h \in Index
  /\ Returns(<<"remove", k>>, IF list_get(lists[h], k) = NULL THEN 1 ELSE 0)
  /\ lists' = [lists EXCEPT ![h] = list_remove(@, k)]
  /\ UNCHANGED running

table_size ==
  LET sum[n \in 0 .. n_lists] ==
        IF n = 0 THEN 0 ELSE sum[n - 1] + lists[n - 1].size
  IN  /\ Returns(<<"size">>, sum[n_lists])
      /\ UNCHANGED <<lists, running>>

table_get_keys ==
  /\ Returns(<<"get_keys">>, AllKeys)
  /\ UNCHANGED <<lists, running>>

(* The list l when list_remove was called with every key of keys in turn. *)
Without(l, keys) ==
  LET after[n \in 0 .. Len(keys)] ==
        IF n = 0 THEN l ELSE list_remove(after[n - 1], keys[n])
  IN  after[Len(keys)]

(* table_remove for every key, then list_destroy for every list. *)
table_destroy ==
  LET emptied == [i \in Index |-> Without(lists[i], list_get_keys(lists[i]))]
  IN  /\ Returns(<<"destroy">>,
           IF \E i \in Index : list_destroy(emptied[i]) = -1 THEN -1 ELSE 0)
      /\ lists' = emptied
      /\ running' = FALSE

(* An index below 0 reads the words before the array: a word that is 0
   passes for a list that is not there, every other one crashes. *)
Stray(k) ==
  /\ hash_function(k) \notin Index
  /\ \/ /\ \/ \E b \in Block : Returns(<<"put", k, b>>, -1)
           \/ Returns(<<"get", k>>, NULL)
           \/ Returns(<<"remove", k>>, -1)
        /\ UNCHANGED running
     \/ answer' = answer /\ running' = FALSE
  /\ UNCHANGED lists

Next ==
  /\ running
  /\ \/ \E k \in Key : \/ \E b \in Block : table_put(k, b)
                       \/ table_put_null(k)
                       \/ table_get(k) \/ table_remove(k) \/ Stray(k)
     \/ table_size \/ table_get_keys \/ table_destroy

Spec == Init /\ [][Next]_vars
-----------------------------------------------------------------------------
Entry == [key : Key, block : Block]

TypeOK ==
  /\ lists \in [Index -> [nodes : Seq(Entry), size : Nat]]
  /\ running \in BOOLEAN
  /\ answer.call[1] \in {"create", "put", "get", "remove", "size", "get_keys",
                         "destroy"}

(* Every list is sorted without duplicates and holds only keys that hash to
   it: a scan that stops early, or a key in two lists, would break lookups
   that no single call shows. *)
ListsOrdered ==
  \A i \in Index : LET nodes == lists[i].nodes IN
    /\ \A j \in DOMAIN nodes : hash_function(nodes[j].key) = i
    /\ \A j \in 1 .. Len(nodes) - 1 : nodes[j].key < nodes[j + 1].key

(* The size of a list is the number of its nodes.  list_add would drop the
   nodes of a list whose size were 0, and list_get_keys would run over the
   end of one whose size were too large. *)
SizesExact == \A i \in Index : lists[i].size = Len(lists[i].nodes)

Lookup(k) ==
  LET h == hash_function(k) IN
  IF h \notin Index \/ list_get(lists[h], k) = NULL
  THEN NULL ELSE list_get(lists[h], k).block

D == INSTANCE Dictionary
       WITH map <- [k \in Key |-> Lookup(k)], open <- running,
            Refused <- {k \in Key : hash_function(k) \notin Index}

(* Whatever collides, the lists together are a dictionary: every call but
   table_destroy returns what table.h promises, keys come out once each, and
   only a key with an index below 0 is ever refused.  table_destroy leaves no
   entry, whatever it returns (DestroySucceeds). *)
IsDictionary == D!Spec
-----------------------------------------------------------------------------
(* What table.h says and the code does not do: table_destroy returns 0 when
   nothing goes wrong. *)
DestroySucceeds == answer.call = <<"destroy">> => answer.ret = 0
=============================================================================
