--------------------------- MODULE ServerThreads ---------------------------
(***************************************************************************)
(* One server process: a clientThread per connection                       *)
(* (source/server_network.c), the skeleton it calls                        *)
(* (source/server_skeleton.c), the pthread rwlock around the table and the *)
(* mutex m around the statistics.  A thread's step is what it does between *)
(* two points where another thread may act: taking or releasing a lock,    *)
(* and every separate access to the table, to its size or to a counter.    *)
(* The next server of the chain is only seen as a socket whose writes may  *)
(* fail; Replication models it.                                            *)
(***************************************************************************)
EXTENDS Messages

CONSTANTS
  Thread,     \* the connections the server can have
  NoThread,   \* nobody holds the mutex
  IntRange,   \* counters wrap at this value (2^32 in the code)
  HasNext     \* whether next_znode_id is set

ASSUME ThreadAssumption ==
  /\ IsFiniteSet(Thread) /\ NoThread \notin Thread
  /\ IntRange \in Nat \ {0}
  /\ HasNext \in BOOLEAN

VARIABLES
  pc,         \* where each thread stands in clientThread
  msg,        \* mensagem: a request, overwritten by its answer
  keys,       \* the array table_get_keys returned to the thread
  entries,    \* the entries msgGetTable has gathered so far
  readers,    \* the threads that hold rwlock for reading
  writers,    \* the threads that hold rwlock for writing
  table,      \* the value of every key, NoValue when it has no entry
  size,       \* the sum of the size fields of the lists
  mutex,      \* the holder of m
  register,   \* a counter between its load and its store
  total_ops, connected_clients,  \* stats
  replied     \* history: answers that count as operations, modulo IntRange

lockVars  == <<readers, writers>>
tableVars == <<table, size>>
workVars  == <<keys, entries>>
statVars  == <<mutex, register, total_ops, connected_clients>>
vars == <<pc, msg, lockVars, tableVars, workVars, statVars, replied>>

(* The threads between increment_clients and decrement_clients. *)
Steps == {"closed", "enter", "entering", "receive", "propagate", "lock",
          "invoke", "replace", "link", "grow", "unlink", "shrink",
          "nkeys", "fetch", "time", "unlock", "reply", "count", "counting",
          "leave", "leaving"}

NoEntries == [k \in {} |-> NoValue]
NoMsg     == [reply |-> "none"]

goto(t, from, to) == pc[t] = from /\ pc' = [pc EXCEPT ![t] = to]
answer(t, a)      == msg' = [msg EXCEPT ![t] = a]

-----------------------------------------------------------------------------
(* server_network_init and server_skeleton_init, up to the first accept. *)
Init ==
  /\ pc = [t \in Thread |-> "closed"]
  /\ msg = [t \in Thread |-> NoMsg]
  /\ keys = [t \in Thread |-> {}]
  /\ entries = [t \in Thread |-> NoEntries]
  /\ readers = {} /\ writers = {}
  /\ table = [k \in Key |-> NoValue] /\ size = 0
  /\ mutex = NoThread
  /\ register = [t \in Thread |-> 0]
  /\ total_ops = 0 /\ connected_clients = 0 /\ replied = 0

(* Mutant: the counter is loaded without locking m. *)
LoadUnguarded(t, counter) ==
  /\ mutex' = t
  /\ register' = [register EXCEPT ![t] = counter]

(* counter++ or counter-- under m: the load, then the store. *)
LoadCounter(t, counter) ==
  /\ mutex = NoThread
  /\ mutex' = t
  /\ register' = [register EXCEPT ![t] = counter]

UnlockMutex(t) ==
  /\ mutex' = NoThread
  /\ register' = [register EXCEPT ![t] = 0]

-----------------------------------------------------------------------------
(* network_main_loop accepts a connection and starts its thread. *)
Accept(t) ==
  /\ goto(t, "closed", "enter")
  /\ UNCHANGED <<msg, lockVars, tableVars, workVars, statVars, replied>>

EnterLoad(t) ==
  /\ goto(t, "enter", "entering")
  /\ LoadCounter(t, connected_clients)
  /\ UNCHANGED <<msg, lockVars, tableVars, workVars, total_ops,
                 connected_clients, replied>>

EnterStore(t) ==
  /\ goto(t, "entering", "receive")
  /\ UnlockMutex(t)
  /\ connected_clients' = register[t] + 1
  /\ UNCHANGED <<msg, lockVars, tableVars, workVars, total_ops, replied>>

Receive(t) ==
  /\ goto(t, "receive", "propagate")
  /\ \E r \in Requests : answer(t, r)
  /\ UNCHANGED <<lockVars, tableVars, workVars, statVars, replied>>

(* network_receive returns NULL: the peer closed, or sent what cannot be
   unpacked. *)
Disconnect(t) ==
  /\ goto(t, "receive", "leave")
  /\ UNCHANGED <<msg, lockVars, tableVars, workVars, statVars, replied>>

Propagate(t) ==
  /\ goto(t, "propagate", "lock")
  /\ UNCHANGED <<msg, lockVars, tableVars, workVars, statVars, replied>>

(* The write to the next server fails: the request is dropped with its
   connection, before it was invoked here. *)
PropagateFails(t) ==
  /\ goto(t, "propagate", "leave")
  /\ HasNext
  /\ answer(t, NoMsg)
  /\ UNCHANGED <<lockVars, tableVars, workVars, statVars, replied>>

(* Mutant: rdlock fails and the thread goes on, as after its perror. *)
comecaReadAnyway(t) ==
  /\ goto(t, "lock", "invoke")
  /\ ~ IsWrite(msg[t])
  /\ readers' = readers \cup {t}
  /\ UNCHANGED <<msg, writers, tableVars, workVars, statVars, replied>>

comecaRead(t) ==
  /\ goto(t, "lock", "invoke")
  /\ ~ IsWrite(msg[t])
  /\ writers = {}
  /\ readers' = readers \cup {t}
  /\ UNCHANGED <<msg, writers, tableVars, workVars, statVars, replied>>

(* Mutant: writers exclude one another, not the readers. *)
comecaWriteBesideReaders(t) ==
  /\ goto(t, "lock", "invoke")
  /\ IsWrite(msg[t])
  /\ writers = {}
  /\ writers' = writers \cup {t}
  /\ UNCHANGED <<msg, readers, tableVars, workVars, statVars, replied>>

comecaWrite(t) ==
  /\ goto(t, "lock", "invoke")
  /\ IsWrite(msg[t])
  /\ writers = {} /\ readers = {}
  /\ writers' = writers \cup {t}
  /\ UNCHANGED <<msg, readers, tableVars, workVars, statVars, replied>>
-----------------------------------------------------------------------------
(* invoke, one disjunct per handler and branch. *)

messageError(t) ==
  /\ goto(t, "invoke", "time")
  /\ msg[t].op = "other" \/ ~ msg[t].typed
  /\ answer(t, ErrorReply)
  /\ UNCHANGED <<lockVars, tableVars, workVars, statVars, replied>>

Handles(t, op) == pc[t] = "invoke" /\ msg[t].typed /\ msg[t].op = op

(* block_create refuses an empty value. *)
PutEmpty(t) ==
  /\ Handles(t, "put") /\ msg[t].val = NoValue
  /\ goto(t, "invoke", "time")
  /\ answer(t, ErrorReply)
  /\ UNCHANGED <<lockVars, tableVars, workVars, statVars, replied>>

(* Mutant: table_put adds without looking the key up. *)
PutFindNothing(t) ==
  /\ Handles(t, "put") /\ msg[t].val # NoValue
  /\ goto(t, "invoke", "link")
  /\ UNCHANGED <<msg, lockVars, tableVars, workVars, statVars, replied>>

(* table_put: list_get decides between entry_replace and list_add. *)
PutFind(t) ==
  /\ Handles(t, "put") /\ msg[t].val # NoValue
  /\ goto(t, "invoke", IF table[msg[t].key] # NoValue THEN "replace" ELSE "link")
  /\ UNCHANGED <<msg, lockVars, tableVars, workVars, statVars, replied>>

PutReplace(t) ==
  /\ goto(t, "replace", "time")
  /\ table' = [table EXCEPT ![msg[t].key] = msg[t].val]
  /\ answer(t, Done("put"))
  /\ UNCHANGED <<lockVars, size, workVars, statVars, replied>>

(* list_add links the node, then counts it. *)
PutLink(t) ==
  /\ goto(t, "link", "grow")
  /\ table' = [table EXCEPT ![msg[t].key] = msg[t].val]
  /\ UNCHANGED <<msg, lockVars, size, workVars, statVars, replied>>

PutGrow(t) ==
  /\ goto(t, "grow", "time")
  /\ size' = size + 1
  /\ answer(t, Done("put"))
  /\ UNCHANGED <<lockVars, table, workVars, statVars, replied>>

Get(t) ==
  /\ Handles(t, "get")
  /\ goto(t, "invoke", "time")
  /\ answer(t, IF table[msg[t].key] = NoValue
               THEN ErrorReply
               ELSE [reply |-> "get", val |-> table[msg[t].key]])
  /\ UNCHANGED <<lockVars, tableVars, workVars, statVars, replied>>

(* list_remove returns 1 for a missing key, which msgDel takes for success. *)
DelMissing(t) ==
  /\ Handles(t, "del") /\ table[msg[t].key] = NoValue
  /\ goto(t, "invoke", "time")
  /\ answer(t, Done("del"))
  /\ UNCHANGED <<lockVars, tableVars, workVars, statVars, replied>>

(* list_remove finds the node, unlinks and destroys it, then counts. *)
DelFind(t) ==
  /\ Handles(t, "del") /\ table[msg[t].key] # NoValue
  /\ goto(t, "invoke", "unlink")
  /\ UNCHANGED <<msg, lockVars, tableVars, workVars, statVars, replied>>

DelUnlink(t) ==
  /\ goto(t, "unlink", "shrink")
  /\ table' = [table EXCEPT ![msg[t].key] = NoValue]
  /\ UNCHANGED <<msg, lockVars, size, workVars, statVars, replied>>

(* Mutant: list_remove forgets its size--. *)
DelShrinkForgotten(t) ==
  /\ goto(t, "shrink", "time")
  /\ answer(t, Done("del"))
  /\ UNCHANGED <<lockVars, tableVars, workVars, statVars, replied>>

DelShrink(t) ==
  /\ goto(t, "shrink", "time")
  /\ size' = size - 1
  /\ answer(t, Done("del"))
  /\ UNCHANGED <<lockVars, table, workVars, statVars, replied>>

Size(t) ==
  /\ Handles(t, "size")
  /\ goto(t, "invoke", "time")
  /\ answer(t, [reply |-> "size", n |-> size])
  /\ UNCHANGED <<lockVars, tableVars, workVars, statVars, replied>>

(* msgGetKeys and msgGetTable both start with table_get_keys. *)
CollectKeys(t, op, to) ==
  /\ Handles(t, op)
  /\ goto(t, "invoke", to)
  /\ keys' = [keys EXCEPT ![t] = Present(table)]
  /\ UNCHANGED <<msg, entries, lockVars, tableVars, statVars, replied>>

(* msgGetKeys asks for table_size only after it has the keys. *)
GetKeysCount(t) ==
  /\ goto(t, "nkeys", "time")
  /\ answer(t, [reply |-> "getkeys", keys |-> keys[t], n |-> size])
  /\ keys' = [keys EXCEPT ![t] = {}]
  /\ UNCHANGED <<entries, lockVars, tableVars, statVars, replied>>

(* msgGetTable looks every key of its array up again. *)
GetTableFetch(t) ==
  /\ pc[t] = "fetch"
  /\ \E k \in keys[t] \ DOMAIN entries[t] :
       /\ table[k] # NoValue
       /\ entries' = [entries EXCEPT ![t] =
            [j \in DOMAIN @ \cup {k} |-> IF j = k THEN table[k] ELSE @[j]]]
  /\ UNCHANGED <<pc, msg, keys, lockVars, tableVars, statVars, replied>>

(* One key that is gone makes the whole answer an error. *)
GetTableEnd(t) ==
  LET lost == \E k \in keys[t] \ DOMAIN entries[t] : table[k] = NoValue
  IN  /\ goto(t, "fetch", "time")
      /\ lost \/ keys[t] = DOMAIN entries[t]
      /\ answer(t, IF lost THEN ErrorReply
                   ELSE [reply |-> "gettable", entries |-> entries[t]])
      /\ keys' = [keys EXCEPT ![t] = {}]
      /\ entries' = [entries EXCEPT ![t] = NoEntries]
      /\ UNCHANGED <<lockVars, tableVars, statVars, replied>>

(* msgGetStats reads the counters without m. *)
GetStats(t) ==
  /\ Handles(t, "stats")
  /\ goto(t, "invoke", "time")
  /\ answer(t, [reply |-> "stats", total_ops |-> total_ops,
                connected_clients |-> connected_clients])
  /\ UNCHANGED <<lockVars, tableVars, workVars, statVars, replied>>

Invoke(t) ==
  \/ messageError(t)
  \/ PutEmpty(t) \/ PutFind(t) \/ PutReplace(t) \/ PutLink(t) \/ PutGrow(t)
  \/ Get(t) \/ Size(t) \/ GetStats(t)
  \/ DelMissing(t) \/ DelFind(t) \/ DelUnlink(t) \/ DelShrink(t)
  \/ CollectKeys(t, "getkeys", "nkeys") \/ GetKeysCount(t)
  \/ CollectKeys(t, "gettable", "fetch")
  \/ GetTableFetch(t) \/ GetTableEnd(t)
-----------------------------------------------------------------------------
(* Mutant: m is not given back after increment_time. *)
CountTimeKeepsMutex(t) ==
  /\ goto(t, "time", "unlock")
  /\ mutex = NoThread /\ mutex' = t
  /\ UNCHANGED <<msg, lockVars, tableVars, workVars, register, total_ops,
                 connected_clients, replied>>

(* increment_time takes m while the thread still holds rwlock. *)
CountTime(t) ==
  /\ goto(t, "time", "unlock")
  /\ mutex = NoThread
  /\ UNCHANGED <<msg, lockVars, tableVars, workVars, statVars, replied>>

(* Mutant: terminaWrite is forgotten. *)
UnlockReadersOnly(t) ==
  /\ goto(t, "unlock", "reply")
  /\ readers' = readers \ {t}
  /\ UNCHANGED <<msg, writers, tableVars, workVars, statVars, replied>>

(* terminaRead or terminaWrite. *)
Unlock(t) ==
  /\ goto(t, "unlock", "reply")
  /\ readers' = readers \ {t} /\ writers' = writers \ {t}
  /\ UNCHANGED <<msg, tableVars, workVars, statVars, replied>>

(* Neither statistics nor errors count as operations. *)
Counts(a) == a.reply \notin {"stats", "error"}

Reply(t) ==
  /\ goto(t, "reply", IF Counts(msg[t]) THEN "count" ELSE "receive")
  /\ replied' = IF Counts(msg[t]) THEN (replied + 1) % IntRange ELSE replied
  /\ answer(t, NoMsg)
  /\ UNCHANGED <<lockVars, tableVars, workVars, statVars>>

(* Mutant: the thread returns where it fails to answer. *)
ReplyFailsReturns(t) ==
  /\ goto(t, "reply", "closed")
  /\ answer(t, NoMsg)
  /\ UNCHANGED <<lockVars, tableVars, workVars, statVars, replied>>

ReplyFails(t) ==
  /\ goto(t, "reply", "leave")
  /\ answer(t, NoMsg)
  /\ UNCHANGED <<lockVars, tableVars, workVars, statVars, replied>>

CountLoad(t) ==
  /\ goto(t, "count", "counting")
  /\ LoadCounter(t, total_ops)
  /\ UNCHANGED <<msg, lockVars, tableVars, workVars, total_ops,
                 connected_clients, replied>>

CountStore(t) ==
  /\ goto(t, "counting", "receive")
  /\ UnlockMutex(t)
  /\ total_ops' = (register[t] + 1) % IntRange
  /\ UNCHANGED <<msg, lockVars, tableVars, workVars, connected_clients, replied>>

LeaveLoad(t) ==
  /\ goto(t, "leave", "leaving")
  /\ LoadCounter(t, connected_clients)
  /\ UNCHANGED <<msg, lockVars, tableVars, workVars, total_ops,
                 connected_clients, replied>>

LeaveStore(t) ==
  /\ goto(t, "leaving", "closed")
  /\ UnlockMutex(t)
  /\ connected_clients' = register[t] - 1
  /\ UNCHANGED <<msg, lockVars, tableVars, workVars, total_ops, replied>>

(* What a thread does without waiting for its peer. *)
Work(t) ==
  \/ EnterLoad(t) \/ EnterStore(t)
  \/ Propagate(t) \/ PropagateFails(t)
  \/ comecaRead(t) \/ comecaWrite(t) \/ Invoke(t) \/ CountTime(t) \/ Unlock(t)
  \/ Reply(t) \/ ReplyFails(t)
  \/ CountLoad(t) \/ CountStore(t)
  \/ LeaveLoad(t) \/ LeaveStore(t)

Next == \E t \in Thread : Accept(t) \/ Receive(t) \/ Disconnect(t) \/ Work(t)

Spec == Init /\ [][Next]_vars

(* The scheduler runs every thread.  m is held for one increment, and glibc's
   default rwlock lets waiting readers in before the next writer. *)
MutexStep(t) == EnterLoad(t) \/ CountTime(t) \/ CountLoad(t) \/ LeaveLoad(t)

Fairness == \A t \in Thread :
  WF_vars(Work(t)) /\ SF_vars(MutexStep(t)) /\ SF_vars(comecaRead(t))

FairSpec == Spec /\ Fairness
-----------------------------------------------------------------------------
Answers ==
  [reply : {"none", "error", "put", "del"}]
    \cup [reply : {"get"}, val : Value]
    \cup [reply : {"size"}, n : Nat]
    \cup [reply : {"getkeys"}, keys : SUBSET Key, n : Nat]
    \cup [reply : {"gettable"}, entries : UNION {[K -> Value] : K \in SUBSET Key}]
    \cup [reply : {"stats"}, total_ops : Nat, connected_clients : Nat]

(* Every variable has its type; msg holds a request up to the end of invoke
   and an answer after it. *)
TypeOK ==
  /\ pc \in [Thread -> Steps]
  /\ msg \in [Thread -> Requests \cup Answers]
  /\ keys \in [Thread -> SUBSET Key]
  /\ entries \in [Thread -> UNION {[K -> Value] : K \in SUBSET Key}]
  /\ readers \subseteq Thread /\ writers \subseteq Thread
  /\ table \in [Key -> Value \cup {NoValue}] /\ size \in Nat
  /\ mutex \in Thread \cup {NoThread}
  /\ register \in [Thread -> Nat]
  /\ total_ops \in 0 .. IntRange - 1
  /\ connected_clients \in Nat
  /\ replied \in 0 .. IntRange - 1

InInvoke == {"invoke", "replace", "link", "grow", "unlink", "shrink",
             "nkeys", "fetch"}
Mutating == {"replace", "link", "grow", "unlink", "shrink"}
Asking   == {"propagate", "lock"} \cup InInvoke
Locked   == InInvoke \cup {"time", "unlock"}

(* While a thread is inside table_put or table_remove, between finding the
   entry and counting it, no other thread is anywhere in invoke: the lock that
   isWrite chose covers every handler. *)
NoConcurrentMutation ==
  \A t, u \in Thread :
    t # u /\ pc[t] \in Mutating => pc[u] \notin InInvoke

(* The sizes the lists keep add up to the number of entries, except between
   the two halves of list_add and list_remove. *)
SizeMatchesTable ==
  (\A t \in Thread : pc[t] \notin {"grow", "shrink"})
    => size = Cardinality(Present(table))

(* No increment of total_ops is ever lost: it equals the operations answered
   less those whose thread has yet to count. *)
OpsAccounted ==
  (total_ops + Cardinality({t \in Thread : pc[t] \in {"count", "counting"}}))
    % IntRange = replied

(* connected_clients is the number of threads between increment_clients and
   decrement_clients, whichever way their connections ended. *)
ClientsAccounted ==
  connected_clients =
    Cardinality({t \in Thread : pc[t] \notin {"closed", "enter", "entering"}})

(* The connections, as KVService sees them: the request takes effect when
   the thread writes the table or, for the others, completes its answer. *)
Visible(a) == IF a.reply = "stats" THEN Done("stats") ELSE a

view(t) ==
  CASE pc[t] \in Asking \ {"grow", "shrink"} -> Asked(msg[t])
    [] pc[t] = "grow"   -> Given(Done("put"))
    [] pc[t] = "shrink" -> Given(Done("del"))
    [] pc[t] \in {"time", "unlock", "reply"} -> Given(Visible(msg[t]))
    [] OTHER -> Idle

KV == INSTANCE KVService WITH dialog <- [t \in Thread |-> view(t)]

(* Every handler of invoke, with all its separate table accesses, is one
   atomic operation on the table: the server implements KVService. *)
Atomic == KV!Spec

(* A thread that holds rwlock gives it back: nothing it waits for while it
   holds the lock waits for that lock. *)
LocksReleased ==
  \A t \in Thread : t \in readers \cup writers ~> t \notin readers \cup writers

(* A read that waits for rwlock gets its answer, however many writers and
   disconnecting clients there are. *)
ReadsAnswered ==
  \A t \in Thread : (pc[t] = "lock" /\ ~ IsWrite(msg[t])) ~> pc[t] = "reply"

(* client_stub.h says of rtable_del that it fails when the key is not there. *)
DelReportsMissing ==
  [][\A t \in Thread :
       Handles(t, "del") /\ table[msg[t].key] = NoValue /\ pc'[t] = "time"
         => msg'[t] = ErrorReply]_vars
-----------------------------------------------------------------------------
(* The inductive invariant behind the properties above. *)

(* What a thread works on fits the place where it stands. *)
WorkInv ==
  \A t \in Thread :
    /\ pc[t] \in Asking => msg[t] \in Requests
    /\ pc[t] \in {"time", "unlock", "reply"} => msg[t] \in Answers
    /\ pc[t] \in {"replace", "link", "grow"} =>
         msg[t].op = "put" /\ msg[t].typed /\ msg[t].val # NoValue
    /\ pc[t] \in {"unlink", "shrink"} => msg[t].op = "del" /\ msg[t].typed
    /\ pc[t] = "nkeys" => msg[t].op = "getkeys" /\ msg[t].typed
    /\ pc[t] = "fetch" => msg[t].op = "gettable" /\ msg[t].typed

(* Exactly the threads between lock and unlock hold rwlock, in the mode that
   isWrite chose, and a writer holds it alone. *)
LockInv ==
  /\ \A t \in Thread : t \in readers \cup writers <=> pc[t] \in Locked
  /\ \A t \in Thread :
       pc[t] \in InInvoke => (t \in writers <=> IsWrite(msg[t]))
  /\ \A t \in writers : readers = {} /\ writers = {t}

(* What a thread remembers of the table is still true of it. *)
TableInv ==
  \A t \in Thread :
    /\ pc[t] = "link"   => table[msg[t].key] = NoValue
    /\ pc[t] \in {"replace", "unlink"} => table[msg[t].key] # NoValue
    /\ pc[t] \in {"nkeys", "fetch"} => keys[t] = Present(table)
    /\ pc[t] # "fetch" => entries[t] = NoEntries
    /\ pc[t] = "fetch" =>
         \A k \in DOMAIN entries[t] : k \in keys[t] /\ entries[t][k] = table[k]

SizeInv ==
  /\ \A t \in Thread : pc[t] = "grow"   => size = Cardinality(Present(table)) - 1
  /\ \A t \in Thread : pc[t] = "shrink" => size = Cardinality(Present(table)) + 1
  /\ SizeMatchesTable

(* The holder of m has loaded the counter as it still is. *)
CounterInv ==
  /\ \A t \in Thread : mutex = t <=> pc[t] \in {"entering", "counting", "leaving"}
  /\ \A t \in Thread :
       /\ pc[t] \in {"entering", "leaving"} => register[t] = connected_clients
       /\ pc[t] = "counting" => register[t] = total_ops
  /\ ClientsAccounted

(* The parts together: no thread's picture of the table, of the locks or of a
   counter is ever stale. *)
Inv == TypeOK /\ WorkInv /\ LockInv /\ TableInv /\ SizeInv /\ CounterInv
=============================================================================
