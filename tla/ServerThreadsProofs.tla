------------------------ MODULE ServerThreadsProofs ------------------------
(***************************************************************************)
(* Proofs about ServerThreads, for every number of connections, every      *)
(* table and every set of requests.  Inv is inductive: each of its six     *)
(* parts is preserved by a step that starts where all of them hold, and    *)
(* has a lemma of its own.  The actions that leave a part alone for the    *)
(* same reason share a step of its proof.  At the end, that the threads    *)
(* implement KVService.                                                    *)
(***************************************************************************)
EXTENDS ServerThreads, FiniteSetTheorems, TLAPS

(* What one thread, or its peer, can do. *)
Step(t) == Accept(t) \/ Receive(t) \/ Disconnect(t) \/ Work(t)

(* The steps that touch neither the table nor a counter nor rwlock. *)
Talk(t) ==
  \/ Accept(t) \/ Receive(t) \/ Disconnect(t) \/ Propagate(t)
  \/ PropagateFails(t) \/ CountTime(t) \/ Reply(t) \/ ReplyFails(t)

Counter(t) ==
  \/ EnterLoad(t) \/ EnterStore(t) \/ CountLoad(t) \/ CountStore(t)
  \/ LeaveLoad(t) \/ LeaveStore(t)

(* The handlers that only read the table. *)
Look(t) ==
  \/ messageError(t) \/ PutEmpty(t) \/ PutFind(t) \/ DelMissing(t)
  \/ DelFind(t) \/ Get(t) \/ Size(t) \/ GetStats(t)
  \/ CollectKeys(t, "getkeys", "nkeys") \/ GetKeysCount(t)
  \/ CollectKeys(t, "gettable", "fetch")
  \/ GetTableFetch(t) \/ GetTableEnd(t)

Change(t) ==
  \/ PutReplace(t) \/ PutLink(t) \/ PutGrow(t) \/ DelUnlink(t) \/ DelShrink(t)

LEMMA StepCases ==
  ASSUME NEW t, Step(t)
  PROVE  \/ Talk(t) \/ Counter(t) \/ Look(t) \/ Change(t)
         \/ comecaRead(t) \/ comecaWrite(t) \/ Unlock(t)
BY DEF Step, Work, Invoke, Talk, Counter, Look, Change
-----------------------------------------------------------------------------
(* A put of a missing key adds one entry to the table, *)
LEMMA PresentGrows ==
  ASSUME NEW tab \in [Key -> Value \cup {NoValue}], NEW k \in Key, NEW v \in Value,
         tab[k] = NoValue
  PROVE  Cardinality(Present([tab EXCEPT ![k] = v])) = Cardinality(Present(tab)) + 1
<1>1. Present([tab EXCEPT ![k] = v]) = Present(tab) \cup {k}
  BY KeyAssumption DEF Present
<1>2. IsFiniteSet(Present(tab)) /\ k \notin Present(tab)
  BY KeyAssumption, FS_Subset DEF Present
<1> QED
  BY <1>1, <1>2, FS_AddElement

(* a put of a key that is there adds none, *)
LEMMA PresentStays ==
  ASSUME NEW tab \in [Key -> Value \cup {NoValue}], NEW k \in Key, NEW v \in Value,
         tab[k] # NoValue
  PROVE  Present([tab EXCEPT ![k] = v]) = Present(tab)
BY KeyAssumption DEF Present

(* and a del of one takes one away. *)
LEMMA PresentShrinks ==
  ASSUME NEW tab \in [Key -> Value \cup {NoValue}], NEW k \in Key,
         tab[k] # NoValue
  PROVE  Cardinality(Present([tab EXCEPT ![k] = NoValue]))
           = Cardinality(Present(tab)) - 1
<1>1. Present([tab EXCEPT ![k] = NoValue]) = Present(tab) \ {k}
  BY KeyAssumption DEF Present
<1>2. IsFiniteSet(Present(tab)) /\ k \in Present(tab)
  BY KeyAssumption, FS_Subset DEF Present
<1> QED
  BY <1>1, <1>2, FS_RemoveElement

LEMMA PresentCount ==
  ASSUME NEW tab
  PROVE  /\ IsFiniteSet(Present(tab))
         /\ Cardinality(Present(tab)) \in Nat
BY KeyAssumption, FS_Subset, FS_CardinalityType DEF Present

(* The same for a set of threads. *)
LEMMA ThreadCount ==
  ASSUME NEW S \in SUBSET Thread, NEW t \in Thread
  PROVE  /\ Cardinality(S) \in Nat
         /\ t \notin S => Cardinality(S \cup {t}) = Cardinality(S) + 1
         /\ t \in S => Cardinality(S \ {t}) = Cardinality(S) - 1
                       /\ Cardinality(S) > 0
<1>1. IsFiniteSet(S)
  BY ThreadAssumption, FS_Subset
<1>2. Cardinality(S) \in Nat /\ Cardinality(S \ {t}) \in Nat
  BY <1>1, FS_CardinalityType, FS_RemoveElement
<1>3. Cardinality(S \cup {t}) = IF t \in S THEN Cardinality(S) ELSE Cardinality(S) + 1
  BY <1>1, FS_AddElement
<1>4. Cardinality(S \ {t}) = IF t \in S THEN Cardinality(S) - 1 ELSE Cardinality(S)
  BY <1>1, FS_RemoveElement
<1> QED
  BY <1>2, <1>3, <1>4
-----------------------------------------------------------------------------
(* Exactly the threads between lock and unlock hold rwlock. *)
LEMMA LockStep ==
  ASSUME TypeOK, LockInv, NEW t \in Thread, Step(t)
  PROVE  LockInv'
<1> USE DEF LockInv, Locked, InInvoke, goto, answer, Steps
<1>0. /\ pc \in [Thread -> Steps] /\ DOMAIN msg = Thread
      /\ readers \subseteq Thread /\ writers \subseteq Thread
  BY DEF TypeOK
<1>1. CASE Talk(t)
  BY <1>0, <1>1 DEF Talk, Accept, Receive, Disconnect, Propagate,
       PropagateFails, CountTime, Reply, ReplyFails, lockVars
<1>2. CASE Counter(t)
  BY <1>0, <1>2 DEF Counter, EnterLoad, EnterStore, CountLoad, CountStore,
       LeaveLoad, LeaveStore, lockVars
<1>3. CASE Look(t)
  BY <1>0, <1>3 DEF Look, messageError, PutEmpty, PutFind, DelMissing, DelFind,
       Get, Size, GetStats, CollectKeys, GetKeysCount, GetTableFetch,
       GetTableEnd, Handles, lockVars
<1>4. CASE Change(t)
  BY <1>0, <1>4 DEF Change, PutReplace, PutLink, PutGrow, DelUnlink,
       DelShrink, lockVars
<1>5. CASE comecaRead(t)
  BY <1>0, <1>5 DEF comecaRead
<1>6. CASE comecaWrite(t)
  BY <1>0, <1>6 DEF comecaWrite
<1>7. CASE Unlock(t)
  BY <1>0, <1>7 DEF Unlock
<1> QED
  BY <1>1, <1>2, <1>3, <1>4, <1>5, <1>6, <1>7, StepCases

(* A thread at work on the table excludes the others from the handlers. *)
LEMMA MutationExclusive ==
  ASSUME TypeOK, WorkInv, LockInv
  PROVE  NoConcurrentMutation
<1> SUFFICES ASSUME NEW t \in Thread, NEW u \in Thread, t # u, pc[t] \in Mutating
             PROVE  pc[u] \notin InInvoke
  BY DEF NoConcurrentMutation
<1>1. IsWrite(msg[t]) /\ pc[t] \in InInvoke
  BY DEF WorkInv, Mutating, InInvoke, IsWrite
<1>2. writers = {t} /\ readers = {}
  BY <1>1 DEF LockInv
<1> QED
  BY <1>2 DEF LockInv, Locked

(* Every handler that ends overwrites the request with an answer. *)
HandlerEnds(t) ==
  \/ messageError(t) \/ PutEmpty(t) \/ DelMissing(t) \/ Get(t)
  \/ Size(t) \/ GetStats(t) \/ GetKeysCount(t) \/ GetTableEnd(t)
  \/ PutReplace(t) \/ PutGrow(t) \/ DelShrink(t)

LEMMA AnswerGiven ==
  ASSUME TypeOK, WorkInv, NEW t \in Thread, HandlerEnds(t)
  PROVE  /\ pc' = [pc EXCEPT ![t] = "time"]
         /\ \E a \in Answers : msg' = [msg EXCEPT ![t] = a]
<1> USE DEF goto, answer, Answers
<1>0. /\ size \in Nat /\ total_ops \in Nat /\ connected_clients \in Nat
      /\ keys[t] \in SUBSET Key
      /\ entries[t] \in UNION {[K -> Value] : K \in SUBSET Key}
  BY ThreadAssumption DEF TypeOK
<1>1. CASE messageError(t) \/ PutEmpty(t)
  BY <1>1 DEF messageError, PutEmpty, ErrorReply
<1>2. CASE DelMissing(t) \/ PutReplace(t) \/ PutGrow(t) \/ DelShrink(t)
  BY <1>2 DEF DelMissing, PutReplace, PutGrow, DelShrink, Done
<1>3. CASE Get(t)
  <2>1. msg[t] \in Requests
    BY <1>3 DEF Get, Handles, WorkInv, Asking, InInvoke
  <2>2. table[msg[t].key] \in Value \cup {NoValue}
    BY <2>1, RequestAssumption DEF Request, TypeOK
  <2>3. [reply |-> "get", val |-> table[msg[t].key]] \in Answers
        \/ table[msg[t].key] = NoValue
    BY <2>2
  <2>4. ErrorReply \in Answers
    BY DEF ErrorReply
  <2> HIDE DEF Answers, ErrorReply
  <2> QED
    BY <1>3, <2>3, <2>4 DEF Get
<1>4. CASE Size(t)
  BY <1>0, <1>4 DEF Size
<1>5. CASE GetStats(t)
  BY <1>0, <1>5 DEF GetStats
<1>6. CASE GetKeysCount(t)
  BY <1>0, <1>6 DEF GetKeysCount
<1>7. CASE GetTableEnd(t)
  <2>1. ErrorReply \in Answers
    BY DEF ErrorReply
  <2>2. [reply |-> "gettable", entries |-> entries[t]] \in Answers
    BY <1>0
  <2> HIDE DEF Answers, ErrorReply
  <2> QED
    BY <1>7, <2>1, <2>2 DEF GetTableEnd
<1> QED
  BY <1>1, <1>2, <1>3, <1>4, <1>5, <1>6, <1>7 DEF HandlerEnds

(* What a thread works on fits the place where it stands. *)
LEMMA WorkStep ==
  ASSUME TypeOK, TypeOK', WorkInv, NEW t \in Thread, Step(t)
  PROVE  WorkInv'
<1> USE DEF WorkInv, Asking, InInvoke, goto, answer, Steps
<1>0. /\ pc \in [Thread -> Steps]
      /\ msg \in [Thread -> Requests \cup Answers]
      /\ msg' \in [Thread -> Requests \cup Answers]
  BY DEF TypeOK
<1>1. CASE Talk(t)
  BY <1>0, <1>1 DEF Talk, Accept, Receive, Disconnect, Propagate,
       PropagateFails, CountTime, Reply, ReplyFails
<1>2. CASE Counter(t)
  BY <1>0, <1>2 DEF Counter, EnterLoad, EnterStore, CountLoad, CountStore,
       LeaveLoad, LeaveStore
<1>3. CASE comecaRead(t) \/ comecaWrite(t) \/ Unlock(t)
  BY <1>0, <1>3 DEF comecaRead, comecaWrite, Unlock
<1>4. CASE \/ PutFind(t) \/ DelFind(t)
           \/ CollectKeys(t, "getkeys", "nkeys")
           \/ CollectKeys(t, "gettable", "fetch")
           \/ GetTableFetch(t) \/ PutLink(t) \/ DelUnlink(t)
  BY <1>0, <1>4 DEF PutFind, DelFind, CollectKeys, GetTableFetch, PutLink,
       DelUnlink, Handles
<1>5. CASE HandlerEnds(t)
  BY <1>0, <1>5, AnswerGiven
<1> QED
  BY <1>1, <1>2, <1>3, <1>4, <1>5, StepCases DEF Look, Change, HandlerEnds

(* What a thread remembers of the table stays true: its own steps keep it,
   and nobody else writes while it is in a handler. *)
LEMMA TableStep ==
  ASSUME TypeOK, WorkInv, LockInv, TableInv, NEW t \in Thread, Step(t)
  PROVE  TableInv'
<1> USE DEF TableInv, goto, answer, Steps
<1>0. /\ pc \in [Thread -> Steps] /\ DOMAIN msg = Thread
      /\ DOMAIN keys = Thread /\ DOMAIN entries = Thread
      /\ DOMAIN table = Key
  BY DEF TypeOK
<1>1. CASE Talk(t)
  BY <1>0, <1>1 DEF Talk, Accept, Receive, Disconnect, Propagate,
       PropagateFails, CountTime, Reply, ReplyFails, tableVars, workVars
<1>2. CASE Counter(t)
  BY <1>0, <1>2 DEF Counter, EnterLoad, EnterStore, CountLoad, CountStore,
       LeaveLoad, LeaveStore, tableVars, workVars
<1>3. CASE comecaRead(t) \/ comecaWrite(t) \/ Unlock(t)
  BY <1>0, <1>3 DEF comecaRead, comecaWrite, Unlock, tableVars, workVars
<1>4. CASE Look(t)
  <2>1. CASE GetTableFetch(t)
    <3>1. pc' = pc /\ msg' = msg /\ keys' = keys /\ table' = table /\ pc[t] = "fetch"
      BY <2>1 DEF GetTableFetch, tableVars
    <3>2. PICK k \in keys[t] : entries' = [entries EXCEPT ![t] =
            [j \in DOMAIN entries[t] \cup {k} |->
               IF j = k THEN table[k] ELSE entries[t][j]]]
      BY <1>0, <2>1 DEF GetTableFetch
    <3> QED
      BY <1>0, <3>1, <3>2 DEF Present
  <2>2. CASE GetTableEnd(t)
    BY <1>0, <2>2 DEF GetTableEnd, tableVars
  <2>3. CASE \/ CollectKeys(t, "getkeys", "nkeys")
             \/ CollectKeys(t, "gettable", "fetch") \/ GetKeysCount(t)
    BY <1>0, <2>3 DEF CollectKeys, GetKeysCount, Handles, tableVars, NoEntries
  <2>4. CASE \/ messageError(t) \/ PutEmpty(t) \/ PutFind(t) \/ DelMissing(t)
             \/ DelFind(t) \/ Get(t) \/ Size(t) \/ GetStats(t)
    BY <1>0, <2>4 DEF messageError, PutEmpty, PutFind, DelMissing, DelFind,
         Get, Size, GetStats, Handles, tableVars, workVars
  <2> QED
    BY <1>4, <2>1, <2>2, <2>3, <2>4 DEF Look
<1>5. CASE Change(t)
  <2>1. pc[t] \in Mutating
    BY <1>5 DEF Change, PutReplace, PutLink, PutGrow, DelUnlink, DelShrink,
         Mutating
  <2>2. \A u \in Thread \ {t} : pc[u] \notin InInvoke /\ pc'[u] = pc[u]
    BY <1>0, <1>5, <2>1, MutationExclusive DEF NoConcurrentMutation, Change,
         PutReplace, PutLink, PutGrow, DelUnlink, DelShrink
  <2>3. pc'[t] \in {"time", "grow", "shrink"} /\ entries' = entries
    BY <1>0, <1>5 DEF Change, PutReplace, PutLink, PutGrow, DelUnlink,
         DelShrink, workVars
  <2>4. pc[t] # "fetch"
    BY <2>1 DEF Mutating
  <2> QED
    BY <2>2, <2>3, <2>4 DEF InInvoke
<1> QED
  BY <1>1, <1>2, <1>3, <1>4, <1>5, StepCases

(* size follows the table, one behind or ahead while list_add or list_remove
   has yet to count. *)
LEMMA SizeStep ==
  ASSUME TypeOK, WorkInv, LockInv, TableInv, SizeInv, NEW t \in Thread, Step(t)
  PROVE  SizeInv'
<1> USE DEF SizeInv, SizeMatchesTable, goto, answer, Steps
<1>0. /\ pc \in [Thread -> Steps]
      /\ table \in [Key -> Value \cup {NoValue}]
      /\ Cardinality(Present(table)) \in Nat
  BY PresentCount DEF TypeOK
<1>1. ASSUME UNCHANGED tableVars,
             NEW x \in Steps \ {"grow", "shrink"}, pc' = [pc EXCEPT ![t] = x],
             pc[t] \notin {"grow", "shrink"}
      PROVE  SizeInv'
  BY <1>0, <1>1 DEF tableVars, Present
<1>2. CASE Talk(t) \/ Counter(t)
  BY <1>0, <1>1, <1>2 DEF Talk, Accept, Receive, Disconnect, Propagate,
       PropagateFails, CountTime, Reply, ReplyFails, Counter, EnterLoad,
       EnterStore, CountLoad, CountStore, LeaveLoad, LeaveStore
<1>3. CASE comecaRead(t) \/ comecaWrite(t) \/ Unlock(t)
  BY <1>0, <1>1, <1>3 DEF comecaRead, comecaWrite, Unlock
<1>4. CASE Look(t)
  <2>1. CASE GetTableFetch(t)
    BY <1>0, <2>1 DEF GetTableFetch, tableVars, Present
  <2>2. CASE GetTableEnd(t)
    BY <1>0, <1>1, <2>2 DEF GetTableEnd
  <2>3. CASE \/ messageError(t) \/ PutEmpty(t) \/ PutFind(t) \/ DelMissing(t)
             \/ DelFind(t) \/ Get(t) \/ Size(t) \/ GetStats(t)
             \/ CollectKeys(t, "getkeys", "nkeys") \/ GetKeysCount(t)
             \/ CollectKeys(t, "gettable", "fetch")
    BY <1>0, <1>1, <2>3 DEF messageError, PutEmpty, PutFind, DelMissing,
         DelFind, Get, Size, GetStats, CollectKeys, GetKeysCount
  <2> QED
    BY <1>4, <2>1, <2>2, <2>3 DEF Look
<1>5. CASE Change(t)
  <2>1. pc[t] \in Mutating
    BY <1>5 DEF Change, PutReplace, PutLink, PutGrow, DelUnlink, DelShrink,
         Mutating
  <2>2. \A u \in Thread \ {t} : pc[u] \notin InInvoke /\ pc'[u] = pc[u]
    BY <1>0, <1>5, <2>1, MutationExclusive DEF NoConcurrentMutation, Change,
         PutReplace, PutLink, PutGrow, DelUnlink, DelShrink
  <2>3. msg[t] \in Request
    BY <2>1, RequestAssumption DEF WorkInv, Asking, InInvoke, Mutating
  <2>4. msg[t].key \in Key /\ msg[t].val \in Value \cup {NoValue}
    BY <2>3 DEF Request
  <2>5. CASE PutReplace(t)
    <3>1. table[msg[t].key] # NoValue /\ msg[t].val \in Value
      BY <2>4, <2>5 DEF PutReplace, TableInv, WorkInv
    <3>2. Present(table') = Present(table)
      BY <1>0, <2>4, <2>5, <3>1, PresentStays DEF PutReplace
    <3> QED
      BY <1>0, <2>2, <2>5, <3>2 DEF PutReplace, InInvoke
  <2>6. CASE PutLink(t)
    <3>1. table[msg[t].key] = NoValue /\ msg[t].val \in Value
      BY <2>4, <2>6 DEF PutLink, TableInv, WorkInv
    <3>2. Cardinality(Present(table')) = Cardinality(Present(table)) + 1
      BY <1>0, <2>4, <2>6, <3>1, PresentGrows DEF PutLink
    <3>3. size = Cardinality(Present(table)) /\ size' = size
      BY <2>2, <2>6 DEF PutLink, InInvoke
    <3> QED
      BY <1>0, <2>2, <2>6, <3>2, <3>3 DEF PutLink, InInvoke
  <2>7. CASE PutGrow(t)
    BY <1>0, <2>2, <2>7 DEF PutGrow, InInvoke
  <2>8. CASE DelUnlink(t)
    <3>1. table[msg[t].key] # NoValue
      BY <2>8 DEF DelUnlink, TableInv
    <3>2. Cardinality(Present(table')) = Cardinality(Present(table)) - 1
      BY <1>0, <2>4, <2>8, <3>1, PresentShrinks DEF DelUnlink
    <3>3. size = Cardinality(Present(table)) /\ size' = size
      BY <2>2, <2>8 DEF DelUnlink, InInvoke
    <3>4. size' = Cardinality(Present(table')) + 1
      BY <1>0, <3>2, <3>3
    <3>5. pc' = [pc EXCEPT ![t] = "shrink"]
      BY <2>8 DEF DelUnlink
    <3> QED
      BY <1>0, <2>2, <3>4, <3>5 DEF InInvoke
  <2>9. CASE DelShrink(t)
    BY <1>0, <2>2, <2>9 DEF DelShrink, InInvoke
  <2> QED
    BY <1>5, <2>5, <2>6, <2>7, <2>8, <2>9 DEF Change
<1> QED
  BY <1>1, <1>2, <1>3, <1>4, <1>5, StepCases

(* The threads that connected_clients counts. *)
Inside == {t \in Thread : pc[t] \notin {"closed", "enter", "entering"}}

(* The holder of m has loaded the counter as it still is, and
   connected_clients counts the threads that have a client. *)
LEMMA CounterStep ==
  ASSUME TypeOK, CounterInv, NEW t \in Thread, Step(t)
  PROVE  CounterInv'
<1> USE ThreadAssumption DEF CounterInv, ClientsAccounted, goto, answer, Steps
<1>0. /\ pc \in [Thread -> Steps]
      /\ register \in [Thread -> Nat] /\ mutex \in Thread \cup {NoThread}
      /\ Inside \in SUBSET Thread /\ connected_clients = Cardinality(Inside)
  BY DEF TypeOK, Inside
<1>1. ASSUME UNCHANGED statVars,
             NEW x \in Steps \ {"closed", "entering", "counting", "leaving"},
             pc' = [pc EXCEPT ![t] = x],
             pc[t] \notin {"entering", "counting", "leaving"},
             pc[t] \in {"closed", "enter"} <=> x \in {"closed", "enter"}
      PROVE  CounterInv'
  <2>1. Inside' = Inside
    BY <1>0, <1>1 DEF Inside
  <2> QED
    BY <1>0, <1>1, <2>1 DEF statVars, Inside
<1>2. CASE Talk(t)
  BY <1>1, <1>2 DEF Talk, Accept, Receive, Disconnect, Propagate,
       PropagateFails, CountTime, Reply, ReplyFails
<1>3. CASE comecaRead(t) \/ comecaWrite(t) \/ Unlock(t)
  BY <1>1, <1>3 DEF comecaRead, comecaWrite, Unlock
<1>4. CASE Look(t) \/ Change(t)
  <2>1. CASE GetTableFetch(t)
    BY <2>1 DEF GetTableFetch, statVars
  <2>2. CASE GetTableEnd(t)
    BY <1>1, <2>2 DEF GetTableEnd
  <2>3. CASE \/ messageError(t) \/ PutEmpty(t) \/ PutFind(t) \/ DelMissing(t)
             \/ DelFind(t) \/ Get(t) \/ Size(t) \/ GetStats(t)
             \/ CollectKeys(t, "getkeys", "nkeys") \/ GetKeysCount(t)
             \/ CollectKeys(t, "gettable", "fetch") \/ Change(t)
    BY <1>1, <2>3 DEF messageError, PutEmpty, PutFind, DelMissing, DelFind,
         Get, Size, GetStats, CollectKeys, GetKeysCount, Change, PutReplace,
         PutLink, PutGrow, DelUnlink, DelShrink
  <2> QED
    BY <1>4, <2>1, <2>2, <2>3 DEF Look
<1>5. CASE EnterLoad(t) \/ CountLoad(t) \/ LeaveLoad(t)
  <2>1. Inside' = Inside
    BY <1>0, <1>5 DEF EnterLoad, CountLoad, LeaveLoad, Inside
  <2> QED
    BY <1>0, <1>5, <2>1 DEF EnterLoad, CountLoad, LeaveLoad, LoadCounter, Inside
<1>6. CASE CountStore(t)
  <2>1. Inside' = Inside
    BY <1>0, <1>6 DEF CountStore, Inside
  <2> QED
    BY <1>0, <1>6, <2>1 DEF CountStore, UnlockMutex, Inside
<1>7. CASE EnterStore(t)
  <2>1. Inside' = Inside \cup {t} /\ t \notin Inside
    BY <1>0, <1>7 DEF EnterStore, Inside
  <2>2. connected_clients' = Cardinality(Inside')
    BY <1>0, <1>7, <2>1, ThreadCount DEF EnterStore
  <2> QED
    BY <1>0, <1>7, <2>2 DEF EnterStore, UnlockMutex, Inside
<1>8. CASE LeaveStore(t)
  <2>1. Inside' = Inside \ {t} /\ t \in Inside
    BY <1>0, <1>8 DEF LeaveStore, Inside
  <2>2. connected_clients' = Cardinality(Inside')
    BY <1>0, <1>8, <2>1, ThreadCount DEF LeaveStore
  <2> QED
    BY <1>0, <1>8, <2>2 DEF LeaveStore, UnlockMutex, Inside
<1> QED
  BY <1>2, <1>3, <1>4, <1>5, <1>6, <1>7, <1>8, StepCases DEF Counter

(* Every variable keeps its type; that the two counters that go down stay
   natural numbers takes SizeInv and CounterInv. *)
LEMMA TypeStep ==
  ASSUME Inv, NEW t \in Thread, Step(t)
  PROVE  TypeOK'
<1> USE ThreadAssumption DEF TypeOK, goto, answer, Steps
<1>0. TypeOK /\ WorkInv /\ SizeInv /\ CounterInv
  BY DEF Inv
<1>1. CASE Talk(t)
  <2>1. NoMsg \in Answers
    BY DEF NoMsg, Answers
  <2>2. UNCHANGED <<keys, entries, readers, writers, table, size, mutex,
                    register, total_ops, connected_clients>>
    BY <1>1 DEF Talk, Accept, Receive, Disconnect, Propagate, PropagateFails,
         CountTime, Reply, ReplyFails, lockVars, tableVars, workVars, statVars
  <2>3. replied' \in 0 .. IntRange - 1
    BY <1>0, <1>1 DEF Talk, Accept, Receive, Disconnect, Propagate,
         PropagateFails, CountTime, Reply, ReplyFails
  <2>4. /\ pc' \in [Thread -> Steps]
        /\ msg' \in [Thread -> Requests \cup Answers]
    BY <1>0, <1>1, <2>1 DEF Talk, Accept, Receive, Disconnect, Propagate,
         PropagateFails, CountTime, Reply, ReplyFails
  <2> QED
    BY <1>0, <2>2, <2>3, <2>4
<1>2. CASE Counter(t)
  <2>1. CASE EnterLoad(t) \/ CountLoad(t) \/ LeaveLoad(t)
    BY <1>0, <2>1 DEF EnterLoad, CountLoad, LeaveLoad, LoadCounter, lockVars,
         tableVars, workVars
  <2>2. CASE EnterStore(t) \/ CountStore(t)
    BY <1>0, <2>2 DEF EnterStore, CountStore, UnlockMutex, lockVars,
         tableVars, workVars
  <2>3. CASE LeaveStore(t)
    <3>1. register[t] = Cardinality(Inside) /\ t \in Inside
      BY <1>0, <2>3 DEF LeaveStore, CounterInv, ClientsAccounted, Inside
    <3>2. Cardinality(Inside) \in Nat /\ Cardinality(Inside) > 0
      BY <3>1, ThreadCount DEF Inside
    <3>3. connected_clients' \in Nat
      BY <2>3, <3>1, <3>2 DEF LeaveStore
    <3> QED
      BY <1>0, <2>3, <3>3 DEF LeaveStore, UnlockMutex, lockVars, tableVars,
           workVars
  <2> QED
    BY <1>2, <2>1, <2>2, <2>3 DEF Counter
<1>3. CASE comecaRead(t) \/ comecaWrite(t) \/ Unlock(t)
  BY <1>0, <1>3 DEF comecaRead, comecaWrite, Unlock, lockVars, tableVars,
       workVars, statVars
<1>4. ASSUME HandlerEnds(t)
      PROVE  /\ pc' \in [Thread -> Steps]
             /\ msg' \in [Thread -> Requests \cup Answers]
  BY <1>0, <1>4, AnswerGiven
<1>5. CASE Look(t)
  <2>1. CASE \/ messageError(t) \/ PutEmpty(t) \/ DelMissing(t) \/ Get(t)
             \/ Size(t) \/ GetStats(t)
    <3>1. HandlerEnds(t) /\ UNCHANGED <<lockVars, tableVars, workVars, statVars, replied>>
      BY <2>1 DEF HandlerEnds, messageError, PutEmpty, DelMissing, Get, Size,
           GetStats
    <3> QED
      BY <1>0, <1>4, <3>1 DEF lockVars, tableVars, workVars, statVars
  <2>2. CASE PutFind(t) \/ DelFind(t)
    BY <1>0, <2>2 DEF PutFind, DelFind, lockVars, tableVars, workVars, statVars
  <2>3. CASE \/ CollectKeys(t, "getkeys", "nkeys")
             \/ CollectKeys(t, "gettable", "fetch")
    <3>1. Present(table) \in SUBSET Key
      BY DEF Present
    <3>2. keys' = [keys EXCEPT ![t] = Present(table)]
      BY <2>3 DEF CollectKeys
    <3>3. keys' \in [Thread -> SUBSET Key]
      BY <1>0, <3>1, <3>2
    <3>4. pc' \in [Thread -> Steps]
      BY <1>0, <2>3 DEF CollectKeys
    <3>5. UNCHANGED <<msg, entries, lockVars, tableVars, statVars, replied>>
      BY <2>3 DEF CollectKeys
    <3> QED
      BY <1>0, <3>3, <3>4, <3>5 DEF lockVars, tableVars, statVars
  <2>4. CASE GetKeysCount(t)
    <3>1. HandlerEnds(t) /\ UNCHANGED <<entries, lockVars, tableVars, statVars, replied>>
      BY <2>4 DEF HandlerEnds, GetKeysCount
    <3>2. keys' = [keys EXCEPT ![t] = {}]
      BY <2>4 DEF GetKeysCount
    <3> QED
      BY <1>0, <1>4, <3>1, <3>2 DEF lockVars, tableVars, statVars
  <2>5. CASE GetTableFetch(t)
    <3> DEFINE Gathered(k) == [j \in DOMAIN entries[t] \cup {k} |->
                                IF j = k THEN table[k] ELSE entries[t][j]]
    <3>1. PICK k \in keys[t] :
            /\ table[k] # NoValue
            /\ entries' = [entries EXCEPT ![t] = Gathered(k)]
      BY <1>0, <2>5 DEF GetTableFetch
    <3>2. table[k] \in Value /\ k \in Key
      BY <1>0, <3>1
    <3>3. PICK K \in SUBSET Key : entries[t] \in [K -> Value]
      BY <1>0
    <3>4. Gathered(k) \in [K \cup {k} -> Value]
      BY <3>2, <3>3
    <3>5. Gathered(k) \in UNION {[L -> Value] : L \in SUBSET Key}
      BY <3>2, <3>3, <3>4
    <3> HIDE DEF Gathered
    <3>6. entries' \in [Thread -> UNION {[L -> Value] : L \in SUBSET Key}]
      BY <1>0, <3>1, <3>5
    <3> QED
      BY <1>0, <2>5, <3>6 DEF GetTableFetch, lockVars, tableVars, statVars
  <2>6. CASE GetTableEnd(t)
    <3>1. HandlerEnds(t) /\ UNCHANGED <<lockVars, tableVars, statVars, replied>>
      BY <2>6 DEF HandlerEnds, GetTableEnd
    <3>2. NoEntries \in [{} -> Value]
      BY DEF NoEntries
    <3>3. keys' = [keys EXCEPT ![t] = {}] /\ entries' = [entries EXCEPT ![t] = NoEntries]
      BY <2>6 DEF GetTableEnd
    <3>4. entries' \in [Thread -> UNION {[L -> Value] : L \in SUBSET Key}]
      BY <1>0, <3>2, <3>3
    <3> QED
      BY <1>0, <1>4, <3>1, <3>3, <3>4 DEF lockVars, tableVars, statVars
  <2> QED
    BY <1>5, <2>1, <2>2, <2>3, <2>4, <2>5, <2>6 DEF Look
<1>6. CASE Change(t)
  <2>1. msg[t] \in Request
    BY <1>0, <1>6, RequestAssumption DEF Change, PutReplace, PutLink, PutGrow,
         DelUnlink, DelShrink, WorkInv, Asking, InInvoke
  <2>2. table' \in [Key -> Value \cup {NoValue}]
    BY <1>0, <1>6, <2>1 DEF Request, Change, PutReplace, PutLink, PutGrow,
         DelUnlink, DelShrink
  <2>3. size' \in Nat
    BY <1>0, <1>6, PresentCount DEF Change, PutReplace, PutLink, PutGrow,
         DelUnlink, DelShrink, SizeInv
  <2>4. CASE PutReplace(t) \/ PutGrow(t) \/ DelShrink(t)
    <3>1. HandlerEnds(t) /\ UNCHANGED <<lockVars, workVars, statVars, replied>>
      BY <2>4 DEF HandlerEnds, PutReplace, PutGrow, DelShrink
    <3> QED
      BY <1>0, <1>4, <2>2, <2>3, <3>1 DEF lockVars, workVars, statVars
  <2>5. CASE PutLink(t) \/ DelUnlink(t)
    BY <1>0, <2>2, <2>3, <2>5 DEF PutLink, DelUnlink, lockVars, workVars,
         statVars
  <2> QED
    BY <1>6, <2>4, <2>5 DEF Change
<1> QED
  BY <1>1, <1>2, <1>3, <1>5, <1>6, StepCases
-----------------------------------------------------------------------------
LEMMA InvInit == Init => Inv
<1> SUFFICES ASSUME Init PROVE Inv
  OBVIOUS
<1> USE ThreadAssumption DEF Init
<1>1. NoMsg \in Answers
  BY DEF NoMsg, Answers
<1>a. NoEntries \in [{} -> Value]
  BY DEF NoEntries
<1>b. NoEntries \in UNION {[K -> Value] : K \in SUBSET Key}
  BY <1>a
<1>2. TypeOK
  BY <1>1, <1>b DEF TypeOK, Steps
<1>3. WorkInv /\ LockInv /\ TableInv
  BY DEF WorkInv, LockInv, TableInv, Asking, Locked, InInvoke
<1>4. SizeInv
  <2>1. Present(table) = {}
    BY DEF Present
  <2> QED
    BY <2>1, FS_EmptySet DEF SizeInv, SizeMatchesTable
<1>5. CounterInv
  <2>1. Inside = {}
    BY DEF Inside
  <2> QED
    BY <2>1, FS_EmptySet DEF CounterInv, ClientsAccounted, Inside
<1> QED
  BY <1>2, <1>3, <1>4, <1>5 DEF Inv

LEMMA InvStep == Inv /\ [Next]_vars => Inv'
<1> SUFFICES ASSUME Inv, [Next]_vars PROVE Inv'
  OBVIOUS
<1>0. TypeOK /\ WorkInv /\ LockInv /\ TableInv /\ SizeInv /\ CounterInv
  BY DEF Inv
<1>1. ASSUME NEW t \in Thread, Step(t) PROVE Inv'
  <2>1. TypeOK'
    BY <1>1, TypeStep
  <2>2. WorkInv'
    BY <1>0, <1>1, <2>1, WorkStep
  <2>3. LockInv'
    BY <1>0, <1>1, LockStep
  <2>4. TableInv'
    BY <1>0, <1>1, TableStep
  <2>5. SizeInv'
    BY <1>0, <1>1, SizeStep
  <2>6. CounterInv'
    BY <1>0, <1>1, CounterStep
  <2> QED
    BY <2>1, <2>2, <2>3, <2>4, <2>5, <2>6 DEF Inv
<1>2. CASE UNCHANGED vars
  BY <1>0, <1>2 DEF Inv, TypeOK, WorkInv, LockInv, TableInv, SizeInv,
       SizeMatchesTable, CounterInv, ClientsAccounted, Present, vars, lockVars,
       tableVars, workVars, statVars
<1> QED
  BY <1>1, <1>2 DEF Next, Step

(* The state of the threads, the locks, the table and the statistics always
   fit together as Inv says. *)
THEOREM Invariance == Spec => []Inv
BY InvInit, InvStep, PTL DEF Spec

(* Every variable keeps its type; in particular no count of clients or of
   entries ever goes below zero. *)
THEOREM TypeCorrect == Spec => []TypeOK
BY Invariance, PTL DEF Inv

(* No thread is in a handler of invoke while another changes the table. *)
THEOREM MutualExclusion == Spec => []NoConcurrentMutation
<1>1. Inv => NoConcurrentMutation
  BY MutationExclusive DEF Inv
<1> QED
  BY <1>1, Invariance, PTL

(* The sizes of the lists add up to the number of entries. *)
THEOREM SizeCorrect == Spec => []SizeMatchesTable
<1>1. Inv => SizeMatchesTable
  BY DEF Inv, SizeInv
<1> QED
  BY <1>1, Invariance, PTL

(* connected_clients counts the threads that serve a client. *)
THEOREM ClientsCorrect == Spec => []ClientsAccounted
<1>1. Inv => ClientsAccounted
  BY DEF Inv, CounterInv
<1> QED
  BY <1>1, Invariance, PTL
-----------------------------------------------------------------------------
(* Counting under a modulus. *)
LEMMA ModUnique ==
  ASSUME NEW n \in Nat, NEW r \in Nat \ {0}, NEW q \in Int, NEW m \in 0 .. r - 1,
         n = r * q + m
  PROVE  n % r = m
OBVIOUS

LEMMA ModDivision ==
  ASSUME NEW n \in Nat, NEW r \in Nat \ {0}
  PROVE  \E q \in Int, m \in 0 .. r - 1 : n = r * q + m /\ n % r = m
<1>1. n % r \in 0 .. r - 1
  OBVIOUS
<1>2. ASSUME NEW m \in 0 .. r - 1, n % r = m
      PROVE  \E q \in Int : n = r * q + m
  BY <1>2
<1> QED
  BY <1>1, <1>2

LEMMA Distr ==
  ASSUME NEW r \in Nat, NEW q \in Int
  PROVE  r * (q + 1) = r * q + r /\ r * q \in Int
OBVIOUS

LEMMA ModShift ==
  ASSUME NEW n \in Nat, NEW r \in Nat \ {0}
  PROVE  (n + r) % r = n % r
<1>1. PICK q \in Int, m \in 0 .. r - 1 : n = r * q + m /\ n % r = m
  BY ModDivision
<1>2. n + r = r * (q + 1) + m
  BY <1>1, Distr
<1> QED
  BY <1>1, <1>2, ModUnique, q + 1 \in Int, n + r \in Nat

(* One more, whether or not the count has just wrapped. *)
LEMMA ModSucc ==
  ASSUME NEW n \in Nat, NEW r \in Nat \ {0}
  PROVE  (n + 1) % r = ((n % r) + 1) % r
<1>1. PICK q \in Int, m \in 0 .. r - 1 : n = r * q + m /\ n % r = m
  BY ModDivision
<1>3. CASE m + 1 < r
  <2>1. n + 1 = r * q + (m + 1) /\ m + 1 \in 0 .. r - 1
    BY <1>1, <1>3, Distr
  <2>2. (n + 1) % r = m + 1
    BY <2>1, ModUnique, n + 1 \in Nat
  <2>3. (m + 1) % r = m + 1
    BY <2>1, m + 1 = r * 0 + (m + 1), ModUnique
  <2> QED
    BY <1>1, <2>2, <2>3
<1>4. CASE m + 1 = r
  <2>2. n + 1 = r * (q + 1) + 0
    BY <1>1, <1>4, Distr
  <2>3. (n + 1) % r = 0
    BY <2>2, ModUnique, q + 1 \in Int, n + 1 \in Nat, 0 \in 0 .. r - 1
  <2>4. r % r = 0
    BY ModUnique, r = r * 1 + 0, 0 \in 0 .. r - 1
  <2> QED
    BY <1>1, <1>4, <2>3, <2>4
<1> QED
  BY <1>3, <1>4

(* The threads that have answered and not yet counted. *)
Counting == {t \in Thread : pc[t] \in {"count", "counting"}}

LEMMA OpsStep ==
  ASSUME Inv, OpsAccounted, NEW t \in Thread, Step(t)
  PROVE  OpsAccounted'
<1> USE ThreadAssumption DEF goto, answer, Steps
<1>0. /\ TypeOK /\ CounterInv
      /\ Counting \in SUBSET Thread
      /\ pc \in [Thread -> Steps]
      /\ total_ops \in Nat /\ total_ops % IntRange = total_ops
      /\ Cardinality(Counting) \in Nat
      /\ (total_ops + Cardinality(Counting)) % IntRange = replied
  <2>1. total_ops \in 0 .. IntRange - 1
    BY DEF Inv, TypeOK
  <2>2. total_ops % IntRange = total_ops
    BY <2>1, total_ops = IntRange * 0 + total_ops, ModUnique
  <2>3. Cardinality(Counting) \in Nat
    BY ThreadCount DEF Counting
  <2>4. total_ops \in Nat
    BY <2>1
  <2> QED
    BY <2>2, <2>3, <2>4 DEF Inv, TypeOK, OpsAccounted, Counting
<1>1. ASSUME UNCHANGED <<total_ops, replied>>, Counting' = Counting
      PROVE  OpsAccounted'
  BY <1>0, <1>1 DEF OpsAccounted, Counting
<1>2. CASE Reply(t)
  <2>1. CASE Counts(msg[t])
    <3>1. Counting' = Counting \cup {t} /\ t \notin Counting
      BY <1>0, <1>2, <2>1 DEF Reply, Counting
    <3>2. Cardinality(Counting') = Cardinality(Counting) + 1
      BY <1>0, <3>1, ThreadCount
    <3>3. replied' = (replied + 1) % IntRange /\ total_ops' = total_ops
      BY <1>2, <2>1 DEF Reply, statVars
    <3>4. (total_ops + Cardinality(Counting) + 1) % IntRange = (replied + 1) % IntRange
      BY <1>0, total_ops + Cardinality(Counting) \in Nat, ModSucc
    <3> QED
      BY <1>0, <3>2, <3>3, <3>4 DEF OpsAccounted, Counting
  <2>2. CASE ~ Counts(msg[t])
    BY <1>0, <1>1, <1>2, <2>2 DEF Reply, Counting, statVars
  <2> QED
    BY <2>1, <2>2
<1>3. CASE CountStore(t)
  <2>1. Counting' = Counting \ {t} /\ t \in Counting
    BY <1>0, <1>3 DEF CountStore, Counting
  <2>2. Cardinality(Counting') = Cardinality(Counting) - 1 /\ Cardinality(Counting) > 0
    BY <1>0, <2>1, ThreadCount
  <2>3. total_ops' = (total_ops + 1) % IntRange /\ replied' = replied
    BY <1>0, <1>3 DEF CountStore, CounterInv
  <2>4. (total_ops' + Cardinality(Counting')) % IntRange = replied
    <3>1. CASE total_ops + 1 < IntRange
      <4>1. total_ops' = total_ops + 1
        BY <1>0, <2>3, <3>1, total_ops + 1 = IntRange * 0 + (total_ops + 1), ModUnique
      <4> QED
        BY <1>0, <2>2, <4>1
    <3>2. CASE total_ops + 1 = IntRange
      <4>1. total_ops' = 0
        BY <2>3, <3>2, IntRange = IntRange * 1 + 0, ModUnique
      <4>2. (Cardinality(Counting) - 1 + IntRange) % IntRange
              = (Cardinality(Counting) - 1) % IntRange
        BY <1>0, <2>2, ModShift
      <4>3. total_ops + Cardinality(Counting) = Cardinality(Counting) - 1 + IntRange
        BY <1>0, <3>2
      <4> QED
        BY <1>0, <2>2, <4>1, <4>2, <4>3
    <3> QED
      BY <1>0, <3>1, <3>2 DEF TypeOK
  <2> QED
    BY <2>3, <2>4 DEF OpsAccounted, Counting
<1>4. ASSUME UNCHANGED <<total_ops, replied>>,
             NEW x \in Steps, pc' = [pc EXCEPT ![t] = x],
             pc[t] \in {"count", "counting"} <=> x \in {"count", "counting"}
      PROVE  OpsAccounted'
  BY <1>0, <1>1, <1>4 DEF Counting
<1>5. CASE \/ Accept(t) \/ Receive(t) \/ Disconnect(t) \/ Propagate(t)
           \/ PropagateFails(t) \/ CountTime(t) \/ ReplyFails(t)
           \/ comecaRead(t) \/ comecaWrite(t) \/ Unlock(t)
  BY <1>4, <1>5 DEF Accept, Receive, Disconnect, Propagate, PropagateFails,
       CountTime, ReplyFails, comecaRead, comecaWrite, Unlock, statVars
<1>6. CASE \/ EnterLoad(t) \/ EnterStore(t) \/ CountLoad(t) \/ LeaveLoad(t)
           \/ LeaveStore(t)
  BY <1>4, <1>6 DEF EnterLoad, EnterStore, CountLoad, LeaveLoad, LeaveStore
<1>7. CASE Look(t) \/ Change(t)
  <2>1. CASE GetTableFetch(t)
    BY <1>1, <2>1 DEF GetTableFetch, statVars, Counting
  <2>2. CASE GetTableEnd(t)
    BY <1>4, <2>2 DEF GetTableEnd, statVars
  <2>3. CASE \/ messageError(t) \/ PutEmpty(t) \/ PutFind(t) \/ DelMissing(t)
             \/ DelFind(t) \/ Get(t) \/ Size(t) \/ GetStats(t)
             \/ CollectKeys(t, "getkeys", "nkeys") \/ GetKeysCount(t)
             \/ CollectKeys(t, "gettable", "fetch") \/ Change(t)
    BY <1>4, <2>3 DEF messageError, PutEmpty, PutFind, DelMissing, DelFind,
         Get, Size, GetStats, CollectKeys, GetKeysCount, Change, PutReplace,
         PutLink, PutGrow, DelUnlink, DelShrink, statVars
  <2> QED
    BY <1>7, <2>1, <2>2, <2>3 DEF Look
<1> QED
  BY <1>2, <1>3, <1>5, <1>6, <1>7, StepCases DEF Talk, Counter

(* total_ops counts every operation that was answered, whatever the threads
   do in between and however often it wraps. *)
THEOREM OpsCorrect == Spec => []OpsAccounted
<1>1. Init => OpsAccounted
  <2> SUFFICES ASSUME Init PROVE OpsAccounted
    OBVIOUS
  <2>1. Counting = {}
    BY DEF Init, Counting
  <2>2. 0 % IntRange = 0
    BY ThreadAssumption, 0 = IntRange * 0 + 0, ModUnique
  <2> QED
    BY <2>1, <2>2, FS_EmptySet DEF Init, OpsAccounted, Counting
<1>2. Inv /\ OpsAccounted /\ [Next]_vars => OpsAccounted'
  <2>1. OpsAccounted /\ UNCHANGED vars => OpsAccounted'
    BY DEF OpsAccounted, vars, statVars
  <2> QED
    BY <2>1, OpsStep DEF Next, Step
<1> QED
  BY <1>1, <1>2, Invariance, PTL DEF Spec
-----------------------------------------------------------------------------
(* The threads of a server implement KVService: every step of ServerThreads is
   a Submit, an Execute or a Finish of the same connection, or changes nothing
   that KVService sees. *)

(* A thread's step changes no other connection. *)
LEMMA OthersUntouched ==
  ASSUME TypeOK, NEW t \in Thread, Step(t)
  PROVE  \A u \in Thread \ {t} : pc'[u] = pc[u] /\ msg'[u] = msg[u]
<1> USE DEF goto, answer
<1>0. DOMAIN pc = Thread /\ DOMAIN msg = Thread
  BY DEF TypeOK
<1>1. CASE Talk(t)
  BY <1>0, <1>1 DEF Talk, Accept, Receive, Disconnect, Propagate,
       PropagateFails, CountTime, Reply, ReplyFails
<1>2. CASE Counter(t)
  BY <1>0, <1>2 DEF Counter, EnterLoad, EnterStore, CountLoad, CountStore,
       LeaveLoad, LeaveStore
<1>3. CASE comecaRead(t) \/ comecaWrite(t) \/ Unlock(t)
  BY <1>0, <1>3 DEF comecaRead, comecaWrite, Unlock
<1>4. CASE Look(t)
  BY <1>0, <1>4 DEF Look, messageError, PutEmpty, PutFind, DelMissing, DelFind,
       Get, Size, GetStats, CollectKeys, GetKeysCount, GetTableFetch,
       GetTableEnd
<1>5. CASE Change(t)
  BY <1>0, <1>5 DEF Change, PutReplace, PutLink, PutGrow, DelUnlink, DelShrink
<1> QED
  BY <1>1, <1>2, <1>3, <1>4, <1>5, StepCases

LEMMA DialogStep ==
  ASSUME TypeOK, NEW t \in Thread, Step(t), NEW d, view(t)' = d
  PROVE  [u \in Thread |-> view(u)]' = [[u \in Thread |-> view(u)] EXCEPT ![t] = d]
<1>1. \A u \in Thread \ {t} : view(u)' = view(u)
  BY OthersUntouched DEF view, Asked, Given
<1>2. \A u \in Thread : view(u)' = IF u = t THEN d ELSE view(u)
  BY <1>1
<1> QED
  BY <1>2

(* What a step of ServerThreads must do to be one of KVService, or none. *)
LEMMA StutterView ==
  ASSUME TypeOK, NEW t \in Thread, Step(t), view(t)' = view(t), table' = table
  PROVE  UNCHANGED KV!kvars
BY DialogStep DEF KV!kvars

LEMMA SubmitView ==
  ASSUME TypeOK, NEW t \in Thread, Step(t), NEW r \in Requests,
         view(t) = Idle, view(t)' = Asked(r), table' = table
  PROVE  KV!Submit(t)
BY DialogStep DEF KV!Submit, KV!Idle, Idle, KV!Asked, Asked

LEMMA ExecuteView ==
  ASSUME TypeOK, NEW t \in Thread, Step(t), NEW r \in Requests,
         view(t) = Asked(r), view(t)' = Given(KV!Answer(r, table)),
         table' = KV!After(r, table)
  PROVE  KV!Execute(t)
BY DialogStep DEF KV!Execute, KV!Asked, Asked, KV!Given, Given

LEMMA FinishView ==
  ASSUME TypeOK, NEW t \in Thread, Step(t),
         view(t) # Idle, view(t)' = Idle, table' = table
  PROVE  KV!Finish(t)
BY DialogStep DEF KV!Finish, KV!Idle, Idle

(* A handler that ends with the answer of KVService is its Execute. *)
LEMMA EndView ==
  ASSUME Inv, NEW t \in Thread, HandlerEnds(t),
         pc[t] \in InInvoke \ {"grow", "shrink"},
         Visible(msg'[t]) = KV!Answer(msg[t], table),
         table' = KV!After(msg[t], table)
  PROVE  KV!Execute(t)
<1>1. TypeOK /\ WorkInv /\ Step(t)
  BY DEF Inv, HandlerEnds, Step, Work, Invoke
<1>2. pc'[t] = "time"
  BY <1>1, AnswerGiven DEF TypeOK
<1>3. msg[t] \in Requests
  BY <1>1 DEF WorkInv, Asking
<1>4. view(t) = Asked(msg[t])
  BY DEF view, Asking, InInvoke
<1>5. view(t)' = Given(Visible(msg'[t]))
  BY <1>2 DEF view, Asking, InInvoke, Visible
<1> QED
  BY <1>1, <1>3, <1>4, <1>5, ExecuteView

(* The error answers. *)
LEMMA RefineErrors ==
  ASSUME Inv, NEW t \in Thread, messageError(t) \/ PutEmpty(t)
  PROVE  KV!Execute(t)
<1>1. HandlerEnds(t) /\ pc[t] = "invoke" /\ msg'[t] = ErrorReply
  BY DEF HandlerEnds, messageError, PutEmpty, goto, answer, Inv, TypeOK
<1>2. KV!Rejected(msg[t]) /\ table' = table
  BY DEF messageError, PutEmpty, Handles, KV!Rejected, tableVars
<1>3. KV!Answer(msg[t], table) = ErrorReply /\ KV!After(msg[t], table) = table
  BY <1>2 DEF KV!Answer, KV!After, KV!ErrorReply, ErrorReply
<1>4. Visible(ErrorReply) = ErrorReply
  BY DEF Visible, ErrorReply
<1> QED
  BY <1>1, <1>2, <1>3, <1>4, EndView DEF InInvoke

(* The reads.  Nobody is between the two halves of list_add or list_remove,
   so size and the gathered entries are those of the table. *)
LEMMA RefineReads ==
  ASSUME Inv, NEW t \in Thread,
         Get(t) \/ Size(t) \/ GetStats(t) \/ GetKeysCount(t) \/ GetTableEnd(t)
  PROVE  KV!Execute(t)
<1> USE DEF goto, answer
<1>0. TypeOK /\ WorkInv /\ LockInv /\ TableInv /\ SizeInv
  BY DEF Inv
<1>1. /\ HandlerEnds(t) /\ table' = table
      /\ pc[t] \in {"invoke", "nkeys", "fetch"}
  BY DEF HandlerEnds, Get, Size, GetStats, GetKeysCount, GetTableEnd, tableVars
<1>2. size = Cardinality(Present(table))
  BY <1>0, <1>1, MutationExclusive
  DEF NoConcurrentMutation, Mutating, InInvoke, SizeInv, SizeMatchesTable
<1>3. ASSUME Visible(msg'[t]) = KV!Answer(msg[t], table),
             KV!After(msg[t], table) = table
      PROVE  KV!Execute(t)
  BY <1>1, <1>3, EndView DEF InInvoke
<1>4. ASSUME msg[t].typed, msg[t].op \in {"get", "size", "stats", "getkeys", "gettable"}
      PROVE  KV!After(msg[t], table) = table /\ ~ KV!Rejected(msg[t])
  BY <1>4 DEF KV!After, KV!Rejected, KV!IsWrite
<1>5. CASE Get(t)
  <2>1. msg[t].typed /\ msg[t].op = "get"
    BY <1>5 DEF Get, Handles
  <2>2. msg'[t] = IF table[msg[t].key] = NoValue THEN ErrorReply
                  ELSE [reply |-> "get", val |-> table[msg[t].key]]
    BY <1>0, <1>5 DEF Get, TypeOK
  <2>3. Visible(msg'[t]) = msg'[t]
    BY <2>2 DEF Visible, ErrorReply
  <2>4. KV!Answer(msg[t], table) = msg'[t]
    BY <1>4, <2>1, <2>2 DEF KV!Answer, KV!ErrorReply, ErrorReply
  <2> QED
    BY <1>3, <1>4, <2>1, <2>3, <2>4
<1>6. CASE Size(t)
  <2>1. msg[t].typed /\ msg[t].op = "size"
    BY <1>6 DEF Size, Handles
  <2>2. msg'[t] = [reply |-> "size", n |-> Cardinality(Present(table))]
    BY <1>0, <1>2, <1>6 DEF Size, TypeOK
  <2>3. Visible(msg'[t]) = msg'[t]
    BY <2>2 DEF Visible
  <2>4. KV!Answer(msg[t], table) = msg'[t]
    BY <1>4, <2>1, <2>2 DEF KV!Answer, KV!Present, Present, KV!Cardinality, Cardinality
  <2> QED
    BY <1>3, <1>4, <2>1, <2>3, <2>4
<1>7. CASE GetStats(t)
  <2>1. msg[t].typed /\ msg[t].op = "stats"
    BY <1>7 DEF GetStats, Handles
  <2>2. msg'[t].reply = "stats"
    BY <1>0, <1>7 DEF GetStats, TypeOK
  <2>3. Visible(msg'[t]) = Done("stats")
    BY <2>2 DEF Visible
  <2>4. KV!Answer(msg[t], table) = Done("stats")
    BY <1>4, <2>1 DEF KV!Answer, KV!Done, Done
  <2> QED
    BY <1>3, <1>4, <2>1, <2>3, <2>4
<1>8. CASE GetKeysCount(t)
  <2>1. msg[t].typed /\ msg[t].op = "getkeys"
    BY <1>0, <1>8 DEF GetKeysCount, WorkInv
  <2>2. msg'[t] = [reply |-> "getkeys", keys |-> Present(table),
                   n |-> Cardinality(Present(table))]
    BY <1>0, <1>2, <1>8 DEF GetKeysCount, TypeOK, TableInv
  <2>3. Visible(msg'[t]) = msg'[t]
    BY <2>2 DEF Visible
  <2>4. KV!Answer(msg[t], table) = msg'[t]
    BY <1>4, <2>1, <2>2 DEF KV!Answer, KV!Present, Present, KV!Cardinality, Cardinality
  <2> QED
    BY <1>3, <1>4, <2>1, <2>3, <2>4
<1>9. CASE GetTableEnd(t)
  <2>1. msg[t].typed /\ msg[t].op = "gettable"
    BY <1>0, <1>9 DEF GetTableEnd, WorkInv
  <2>2. keys[t] = Present(table)
    BY <1>0, <1>9 DEF GetTableEnd, TableInv
  <2>3. ~ \E k \in keys[t] \ DOMAIN entries[t] : table[k] = NoValue
    BY <2>2 DEF Present
  <2>4. keys[t] = DOMAIN entries[t]
    BY <1>9, <2>3 DEF GetTableEnd
  <2>5. entries[t] = [k \in Present(table) |-> table[k]]
    <3>1. PICK K \in SUBSET Key : entries[t] \in [K -> Value]
      BY <1>0 DEF TypeOK
    <3>2. \A k \in Present(table) : entries[t][k] = table[k]
      BY <1>0, <1>9, <2>2, <2>4 DEF GetTableEnd, TableInv
    <3> QED
      BY <2>2, <2>4, <3>1, <3>2
  <2>6. msg'[t] = [reply |-> "gettable", entries |-> [k \in Present(table) |-> table[k]]]
    BY <1>0, <1>9, <2>3, <2>5 DEF GetTableEnd, TypeOK
  <2>7. Visible(msg'[t]) = msg'[t]
    BY <2>6 DEF Visible
  <2>8. KV!Answer(msg[t], table) = msg'[t]
    BY <1>4, <2>1, <2>6 DEF KV!Answer, KV!Present, Present
  <2> QED
    BY <1>3, <1>4, <2>1, <2>7, <2>8
<1> QED
  BY <1>5, <1>6, <1>7, <1>8, <1>9

(* The writes take effect when the table changes: at once, or when the node
   is linked or unlinked. *)
LEMMA RefineWrites ==
  ASSUME Inv, NEW t \in Thread,
         \/ PutReplace(t) \/ DelMissing(t) \/ PutLink(t) \/ DelUnlink(t)
  PROVE  KV!Execute(t)
<1> USE DEF goto, answer
<1>0. TypeOK /\ WorkInv /\ TableInv
  BY DEF Inv
<1>1. /\ pc[t] \in InInvoke \ {"grow", "shrink"}
      /\ msg[t] \in Requests /\ Step(t)
  BY <1>0 DEF WorkInv, Asking, InInvoke, PutReplace, DelMissing, PutLink,
       DelUnlink, Step, Work, Invoke
<1>2. CASE PutReplace(t)
  <2>1. msg[t].op = "put" /\ ~ KV!Rejected(msg[t])
    BY <1>0, <1>2 DEF PutReplace, WorkInv, KV!Rejected
  <2>2. HandlerEnds(t) /\ msg'[t] = Done("put") /\ table' = [table EXCEPT ![msg[t].key] = msg[t].val]
    BY <1>0, <1>2 DEF HandlerEnds, PutReplace, TypeOK
  <2>3. table' = KV!After(msg[t], table) /\ KV!Answer(msg[t], table) = Done("put")
    BY <2>1, <2>2 DEF KV!After, KV!Answer, KV!IsWrite, KV!Done, Done
  <2> QED
    BY <1>1, <2>2, <2>3, EndView DEF Visible, Done
<1>3. CASE DelMissing(t)
  <2>1. msg[t].op = "del" /\ ~ KV!Rejected(msg[t]) /\ table[msg[t].key] = NoValue
    BY <1>3 DEF DelMissing, Handles, KV!Rejected
  <2>2. HandlerEnds(t) /\ msg'[t] = Done("del") /\ table' = table
    BY <1>0, <1>3 DEF HandlerEnds, DelMissing, TypeOK, tableVars
  <2>3. [table EXCEPT ![msg[t].key] = NoValue] = table
    BY <1>0, <2>1 DEF TypeOK
  <2>4. table' = KV!After(msg[t], table) /\ KV!Answer(msg[t], table) = Done("del")
    BY <2>1, <2>2, <2>3 DEF KV!After, KV!Answer, KV!IsWrite, KV!Done, Done
  <2> QED
    BY <1>1, <2>2, <2>4, EndView DEF Visible, Done
<1>4. CASE PutLink(t)
  <2>1. msg[t].op = "put" /\ ~ KV!Rejected(msg[t])
    BY <1>0, <1>4 DEF PutLink, WorkInv, KV!Rejected
  <2>2. pc'[t] = "grow" /\ table' = [table EXCEPT ![msg[t].key] = msg[t].val]
    BY <1>0, <1>4 DEF PutLink, TypeOK
  <2>3. table' = KV!After(msg[t], table) /\ KV!Answer(msg[t], table) = Done("put")
    BY <2>1, <2>2 DEF KV!After, KV!Answer, KV!IsWrite, KV!Done, Done
  <2>4. view(t) = Asked(msg[t]) /\ view(t)' = Given(Done("put"))
    BY <1>1, <2>2 DEF view, Asking, InInvoke
  <2> QED
    BY <1>0, <1>1, <2>3, <2>4, ExecuteView
<1>5. CASE DelUnlink(t)
  <2>1. msg[t].op = "del" /\ ~ KV!Rejected(msg[t])
    BY <1>0, <1>5 DEF DelUnlink, WorkInv, KV!Rejected
  <2>2. pc'[t] = "shrink" /\ table' = [table EXCEPT ![msg[t].key] = NoValue]
    BY <1>0, <1>5 DEF DelUnlink, TypeOK
  <2>3. table' = KV!After(msg[t], table) /\ KV!Answer(msg[t], table) = Done("del")
    BY <2>1, <2>2 DEF KV!After, KV!Answer, KV!IsWrite, KV!Done, Done
  <2>4. view(t) = Asked(msg[t]) /\ view(t)' = Given(Done("del"))
    BY <1>1, <2>2 DEF view, Asking, InInvoke
  <2> QED
    BY <1>0, <1>1, <2>3, <2>4, ExecuteView
<1> QED
  BY <1>2, <1>3, <1>4, <1>5

(* The steps that KVService does not see. *)
LEMMA RefineStutter ==
  ASSUME Inv, NEW t \in Thread,
         \/ Accept(t) \/ Disconnect(t) \/ Propagate(t) \/ CountTime(t)
         \/ Counter(t) \/ comecaRead(t) \/ comecaWrite(t) \/ Unlock(t)
         \/ PutFind(t) \/ DelFind(t) \/ GetTableFetch(t)
         \/ CollectKeys(t, "getkeys", "nkeys")
         \/ CollectKeys(t, "gettable", "fetch")
         \/ PutGrow(t) \/ DelShrink(t)
  PROVE  UNCHANGED KV!kvars
<1> USE DEF goto, answer, view, Asking, InInvoke
<1>0. TypeOK /\ Step(t) /\ DOMAIN pc = Thread /\ DOMAIN msg = Thread
  BY DEF Inv, TypeOK, Step, Work, Invoke, Counter
<1>1. table' = table
  BY DEF Accept, Disconnect, Propagate, CountTime, Counter, EnterLoad,
       EnterStore, CountLoad, CountStore, LeaveLoad, LeaveStore, comecaRead,
       comecaWrite, Unlock, PutFind, DelFind, GetTableFetch, CollectKeys,
       PutGrow, DelShrink, tableVars
<1>2. ASSUME view(t)' = view(t) PROVE UNCHANGED KV!kvars
  BY <1>0, <1>1, <1>2, StutterView
<1>3. CASE \/ Accept(t) \/ Disconnect(t) \/ Propagate(t) \/ CountTime(t)
           \/ comecaRead(t) \/ comecaWrite(t) \/ Unlock(t)
  <2>1. view(t)' = view(t)
    BY <1>0, <1>3 DEF Accept, Disconnect, Propagate, CountTime, comecaRead,
         comecaWrite, Unlock
  <2> QED
    BY <1>2, <2>1
<1>4. CASE Counter(t)
  <2>1. view(t)' = view(t)
    BY <1>0, <1>4 DEF Counter, EnterLoad, EnterStore, CountLoad, CountStore,
         LeaveLoad, LeaveStore
  <2> QED
    BY <1>2, <2>1
<1>5. CASE \/ PutFind(t) \/ DelFind(t) \/ GetTableFetch(t)
           \/ CollectKeys(t, "getkeys", "nkeys")
           \/ CollectKeys(t, "gettable", "fetch")
  <2>1. view(t)' = view(t)
    BY <1>0, <1>5 DEF PutFind, DelFind, GetTableFetch, CollectKeys, Handles
  <2> QED
    BY <1>2, <2>1
<1>6. CASE PutGrow(t) \/ DelShrink(t)
  <2>1. view(t)' = view(t)
    BY <1>0, <1>6 DEF PutGrow, DelShrink, Visible, Done
  <2> QED
    BY <1>2, <2>1
<1> QED
  BY <1>3, <1>4, <1>5, <1>6

LEMMA RefineStep ==
  ASSUME Inv, NEW t \in Thread, Step(t)
  PROVE  KV!Next \/ UNCHANGED KV!kvars
<1>0. TypeOK /\ DOMAIN pc = Thread /\ DOMAIN msg = Thread
  BY DEF Inv, TypeOK
<1>1. CASE Receive(t)
  <2>1. PICK r \in Requests : msg' = [msg EXCEPT ![t] = r]
    BY <1>1 DEF Receive, answer
  <2>2. view(t) = Idle /\ view(t)' = Asked(r) /\ table' = table
    BY <1>0, <1>1, <2>1 DEF Receive, goto, view, Asking, InInvoke, tableVars
  <2> QED
    BY <1>0, <2>2, SubmitView DEF KV!Next
<1>2. CASE PropagateFails(t) \/ Reply(t) \/ ReplyFails(t)
  <2>1. view(t) # Idle /\ view(t)' = Idle /\ table' = table
    BY <1>0, <1>2 DEF PropagateFails, Reply, ReplyFails, goto, view, Asking,
         InInvoke, Idle, Asked, Given, tableVars
  <2> QED
    BY <1>0, <2>1, FinishView DEF KV!Next
<1>3. CASE \/ messageError(t) \/ PutEmpty(t) \/ PutReplace(t)
           \/ DelMissing(t) \/ PutLink(t) \/ DelUnlink(t)
           \/ Get(t) \/ Size(t) \/ GetStats(t) \/ GetKeysCount(t) \/ GetTableEnd(t)
  BY <1>3, RefineErrors, RefineReads, RefineWrites DEF KV!Next
<1> QED
  BY <1>1, <1>2, <1>3, RefineStutter, StepCases DEF Talk, Look, Change

(* A server with all its threads, locks and separate accesses to the table
   implements KVService, whose requests are atomic. *)
THEOREM Linearizable == Spec => Atomic
<1>1. Init => KV!Init
  BY DEF Init, KV!Init, view, Asking, InInvoke, KV!Idle, Idle
<1>2. Inv /\ [Next]_vars => [KV!Next]_(KV!kvars)
  <2>1. ASSUME UNCHANGED vars PROVE UNCHANGED KV!kvars
    BY <2>1 DEF vars, tableVars, KV!kvars, view
  <2>2. Inv /\ Next => KV!Next \/ UNCHANGED KV!kvars
    BY RefineStep DEF Next, Step
  <2> QED
    BY <2>1, <2>2
<1> QED
  BY <1>1, <1>2, Invariance, PTL DEF Spec, Atomic, KV!Spec
=============================================================================
