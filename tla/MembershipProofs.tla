-------------------------- MODULE MembershipProofs --------------------------
(***************************************************************************)
(* For any number of servers, started and killed at any time: what the     *)
(* callbacks of a server and its main thread keep true of next_exists,     *)
(* next_znode_id and next_znode_rtable without a lock, and that a server   *)
(* that is told of a change comes to know its successor.                   *)
(***************************************************************************)
EXTENDS Membership, TLAPS, FiniteSetTheorems

(* Where child_watcher may stand. *)
Places == {"idle", "leave", "forget", "get", "name", "connect", "check"}

NextTypes ==
  /\ sequence \in Nat
  /\ node_id \in [Server -> Nat]
  /\ callback \in [Server -> Places]
  /\ max \in [Server -> Server \cup {NoServer}]
  /\ next_exists \in [Server -> BOOLEAN]
  /\ next_znode_id \in [Server -> Server \cup {NoServer}]
  /\ next_znode_rtable \in [Server -> Pointer]

(* Between two callbacks, and in one that has changed nothing yet or has just
   connected. *)
Connected(s) ==
  /\ next_znode_id[s] # NoServer => next_znode_rtable[s] = next_znode_id[s]
  /\ next_exists[s] => next_znode_rtable[s] \in Server

(* In the middle of one that replaces the connection: the name is that of
   the server it connects to, unless the main thread has cleared it. *)
Connecting(s) ==
  /\ max[s] \in Server
  /\ callback[s] = "connect" => next_znode_id[s] \in {max[s], NoServer}

ConnectionInv ==
  \A s \in Server :
    /\ callback[s] \in {"idle", "leave", "check"} => Connected(s)
    /\ callback[s] \in {"get", "name", "connect"} => Connecting(s)

NextInv == NextTypes /\ ConnectionInv
-----------------------------------------------------------------------------
(* A set of numbers that is not empty has a least one. *)
LEMMA LeastNatural ==
  ASSUME NEW S \in SUBSET Nat, S # {}
  PROVE  \E n \in S : \A m \in S : n <= m
<1>1. IsWellFoundedOn(OpToRel(<, Nat), Nat)
  BY NatLessThanWellFounded
<1>2. PICK n \in S : \A m \in S : ~ (<<m, n>> \in OpToRel(<, Nat))
  BY <1>1, WFMin
<1>3. \A m \in S : ~ (m < n)
  BY <1>2 DEF OpToRel
<1> QED
  BY <1>3

(* What the loop of child_watcher finds is one of the servers, or none. *)
LEMMA SuccessorType ==
  ASSUME NEW s \in Server, NEW among \in SUBSET Server,
         node_id \in [Server -> Nat]
  PROVE  Successor(s, among) \in Server \cup {NoServer}
<1> DEFINE later == {t \in among : node_id[t] > node_id[s]}
           numbers == {node_id[t] : t \in later}
<1>1. CASE later = {}
  BY <1>1 DEF Successor
<1>2. CASE later # {}
  <2>1. numbers \in SUBSET Nat /\ numbers # {}
    BY <1>2
  <2> HIDE DEF numbers
  <2>2. PICK n \in numbers : \A m \in numbers : n <= m
    BY <2>1, LeastNatural
  <2>3. \E t \in later : \A u \in later : node_id[t] <= node_id[u]
    BY <2>2 DEF numbers
  <2> QED
    BY <1>2, <2>3 DEF Successor
<1> QED
  BY <1>1, <1>2

(* A process that ends leaves no pointers behind. *)
LEMMA StopKeeps ==
  ASSUME NextInv, NEW s \in Server, Stop(s)
  PROVE  NextInv'
<1>1. NextTypes'
  BY DEF NextInv, NextTypes, Stop, Pointer, Places
<1>2. ASSUME NEW u \in Server
      PROVE  /\ callback'[u] \in {"idle", "leave", "check"} => Connected(u)'
             /\ callback'[u] \in {"get", "name", "connect"} => Connecting(u)'
  BY DEF NextInv, NextTypes, ConnectionInv, Connected, Connecting, Stop
<1> QED
  BY <1>1, <1>2 DEF NextInv, ConnectionInv
-----------------------------------------------------------------------------
(* What neither a callback nor a starting server does to the connection. *)
LEMMA OthersKeep ==
  ASSUME NextInv, UNCHANGED <<callback, max, nextvars>>,
         sequence' \in Nat, node_id' \in [Server -> Nat]
  PROVE  NextInv'
BY DEF NextInv, NextTypes, ConnectionInv, Connected, Connecting, nextvars

(* The main thread of a server that starts: it may clear the name in the
   middle of a callback. *)
LEMMA InitStep ==
  ASSUME NextInv, NEW s \in Server, server_network_init(s)
  PROVE  NextInv'
<1>1. CASE CheckChain(s) \/ CreateChain(s) \/ SetData(s) \/ SetWatch(s)
  BY <1>1, OthersKeep
     DEF CheckChain, CreateChain, SetData, SetWatch, zkvars, NextInv, NextTypes
<1>2. CASE CreateChainFails(s)
  BY <1>2, StopKeeps DEF CreateChainFails
<1>3. CASE CreateZnode(s)
  <2>1. sequence \in Nat /\ node_id \in [Server -> Nat]
    BY DEF NextInv, NextTypes
  <2>2. sequence' = sequence + 1 /\ node_id' = [node_id EXCEPT ![s] = sequence]
    BY <1>3 DEF CreateZnode
  <2>3. sequence' \in Nat
    BY <2>1, <2>2
  <2>4. node_id' \in [Server -> Nat]
    BY <2>1, <2>2
  <2> QED
    BY <1>3, <2>3, <2>4, OthersKeep DEF CreateZnode
<1>4. CASE ClearExists(s)
  BY <1>4 DEF ClearExists, zkvars, NextInv, NextTypes, ConnectionInv,
              Connected, Connecting
<1>5. CASE ClearId(s)
  BY <1>5 DEF ClearId, zkvars, NextInv, NextTypes, ConnectionInv,
              Connected, Connecting
<1> QED
  BY <1>1, <1>2, <1>3, <1>4, <1>5 DEF server_network_init

LEMMA CallbackStep ==
  ASSUME NextInv, NEW s \in Server, child_watcher(s)
  PROVE  NextInv'
<1> USE DEF NextInv, NextTypes, ConnectionInv, Connected, Connecting, calls, Places
<1>1. CASE ListChildren(s)
  <2>1. Successor(s, Children) \in Server \cup {NoServer}
    BY SuccessorType DEF Children
  <2> QED
    BY <1>1, <2>1 DEF ListChildren, nextvars
<1>2. CASE LeaveLast(s)
  BY <1>2 DEF LeaveLast, zkvars, Pointer
<1>3. CASE StayLast(s)
  BY <1>3 DEF StayLast, zkvars, nextvars
<1>4. CASE Leave(s)
  <2>1. NextTypes'
    BY <1>4 DEF Leave, zkvars, Pointer
  <2>2. ConnectionInv'
    BY <1>4 DEF Leave, zkvars
  <2> QED
    BY <2>1, <2>2
<1>5. CASE GetAddress(s)
  BY <1>5 DEF GetAddress, zkvars
<1>6. CASE GetNoAddress(s)
  BY <1>6, StopKeeps DEF GetNoAddress
<1>7. CASE Connect(s)
  <2>1. NextTypes'
    BY <1>7 DEF Connect, zkvars, Pointer
  <2>2. ConnectionInv'
    BY <1>7 DEF Connect, zkvars
  <2> QED
    BY <2>1, <2>2
<1>8. CASE ConnectFails(s)
  BY <1>8, StopKeeps DEF ConnectFails
<1>9. CASE ForgetNext(s)
  BY <1>9 DEF ForgetNext, zkvars
<1>10. CASE SetName(s)
  BY <1>10 DEF SetName, zkvars
<1>11. CASE Check(s)
  BY <1>11 DEF Check, zkvars
<1> QED
  BY <1>1, <1>2, <1>3, <1>4, <1>5, <1>6, <1>7, <1>8, <1>9, <1>10, <1>11
     DEF child_watcher
-----------------------------------------------------------------------------
LEMMA NextInvInit == Init => NextInv
BY DEF Init, NextInv, NextTypes, ConnectionInv, Connected, Connecting, Pointer, Places

LEMMA NextInvStep == NextInv /\ [Next]_vars => NextInv'
<1> SUFFICES ASSUME NextInv, [Next]_vars PROVE NextInv'
  OBVIOUS
<1>1. CASE UNCHANGED vars
  BY <1>1, OthersKeep DEF vars, zkvars, NextInv, NextTypes
<1>2. CASE Next
  <2>1. PICK s \in Server : \/ Start(s) \/ server_network_init(s)
                            \/ child_watcher(s) \/ Crash(s) \/ Expire(s)
    BY <1>2 DEF Next
  <2>2. CASE Start(s) \/ Expire(s)
    BY <2>2, OthersKeep DEF Start, Expire, zkvars, NextInv, NextTypes
  <2>3. CASE server_network_init(s)
    BY <2>3, InitStep
  <2>4. CASE child_watcher(s)
    BY <2>4, CallbackStep
  <2>5. CASE Crash(s)
    BY <2>5, StopKeeps DEF Crash
  <2> QED
    BY <2>1, <2>2, <2>3, <2>4, <2>5
<1> QED
  BY <1>1, <1>2

(* Threads of clients that look at next_znode_id between two callbacks find
   a connection to that server in next_znode_rtable, and child_watcher closes
   no connection twice: for any number of servers. *)
THEOREM NextConnected == Spec => []NextIsConnected
<1>1. NextInv => NextIsConnected
  BY DEF NextInv, ConnectionInv, Connected, NextIsConnected
<1> QED
  BY NextInvInit, NextInvStep, <1>1, PTL DEF Spec
-----------------------------------------------------------------------------
(* How many numbers ZooKeeper may have given out: one to every server that
   was ever past zoo_create. *)
Numbered == {s \in Server : pc[s] \notin {"off", "exists", "chain", "znode"}}

Stages == {"off", "exists", "chain", "znode", "data", "watch", "clear exists",
           "clear id", "serving", "gone"}

(* What NextTypes leaves open. *)
MainTypes ==
  /\ chain \in BOOLEAN
  /\ znode \in [Server -> {"absent", "node data", "address"}]
  /\ watch \in [Server -> {"none", "set", "fired"}]
  /\ pc \in [Server -> Stages]
  /\ told \in [Server -> BOOLEAN]
  /\ crossed \in [Server -> BOOLEAN]

NumberInv ==
  /\ sequence <= Cardinality(Numbered)
  /\ \A s \in Server : node_id[s] <= sequence

TypeInv == NextTypes /\ MainTypes /\ NumberInv

LEMMA MainTypesStep ==
  ASSUME MainTypes, [Next]_vars
  PROVE  MainTypes'
<1>1. CASE UNCHANGED vars
  BY <1>1 DEF MainTypes, vars, zkvars
<1>2. ASSUME NEW s \in Server, Stop(s)
      PROVE  MainTypes'
  BY <1>2 DEF MainTypes, Stop, Stages
<1>3. ASSUME Fire
      PROVE  watch' \in [Server -> {"none", "set", "fired"}]
  BY <1>3 DEF MainTypes, Fire
<1>4. ASSUME NEW s \in Server, Start(s) \/ Expire(s)
      PROVE  MainTypes'
  BY <1>3, <1>4 DEF MainTypes, Start, Expire, goto, zkvars, Stages
<1>5. ASSUME NEW s \in Server, server_network_init(s)
      PROVE  MainTypes'
  <2>1. CASE CheckChain(s) \/ CreateChain(s)
    BY <2>1 DEF MainTypes, CheckChain, CreateChain, goto, zkvars, Stages
  <2>2. CASE CreateChainFails(s)
    BY <1>2, <2>2 DEF CreateChainFails
  <2>3. CASE CreateZnode(s) \/ SetData(s)
    BY <1>3, <2>3 DEF MainTypes, CreateZnode, SetData, goto, Stages
  <2>4. CASE SetWatch(s) \/ ClearExists(s) \/ ClearId(s)
    BY <2>4 DEF MainTypes, SetWatch, ClearExists, ClearId, goto, zkvars, Stages
  <2> QED
    BY <1>5, <2>1, <2>2, <2>3, <2>4 DEF server_network_init
<1>6. ASSUME NEW s \in Server, child_watcher(s)
      PROVE  MainTypes'
  <2>1. CASE ListChildren(s)
    BY <2>1 DEF MainTypes, ListChildren
  <2>2. CASE \/ LeaveLast(s) \/ ForgetNext(s) \/ StayLast(s) \/ Leave(s)
             \/ GetAddress(s) \/ SetName(s) \/ Connect(s) \/ Check(s)
    BY <2>2 DEF MainTypes, LeaveLast, ForgetNext, StayLast, Leave, GetAddress, SetName,
                Connect, Check, zkvars
  <2>3. CASE GetNoAddress(s) \/ ConnectFails(s)
    BY <1>2, <2>3 DEF GetNoAddress, ConnectFails
  <2> QED
    BY <1>6, <2>1, <2>2, <2>3 DEF child_watcher
<1>7. CASE Next
  BY <1>2, <1>4, <1>5, <1>6, <1>7 DEF Next, Crash
<1> QED
  BY <1>1, <1>7

(* No step but CreateZnode gives out a number, and none takes one back. *)
LEMMA NumbersKept ==
  ASSUME NumberInv, sequence \in Nat, UNCHANGED <<sequence, node_id>>,
         Numbered \subseteq Numbered'
  PROVE  NumberInv'
<1>1. IsFiniteSet(Numbered')
  BY ServerAssumption, FS_Subset DEF Numbered
<1>2. /\ Cardinality(Numbered) <= Cardinality(Numbered')
      /\ Cardinality(Numbered) \in Nat /\ Cardinality(Numbered') \in Nat
  BY <1>1, FS_Subset, FS_CardinalityType
<1> QED
  BY <1>2 DEF NumberInv

LEMMA NumberStep ==
  ASSUME TypeInv, [Next]_vars
  PROVE  NumberInv'
<1>1. /\ pc \in [Server -> Stages] /\ sequence \in Nat /\ NumberInv
      /\ node_id \in [Server -> Nat]
  BY DEF TypeInv, MainTypes, NextTypes
<1>2. ASSUME NEW s \in Server, CreateZnode(s)
      PROVE  NumberInv'
  <2>1. /\ pc[s] = "znode" /\ pc' = [pc EXCEPT ![s] = "data"]
        /\ node_id' = [node_id EXCEPT ![s] = sequence] /\ sequence' = sequence + 1
    BY <1>2 DEF CreateZnode, goto
  <2>2. Numbered' = Numbered \cup {s} /\ s \notin Numbered
    BY <1>1, <2>1 DEF Numbered
  <2>3. IsFiniteSet(Numbered)
    BY ServerAssumption, FS_Subset DEF Numbered
  <2>4. Cardinality(Numbered') = Cardinality(Numbered) + 1 /\ Cardinality(Numbered) \in Nat
    BY <2>2, <2>3, FS_AddElement, FS_CardinalityType
  <2>5. \A t \in Server : node_id'[t] <= sequence'
    BY <1>1, <2>1 DEF NumberInv
  <2> QED
    BY <1>1, <2>1, <2>4, <2>5 DEF NumberInv
<1>3. ASSUME NEW s \in Server, Stop(s)
      PROVE  NumberInv'
  BY <1>1, <1>3, NumbersKept DEF Stop, Numbered
<1>4. ASSUME UNCHANGED <<sequence, node_id, pc>>
      PROVE  NumberInv'
  BY <1>1, <1>4, NumbersKept DEF Numbered
<1>5. ASSUME NEW s \in Server, NEW from, NEW to, goto(s, from, to),
             UNCHANGED <<sequence, node_id>>,
             to \in {"off", "exists", "chain", "znode"} =>
               from \in {"off", "exists", "chain", "znode"}
      PROVE  NumberInv'
  BY <1>1, <1>5, NumbersKept DEF goto, Numbered
<1>6. CASE UNCHANGED vars
  BY <1>4, <1>6 DEF vars, zkvars
<1>7. ASSUME NEW s \in Server, server_network_init(s)
      PROVE  NumberInv'
  <2>1. CASE CheckChain(s)
    BY <1>5, <2>1 DEF CheckChain, zkvars
  <2>2. CASE CreateChain(s) \/ SetData(s) \/ SetWatch(s)
    BY <1>5, <2>2 DEF CreateChain, SetData, SetWatch
  <2>3. CASE ClearExists(s) \/ ClearId(s)
    BY <1>5, <2>3 DEF ClearExists, ClearId, zkvars
  <2>4. CASE CreateZnode(s) \/ CreateChainFails(s)
    BY <1>2, <1>3, <2>4 DEF CreateChainFails
  <2> QED
    BY <1>7, <2>1, <2>2, <2>3, <2>4 DEF server_network_init
<1>8. ASSUME NEW s \in Server, child_watcher(s)
      PROVE  NumberInv'
  BY <1>3, <1>4, <1>8 DEF child_watcher, ListChildren, LeaveLast, ForgetNext,
                          StayLast, Leave, GetAddress, GetNoAddress, SetName, Connect,
                          ConnectFails, Check, zkvars
<1>9. ASSUME NEW s \in Server, Start(s)
      PROVE  NumberInv'
  BY <1>5, <1>9 DEF Start, zkvars
<1>10. ASSUME NEW s \in Server, Expire(s)
      PROVE  NumberInv'
  BY <1>4, <1>10 DEF Expire
<1>11. CASE Next
  BY <1>3, <1>7, <1>8, <1>9, <1>10, <1>11 DEF Next, Crash
<1> QED
  BY <1>6, <1>11

LEMMA InitTypes == Init => TypeInv /\ NextInv
<1> SUFFICES ASSUME Init PROVE TypeInv
  BY NextInvInit
<1>1. Numbered = {}
  BY DEF Init, Numbered
<1>2. sequence <= Cardinality(Numbered) /\ \A s \in Server : node_id[s] <= sequence
  BY <1>1, FS_EmptySet DEF Init
<1> QED
  BY <1>2, NextInvInit DEF Init, TypeInv, NextInv, MainTypes, NumberInv, Stages

LEMMA TypeInvariant == Spec => [](TypeInv /\ NextInv)
<1>1. TypeInv /\ NextInv /\ [Next]_vars => (TypeInv /\ NextInv)'
  BY NextInvStep, MainTypesStep, NumberStep DEF TypeInv, NextInv
<1> QED
  BY <1>1, InitTypes, PTL DEF Spec

(* The variables keep their types, and ZooKeeper gives out no more numbers
   than there are servers: none is created twice. *)
THEOREM TypeCorrect == Spec => []TypeOK
<1>1. ASSUME TypeInv
      PROVE  TypeOK
  <2> DEFINE c == Cardinality(Server)
  <2>1. Cardinality(Numbered) <= c /\ Cardinality(Numbered) \in Nat /\ c \in Nat
    <3>1. Numbered \subseteq Server
      BY DEF Numbered
    <3> QED
      BY <3>1, ServerAssumption, FS_Subset, FS_CardinalityType
  <2>2. sequence \in Nat /\ node_id \in [Server -> Nat] /\ NumberInv
    BY <1>1 DEF TypeInv, NextTypes
  <2> HIDE DEF c
  <2>3. sequence \in 0 .. c
    BY <2>1, <2>2 DEF NumberInv
  <2>4. \A s \in Server : node_id[s] \in 0 .. c
    <3> TAKE s \in Server
    <3>1. node_id[s] \in Nat /\ node_id[s] <= sequence
      BY <2>2 DEF NumberInv
    <3> QED
      BY <2>1, <2>3, <3>1
  <2>5. node_id \in [Server -> 0 .. c]
    BY <2>2, <2>4
  <2> QED
    BY <1>1, <2>3, <2>5 DEF TypeInv, MainTypes, NextTypes, Stages, TypeOK, Places, c
<1> QED
  BY <1>1, TypeInvariant, PTL
-----------------------------------------------------------------------------
(* Where a server stands with its znode, and with the server that comes
   next. *)
Unnumbered == {"off", "exists", "chain", "znode"}

ZnodeInv ==
  \A s \in Server :
    /\ pc[s] \in Unnumbered => znode[s] = "absent"
    /\ pc[s] \notin Unnumbered /\ pc[s] # "gone" => znode[s] # "absent"

(* A server that serves and has no next server has no name of one, unless its
   callback and its main thread have crossed. *)
NamelessInv ==
  \A s \in Server :
    pc[s] = "serving" /\ ~ next_exists[s] =>
      next_znode_id[s] = NoServer \/ crossed[s]

(* What the callback c, with the server m that it found and the name n,
   has for the next server. *)
Finds(c, m, n) == IF c \in {"leave", "forget", "get", "name"} THEN m ELSE n

(* As long as the children of /chain are those that a server has listed, it
   has found its successor among them, or it has none and keeps the name that
   was written when its threads crossed. *)
Knows(s) ==
  told[s] =>
    /\ pc[s] = "serving" /\ watch[s] # "none"
    /\ watch[s] = "set" =>
         /\ \/ Finds(callback[s], max[s], next_znode_id[s]) = Successor(s, Children)
            \/ callback[s] = "idle" /\ crossed[s] /\ Successor(s, Children) = NoServer
         /\ callback[s] = "forget" => max[s] = NoServer

ToldInv == \A s \in Server : Knows(s)

KnowInv == ZnodeInv /\ NamelessInv /\ ToldInv

LEMMA ZnodeStep ==
  ASSUME TypeInv, ZnodeInv, [Next]_vars
  PROVE  ZnodeInv'
<1>1. /\ pc \in [Server -> Stages]
      /\ znode \in [Server -> {"absent", "node data", "address"}]
  BY DEF TypeInv, MainTypes
<1>2. CASE UNCHANGED vars
  BY <1>2 DEF ZnodeInv, vars, zkvars
<1>3. ASSUME NEW s \in Server, Stop(s)
      PROVE  ZnodeInv'
  BY <1>1, <1>3 DEF ZnodeInv, Stop, Unnumbered
<1>4. ASSUME NEW s \in Server, Start(s) \/ Expire(s)
      PROVE  ZnodeInv'
  BY <1>1, <1>4 DEF ZnodeInv, Unnumbered, Start, Expire, goto, zkvars
<1>5. ASSUME NEW s \in Server, server_network_init(s)
      PROVE  ZnodeInv'
  <2>1. CASE CheckChain(s) \/ CreateChain(s)
    BY <1>1, <2>1 DEF ZnodeInv, Unnumbered, CheckChain, CreateChain, goto, zkvars
  <2>2. CASE CreateChainFails(s)
    BY <1>3, <2>2 DEF CreateChainFails
  <2>3. CASE CreateZnode(s) \/ SetData(s)
    BY <1>1, <2>3 DEF ZnodeInv, Unnumbered, CreateZnode, SetData, goto
  <2>4. CASE SetWatch(s) \/ ClearExists(s) \/ ClearId(s)
    BY <1>1, <2>4 DEF ZnodeInv, Unnumbered, SetWatch, ClearExists, ClearId, goto, zkvars
  <2> QED
    BY <1>5, <2>1, <2>2, <2>3, <2>4 DEF server_network_init
<1>6. ASSUME NEW s \in Server, child_watcher(s)
      PROVE  ZnodeInv'
  <2>1. CASE GetNoAddress(s) \/ ConnectFails(s)
    BY <1>3, <2>1 DEF GetNoAddress, ConnectFails
  <2>2. CASE \/ ListChildren(s) \/ LeaveLast(s) \/ ForgetNext(s) \/ StayLast(s)
             \/ Leave(s) \/ GetAddress(s) \/ SetName(s) \/ Connect(s) \/ Check(s)
    <3>1. pc' = pc /\ znode' = znode
      BY <2>2 DEF ListChildren, LeaveLast, ForgetNext, StayLast, Leave, GetAddress,
                  SetName, Connect, Check, zkvars
    <3> QED
      BY <3>1 DEF ZnodeInv
  <2> QED
    BY <1>6, <2>1, <2>2 DEF child_watcher
<1>7. CASE Next
  BY <1>3, <1>4, <1>5, <1>6, <1>7 DEF Next, Crash
<1> QED
  BY <1>2, <1>7

LEMMA NamelessStep ==
  ASSUME TypeInv, NamelessInv, [Next]_vars
  PROVE  NamelessInv'
<1>1. /\ pc \in [Server -> Stages]
      /\ next_exists \in [Server -> BOOLEAN]
      /\ next_znode_id \in [Server -> Server \cup {NoServer}]
      /\ crossed \in [Server -> BOOLEAN]
  BY DEF TypeInv, MainTypes, NextTypes
<1>2. ASSUME UNCHANGED <<next_exists, next_znode_id, crossed>>,
             \A s \in Server : pc'[s] = "serving" => pc[s] = "serving"
      PROVE  NamelessInv'
  BY <1>2 DEF NamelessInv
<1>3. CASE UNCHANGED vars
  BY <1>2, <1>3 DEF vars, nextvars
<1>4. ASSUME NEW s \in Server, Stop(s)
      PROVE  NamelessInv'
  BY <1>1, <1>4 DEF NamelessInv, Stop
<1>5. ASSUME NEW s \in Server, NEW from, NEW to, to # "serving", goto(s, from, to),
             UNCHANGED <<nextvars, crossed>>
      PROVE  NamelessInv'
  BY <1>1, <1>2, <1>5 DEF goto, nextvars
<1>6. ASSUME NEW s \in Server, Start(s) \/ Expire(s)
      PROVE  NamelessInv'
  <2>1. CASE Start(s)
    BY <1>5, <2>1 DEF Start
  <2>2. CASE Expire(s)
    BY <1>2, <2>2 DEF Expire, nextvars
  <2> QED
    BY <1>6, <2>1, <2>2
<1>7. ASSUME NEW s \in Server, server_network_init(s)
      PROVE  NamelessInv'
  <2>1. CASE CheckChain(s)
    BY <1>5, <2>1 DEF CheckChain
  <2>2. CASE CreateChain(s) \/ CreateZnode(s) \/ SetData(s) \/ SetWatch(s)
    BY <1>5, <2>2 DEF CreateChain, CreateZnode, SetData, SetWatch
  <2>3. CASE CreateChainFails(s)
    BY <1>4, <2>3 DEF CreateChainFails
  <2>4. CASE ClearExists(s)
    BY <1>1, <2>4 DEF NamelessInv, ClearExists, goto
  <2>5. CASE ClearId(s)
    BY <1>1, <2>5 DEF NamelessInv, ClearId, goto
  <2> QED
    BY <1>7, <2>1, <2>2, <2>3, <2>4, <2>5 DEF server_network_init
<1>8. ASSUME NEW s \in Server, child_watcher(s)
      PROVE  NamelessInv'
  <2>1. CASE GetNoAddress(s) \/ ConnectFails(s)
    BY <1>4, <2>1 DEF GetNoAddress, ConnectFails
  <2>2. CASE ListChildren(s) \/ LeaveLast(s) \/ StayLast(s) \/ Leave(s) \/ Connect(s)
    BY <1>2, <2>2 DEF ListChildren, LeaveLast, StayLast, Leave, Connect, nextvars, zkvars
  <2>3. CASE ForgetNext(s) \/ GetAddress(s)
    BY <1>1, <2>3 DEF NamelessInv, ForgetNext, GetAddress
  <2>4. CASE SetName(s)
    BY <1>1, <2>4 DEF NamelessInv, SetName
  <2>5. CASE Check(s)
    BY <1>1, <2>5 DEF NamelessInv, Check
  <2> QED
    BY <1>8, <2>1, <2>2, <2>3, <2>4, <2>5 DEF child_watcher
<1>9. CASE Next
  BY <1>4, <1>6, <1>7, <1>8, <1>9 DEF Next, Crash
<1> QED
  BY <1>3, <1>9

LEMMA SameSuccessor ==
  ASSUME Children' = Children, node_id' = node_id, NEW s
  PROVE  Successor(s, Children)' = Successor(s, Children)
  BY DEF Successor

(* The children change, and every server that knew them is about to hear of
   it. *)
LEMMA FiredKnows ==
  ASSUME TypeInv, ToldInv, Fire, UNCHANGED told,
         \A s \in Server : pc[s] = "serving" => pc'[s] = "serving"
  PROVE  ToldInv'
<1>1. \A s \in Server : watch'[s] # "set" /\ (watch[s] # "none" => watch'[s] # "none")
  BY DEF Fire
<1> QED
  BY <1>1 DEF ToldInv, Knows

(* The children stay, and so does what a server has of them. *)
LEMMA KeptKnows ==
  ASSUME ToldInv, Children' = Children, node_id' = node_id, NEW s \in Server,
         told'[s] => told[s] /\ pc[s] = pc'[s] /\ watch'[s] = watch[s],
         UNCHANGED <<callback[s], max[s], next_znode_id[s], crossed[s]>>
  PROVE  Knows(s)'
<1>1. Successor(s, Children)' = Successor(s, Children)
  BY SameSuccessor
<1>2. Knows(s)
  BY DEF ToldInv
<1> QED
  BY <1>1, <1>2 DEF Knows, Finds

(* What a step of another server, of its main thread or its callback, does
   to what s knows: nothing, when no watch fires. *)
LEMMA OtherKnows ==
  ASSUME TypeInv, ToldInv, Children' = Children, node_id' = node_id,
         NEW s \in Server,
         \A t \in Server : t # s =>
           UNCHANGED <<pc[t], watch[t], callback[t], max[t], next_znode_id[t],
                     told[t], crossed[t]>>,
         Knows(s)'
  PROVE  ToldInv'
<1>1. ASSUME NEW t \in Server, t # s
      PROVE  Knows(t)'
  BY <1>1, KeptKnows
<1> QED
  BY <1>1 DEF ToldInv

LEMMA StopKnows ==
  ASSUME TypeInv, NextInv, ToldInv, NEW s \in Server, Stop(s)
  PROVE  ToldInv'
<1>1. Children' = Children /\ node_id' = node_id
  BY DEF Stop, Children
<1>2. \A t \in Server : t # s =>
        UNCHANGED <<pc[t], watch[t], callback[t], max[t], next_znode_id[t],
                     told[t], crossed[t]>>
  BY DEF Stop, TypeInv, MainTypes, NextTypes
<1>3. Knows(s)'
  BY DEF Stop, TypeInv, MainTypes, Knows
<1> QED
  BY <1>1, <1>2, <1>3, OtherKnows

LEMMA InitKnows ==
  ASSUME TypeInv, ZnodeInv, ToldInv, NEW s \in Server, server_network_init(s),
         ~ CreateChainFails(s)
  PROVE  ToldInv'
<1>1. /\ pc \in [Server -> Stages] /\ watch \in [Server -> {"none", "set", "fired"}]
      /\ znode \in [Server -> {"absent", "node data", "address"}]
      /\ told \in [Server -> BOOLEAN]
      /\ next_znode_id \in [Server -> Server \cup {NoServer}]
  BY DEF TypeInv, MainTypes, NextTypes
<1>2. pc[s] # "serving"
  BY DEF server_network_init, CheckChain, CreateChain, CreateChainFails, CreateZnode,
         SetData, SetWatch, ClearExists, ClearId, goto
<1>3. ~ told[s]
  BY <1>2 DEF ToldInv, Knows
<1>4. /\ UNCHANGED <<callback, max, told, crossed>>
      /\ \A t \in Server : t # s => UNCHANGED <<pc[t], next_znode_id[t]>>
  BY <1>1 DEF server_network_init, CheckChain, CreateChain, CreateChainFails, CreateZnode,
              SetData, SetWatch, ClearExists, ClearId, goto, nextvars
<1>5. CASE CreateZnode(s)
  <2>1. \A t \in Server : pc[t] = "serving" => pc'[t] = "serving"
    BY <1>2, <1>4
  <2> QED
    BY <1>5, <2>1, FiredKnows DEF CreateZnode
<1>6. CASE ~ CreateZnode(s)
  <2>1. node_id' = node_id /\ \A t \in Server : t # s => watch'[t] = watch[t]
    BY <1>1, <1>6 DEF server_network_init, CheckChain, CreateChain, SetData, SetWatch,
                      ClearExists, ClearId, zkvars
  <2>2. Children' = Children
    <3>1. CASE SetData(s)
      <4>1. pc[s] = "data" /\ znode' = [znode EXCEPT ![s] = "address"]
        BY <3>1 DEF SetData, goto
      <4>2. znode[s] # "absent"
        BY <4>1 DEF ZnodeInv, Unnumbered
      <4> QED
        BY <1>1, <4>1, <4>2 DEF Children
    <3>2. CASE ~ SetData(s)
      <4>1. znode' = znode
        BY <1>6, <3>2 DEF server_network_init, CheckChain, CreateChain, SetWatch,
                          ClearExists, ClearId, zkvars
      <4> QED
        BY <4>1 DEF Children
    <3> QED
      BY <3>1, <3>2
  <2>3. Knows(s)'
    BY <1>3, <1>4 DEF Knows
  <2> QED
    BY <1>4, <2>1, <2>2, <2>3, OtherKnows
<1> QED
  BY <1>5, <1>6

LEMMA WatcherKnows ==
  ASSUME TypeInv, NextInv, NamelessInv, ToldInv, NEW s \in Server, child_watcher(s),
         ~ GetNoAddress(s), ~ ConnectFails(s)
  PROVE  ToldInv'
<1>1. /\ pc \in [Server -> Stages] /\ watch \in [Server -> {"none", "set", "fired"}]
      /\ callback \in [Server -> Places]
      /\ told \in [Server -> BOOLEAN]
      /\ max \in [Server -> Server \cup {NoServer}]
      /\ next_znode_id \in [Server -> Server \cup {NoServer}]
  BY DEF TypeInv, MainTypes, NextTypes
<1>2. /\ node_id' = node_id /\ znode' = znode /\ pc' = pc
      /\ \A t \in Server : t # s =>
           UNCHANGED <<watch[t], callback[t], max[t], next_znode_id[t], told[t],
                       crossed[t]>>
  <2>1. CASE ListChildren(s)
    BY <1>1, <2>1 DEF ListChildren, calls, zkvars, nextvars
  <2>2. CASE LeaveLast(s)
    BY <1>1, <2>2 DEF LeaveLast, calls, zkvars, nextvars
  <2>3. CASE ForgetNext(s)
    BY <1>1, <2>3 DEF ForgetNext, calls, zkvars, nextvars
  <2>4. CASE StayLast(s)
    BY <1>1, <2>4 DEF StayLast, calls, zkvars, nextvars
  <2>5. CASE Leave(s)
    BY <1>1, <2>5 DEF Leave, calls, zkvars, nextvars
  <2>6. CASE GetAddress(s)
    BY <1>1, <2>6 DEF GetAddress, calls, zkvars, nextvars
  <2>7. CASE SetName(s)
    BY <1>1, <2>7 DEF SetName, calls, zkvars, nextvars
  <2>8. CASE Connect(s)
    BY <1>1, <2>8 DEF Connect, calls, zkvars, nextvars
  <2>9. CASE Check(s)
    BY <1>1, <2>9 DEF Check, calls, zkvars, nextvars
  <2> QED
    BY <2>1, <2>2, <2>3, <2>4, <2>5, <2>6, <2>7, <2>8, <2>9 DEF child_watcher
<1>3. Children' = Children
  BY <1>2 DEF Children
<1>4. Successor(s, Children)' = Successor(s, Children)
  BY <1>2, <1>3, SameSuccessor
<1>5. Knows(s)
  BY DEF ToldInv
<1>6. Knows(s)'
  <2>1. CASE ListChildren(s)
    <3>1. /\ watch'[s] = "set" /\ callback'[s] = "leave"
          /\ max'[s] = Successor(s, Children) /\ told'[s] = (pc[s] = "serving")
      BY <1>1, <2>1 DEF ListChildren, calls
    <3> QED
      BY <1>2, <1>4, <3>1 DEF Knows, Finds
  <2>2. CASE LeaveLast(s)
    <3>1. /\ callback[s] = "leave" /\ callback'[s] = "forget"
          /\ max[s] = NoServer /\ max' = max
          /\ watch' = watch /\ told' = told
      BY <1>1, <2>2 DEF LeaveLast, calls, zkvars, nextvars
    <3> QED
      BY <1>2, <1>4, <1>5, <3>1 DEF Knows, Finds
  <2>3. CASE StayLast(s)
    <3>1. /\ callback[s] = "leave" /\ callback'[s] = "idle"
          /\ max[s] = NoServer /\ UNCHANGED <<next_znode_id, crossed>> /\ ~ next_exists[s]
          /\ watch' = watch /\ told' = told
      BY <1>1, <2>3 DEF StayLast, calls, zkvars, nextvars
    <3>2. pc[s] = "serving" => next_znode_id[s] = NoServer \/ crossed[s]
      BY <3>1 DEF NamelessInv
    <3> QED
      BY <1>2, <1>4, <1>5, <3>1, <3>2 DEF Knows, Finds
  <2>4. CASE Leave(s)
    <3>1. /\ callback[s] = "leave" /\ callback'[s] = "get"
          /\ max' = max
          /\ watch' = watch /\ told' = told
      BY <1>1, <2>4 DEF Leave, calls, zkvars, nextvars
    <3> QED
      BY <1>2, <1>4, <1>5, <3>1 DEF Knows, Finds
  <2>5. CASE GetAddress(s)
    <3>1. /\ callback[s] = "get" /\ callback'[s] = "name"
          /\ max' = max
          /\ watch' = watch /\ told' = told
      BY <1>1, <2>5 DEF GetAddress, calls, zkvars, nextvars
    <3> QED
      BY <1>2, <1>4, <1>5, <3>1 DEF Knows, Finds
  <2>6. CASE Connect(s)
    <3>1. /\ callback[s] = "connect" /\ callback'[s] = "check"
          /\ next_znode_id' = next_znode_id
          /\ watch' = watch /\ told' = told
      BY <1>1, <2>6 DEF Connect, calls, zkvars, nextvars
    <3> QED
      BY <1>2, <1>4, <1>5, <3>1 DEF Knows, Finds
  <2>7. CASE ForgetNext(s)
    <3>1. /\ callback[s] = "forget" /\ callback'[s] = "idle"
          /\ next_znode_id'[s] = NoServer
          /\ watch' = watch /\ told' = told
      BY <1>1, <2>7 DEF ForgetNext, calls, zkvars, nextvars
    <3> QED
      BY <1>2, <1>4, <1>5, <3>1 DEF Knows, Finds
  <2>8. CASE SetName(s)
    <3>1. /\ callback[s] = "name" /\ callback'[s] = "connect"
          /\ next_znode_id'[s] = max[s]
          /\ watch' = watch /\ told' = told
      BY <1>1, <2>8 DEF SetName, calls, zkvars, nextvars
    <3> QED
      BY <1>2, <1>4, <1>5, <3>1 DEF Knows, Finds
  <2>9. CASE Check(s)
    <3>1. /\ callback[s] = "check" /\ callback'[s] = "idle"
          /\ next_znode_id' = next_znode_id
          /\ watch' = watch /\ told' = told
      BY <1>1, <2>9 DEF Check, calls, zkvars, nextvars
    <3> QED
      BY <1>2, <1>4, <1>5, <3>1 DEF Knows, Finds
  <2> QED
    BY <2>1, <2>2, <2>3, <2>4, <2>5, <2>6, <2>7, <2>8, <2>9 DEF child_watcher
<1> QED
  BY <1>2, <1>3, <1>6, OtherKnows

LEMMA KnowStep ==
  ASSUME TypeInv, NextInv, KnowInv, [Next]_vars
  PROVE  KnowInv'
<1> USE DEF KnowInv
<1>1. CASE UNCHANGED vars
  <2>1. Children' = Children /\ node_id' = node_id
    BY <1>1 DEF vars, zkvars, Children
  <2>2. ASSUME NEW s \in Server
        PROVE  Knows(s)'
    BY <1>1, <2>1, KeptKnows DEF vars, zkvars, nextvars
  <2> QED
    BY <2>2, ZnodeStep, NamelessStep DEF ToldInv
<1>2. CASE Next
  <2>1. ASSUME NEW s \in Server, Start(s)
        PROVE  ToldInv'
    <3>1. Children' = Children /\ node_id' = node_id
      BY <2>1 DEF Start, zkvars, Children
    <3>2. ~ told[s]
      BY <2>1 DEF Start, goto, ToldInv, Knows
    <3>3. \A t \in Server : t # s =>
            UNCHANGED <<pc[t], watch[t], callback[t], max[t], next_znode_id[t],
                     told[t], crossed[t]>>
      BY <2>1 DEF Start, goto, zkvars, nextvars, TypeInv, MainTypes
    <3>4. Knows(s)'
      BY <2>1, <3>2 DEF Start, Knows
    <3> QED
      BY <3>1, <3>3, <3>4, OtherKnows
  <2>2. ASSUME NEW s \in Server, Expire(s)
        PROVE  ToldInv'
    BY <2>2, FiredKnows DEF Expire
  <2>3. ASSUME NEW s \in Server, Stop(s)
        PROVE  ToldInv'
    BY <2>3, StopKnows
  <2>4. ToldInv'
    BY <1>2, <2>1, <2>2, <2>3, InitKnows, WatcherKnows
       DEF Next, Crash, server_network_init, child_watcher, CreateChainFails,
           GetNoAddress, ConnectFails
  <2> QED
    BY <2>4, ZnodeStep, NamelessStep
<1> QED
  BY <1>1, <1>2

LEMMA KnowInit == Init => KnowInv
  BY DEF Init, KnowInv, ZnodeInv, NamelessInv, ToldInv, Knows, Unnumbered

(* However the deaths and births in the chain overlap with the callbacks of a
   server, once it is quiet the server is followed by the right one, if it has
   been told of a change since it serves; or it is the last one and keeps a
   name that was written when its threads crossed: for any number of
   servers. *)
THEOREM ToldKnows == Spec => []ToldKnowsNext
<1>1. ASSUME TypeInv, KnowInv, Quiet, NEW s \in Server, told[s]
      PROVE  \/ next_znode_id[s] = NextServer(s)
             \/ crossed[s] /\ NextServer(s) = NoServer
  <2>1. Children = {t \in Server : Alive(t)}
    BY <1>1 DEF Quiet, KnowInv, ZnodeInv, Unnumbered, Children, Alive
  <2>2. Knows(s) /\ callback[s] = "idle" /\ watch[s] = "set"
    BY <1>1 DEF Quiet, KnowInv, ToldInv, Knows, TypeInv, MainTypes
  <2>3. \/ next_znode_id[s] = Successor(s, Children)
        \/ crossed[s] /\ Successor(s, Children) = NoServer
    BY <1>1, <2>2 DEF Knows, Finds
  <2> QED
    BY <2>1, <2>3 DEF NextServer
<1>2. TypeInv /\ KnowInv => ToldKnowsNext
  BY <1>1 DEF ToldKnowsNext
<1>3. TypeInv /\ NextInv /\ KnowInv /\ [Next]_vars => KnowInv'
  BY KnowStep
<1> QED
  BY <1>2, <1>3, KnowInit, TypeInvariant, PTL DEF Spec
=============================================================================
