----------------------------- MODULE Membership -----------------------------
(***************************************************************************)
(* How the servers of the chain find each other (server_network_init,      *)
(* handle_next_server and child_watcher, source/server_network.c).  Each   *)
(* server has an ephemeral znode under /chain, numbered by ZooKeeper, and  *)
(* keeps a connection to the server with the next number.  A watch on      *)
(* /chain fires once; child_watcher sets it again, in a thread of its own. *)
(*                                                                         *)
(* A server may be killed anywhere.  ZooKeeper notices after the timeout   *)
(* of its session, and never gives up a session of a server that lives.    *)
(***************************************************************************)
EXTENDS Naturals, FiniteSets

CONSTANTS
  Server,     \* the processes that may ever be started
  NoServer,   \* a null pointer
  Closed      \* a pointer to what rtable_disconnect has freed

ASSUME ServerAssumption ==
  IsFiniteSet(Server) /\ NoServer \notin Server /\ Closed \notin Server
                      /\ NoServer # Closed

VARIABLES
  chain,              \* ZooKeeper: whether /chain exists
  sequence,           \* ZooKeeper: the number of the next znode
  znode,              \* ZooKeeper: the data of each server's znode
  watch,              \* ZooKeeper: each server's watch on /chain
  pc,                 \* where the main thread of each server stands
  node_id,
  callback,           \* where child_watcher stands
  max,                \* what it found to be the next server
  next_exists, next_znode_id, next_znode_rtable,
  told,               \* history: it has listed the children while serving
  crossed             \* history: when the callback wrote next_znode_id, the
                      \* main thread had cleared both variables since it
                      \* wrote next_exists

zkvars   == <<chain, sequence, znode, watch>>
nextvars == <<next_exists, next_znode_id, next_znode_rtable>>
vars     == <<zkvars, pc, node_id, callback, max, nextvars, told, crossed>>

Alive(s) == pc[s] \notin {"off", "gone"}
Children == {s \in Server : znode[s] # "absent"}

(* The server whose number comes after that of s, among a set of them. *)
Successor(s, among) ==
  LET later == {t \in among : node_id[t] > node_id[s]} IN
  IF later = {} THEN NoServer
  ELSE CHOOSE t \in later : \A u \in later : node_id[t] <= node_id[u]

goto(s, from, to) == pc[s] = from /\ pc' = [pc EXCEPT ![s] = to]

(* The children of /chain change: every watch that is set fires. *)
Fire ==
  watch' = [t \in Server |-> IF watch[t] = "set" THEN "fired" ELSE watch[t]]

(* The process ends.  Its znode stays until ZooKeeper misses it. *)
Stop(s) ==
  /\ pc' = [pc EXCEPT ![s] = "gone"]
  /\ watch' = [watch EXCEPT ![s] = "none"]
  /\ callback' = [callback EXCEPT ![s] = "idle"]
  /\ max' = [max EXCEPT ![s] = NoServer]
  /\ next_exists' = [next_exists EXCEPT ![s] = FALSE]
  /\ next_znode_id' = [next_znode_id EXCEPT ![s] = NoServer]
  /\ next_znode_rtable' = [next_znode_rtable EXCEPT ![s] = NoServer]
  /\ told' = [told EXCEPT ![s] = FALSE]
  /\ crossed' = [crossed EXCEPT ![s] = FALSE]
  /\ UNCHANGED <<chain, sequence, znode, node_id>>
-----------------------------------------------------------------------------
Init ==
  /\ chain \in BOOLEAN
  /\ sequence = 0
  /\ znode = [s \in Server |-> "absent"]
  /\ watch = [s \in Server |-> "none"]
  /\ pc = [s \in Server |-> "off"]
  /\ node_id = [s \in Server |-> 0]
  /\ callback = [s \in Server |-> "idle"]
  /\ max = [s \in Server |-> NoServer]
  /\ next_exists = [s \in Server |-> FALSE]
  /\ next_znode_id = [s \in Server |-> NoServer]
  /\ next_znode_rtable = [s \in Server |-> NoServer]
  /\ told = [s \in Server |-> FALSE]
  /\ crossed = [s \in Server |-> FALSE]

(* The socket listens before ZooKeeper is asked anything. *)
Start(s) ==
  /\ goto(s, "off", "exists")
  /\ UNCHANGED <<zkvars, node_id, callback, max, nextvars, told, crossed>>

CheckChain(s) ==
  /\ goto(s, "exists", IF chain THEN "znode" ELSE "chain")
  /\ UNCHANGED <<zkvars, node_id, callback, max, nextvars, told, crossed>>

CreateChain(s) ==
  /\ ~ chain
  /\ goto(s, "chain", "znode")
  /\ chain' = TRUE
  /\ UNCHANGED <<sequence, znode, watch, node_id, callback, max, nextvars, told, crossed>>

(* Another server has created /chain since zoo_exists: exit. *)
CreateChainFails(s) == chain /\ pc[s] = "chain" /\ Stop(s)

(* Mutant: zoo_create is called again when its answer is lost. *)
CreateZnodeAgain(s) ==
  /\ pc[s] = "znode"
  /\ \/ pc' = [pc EXCEPT ![s] = "data"]
     \/ pc' = pc
  /\ znode' = [znode EXCEPT ![s] = "node data"]
  /\ node_id' = [node_id EXCEPT ![s] = sequence]
  /\ sequence' = sequence + 1
  /\ Fire
  /\ UNCHANGED <<chain, callback, max, nextvars, told, crossed>>

CreateZnode(s) ==
  /\ goto(s, "znode", "data")
  /\ znode' = [znode EXCEPT ![s] = "node data"]
  /\ node_id' = [node_id EXCEPT ![s] = sequence]
  /\ sequence' = sequence + 1
  /\ Fire
  /\ UNCHANGED <<chain, callback, max, nextvars, told, crossed>>

(* Data of a child are no change of the children: no watch fires. *)
SetData(s) ==
  /\ goto(s, "data", "watch")
  /\ znode' = [znode EXCEPT ![s] = "address"]
  /\ UNCHANGED <<chain, sequence, watch, node_id, callback, max, nextvars, told, crossed>>

(* handle_next_server sets the watch and drops the children it is given. *)
SetWatch(s) ==
  /\ goto(s, "watch", "clear exists")
  /\ watch' = [watch EXCEPT ![s] = "set"]
  /\ UNCHANGED <<chain, sequence, znode, node_id, callback, max, nextvars, told, crossed>>

ClearExists(s) ==
  /\ goto(s, "clear exists", "clear id")
  /\ next_exists' = [next_exists EXCEPT ![s] = FALSE]
  /\ UNCHANGED <<zkvars, node_id, callback, max, next_znode_id,
                 next_znode_rtable, told, crossed>>

ClearId(s) ==
  /\ goto(s, "clear id", "serving")
  /\ next_znode_id' = [next_znode_id EXCEPT ![s] = NoServer]
  /\ UNCHANGED <<zkvars, node_id, callback, max, next_exists,
                 next_znode_rtable, told, crossed>>
-----------------------------------------------------------------------------
calls(s, from, to) ==
  callback[s] = from /\ callback' = [callback EXCEPT ![s] = to]

(* Mutant: the watch is not set again. *)
ListChildrenOnce(s) ==
  /\ watch[s] = "fired"
  /\ calls(s, "idle", "leave")
  /\ watch' = [watch EXCEPT ![s] = "none"]
  /\ max' = [max EXCEPT ![s] = Successor(s, Children)]
  /\ told' = [told EXCEPT ![s] = pc[s] = "serving"]
  /\ UNCHANGED <<chain, sequence, znode, pc, node_id, nextvars, crossed>>

(* child_watcher: zoo_wget_children sets the watch again and returns the
   children, of which the loop takes the next one. *)
ListChildren(s) ==
  /\ watch[s] = "fired"
  /\ calls(s, "idle", "leave")
  /\ watch' = [watch EXCEPT ![s] = "set"]
  /\ max' = [max EXCEPT ![s] = Successor(s, Children)]
  /\ told' = [told EXCEPT ![s] = pc[s] = "serving"]
  /\ UNCHANGED <<chain, sequence, znode, pc, node_id, nextvars, crossed>>

(* There is no next server any more: its connection is closed, and then
   next_exists and next_znode_id are cleared ... *)
LeaveLast(s) ==
  /\ max[s] = NoServer
  /\ calls(s, "leave", "forget")
  /\ next_exists[s]
  /\ next_znode_rtable' = [next_znode_rtable EXCEPT ![s] = Closed]
  /\ UNCHANGED <<zkvars, pc, node_id, max, next_exists, next_znode_id, told, crossed>>

(* Mutant: the last server keeps the name of the one that left. *)
ForgetNextKeepsId(s) ==
  /\ calls(s, "forget", "idle")
  /\ next_exists' = [next_exists EXCEPT ![s] = FALSE]
  /\ UNCHANGED <<zkvars, pc, node_id, max, next_znode_id, next_znode_rtable,
                 told, crossed>>

ForgetNext(s) ==
  /\ calls(s, "forget", "idle")
  /\ next_exists' = [next_exists EXCEPT ![s] = FALSE]
  /\ next_znode_id' = [next_znode_id EXCEPT ![s] = NoServer]
  /\ UNCHANGED <<zkvars, pc, node_id, max, next_znode_rtable, told, crossed>>

(* ... or there was none before; *)
StayLast(s) ==
  /\ max[s] = NoServer
  /\ calls(s, "leave", "idle")
  /\ ~ next_exists[s]
  /\ UNCHANGED <<zkvars, pc, node_id, max, nextvars, told, crossed>>

(* there is one: the names are compared as pointers, so it always counts as
   another one than before, and the connection there is is closed. *)
Leave(s) ==
  /\ max[s] # NoServer
  /\ calls(s, "leave", "get")
  /\ next_znode_rtable' =
       [next_znode_rtable EXCEPT ![s] = IF next_exists[s] THEN Closed ELSE @]
  /\ UNCHANGED <<zkvars, pc, node_id, max, next_exists, next_znode_id, told, crossed>>

GetAddress(s) ==
  /\ calls(s, "get", "name")
  /\ znode[max[s]] = "address"
  /\ next_exists' = [next_exists EXCEPT ![s] = TRUE]
  /\ UNCHANGED <<zkvars, pc, node_id, max, next_znode_id, next_znode_rtable, told, crossed>>

(* Without an address, because the znode has gone again or its server has not
   set it yet, rtable_connect returns NULL: exit. *)
GetNoAddress(s) ==
  callback[s] = "get" /\ znode[max[s]] # "address" /\ Stop(s)

(* Mutant: it goes on to connect without taking the new name. *)
SetNameNot(s) ==
  /\ calls(s, "name", "connect")
  /\ UNCHANGED <<zkvars, pc, node_id, max, nextvars, told, crossed>>

(* Both threads write without a lock: the main thread of a server that starts
   may have cleared next_exists since GetAddress wrote it. *)
SetName(s) ==
  /\ calls(s, "name", "connect")
  /\ next_znode_id' = [next_znode_id EXCEPT ![s] = max[s]]
  /\ crossed' = [crossed EXCEPT ![s] = pc[s] = "serving" /\ ~ next_exists[s]]
  /\ UNCHANGED <<zkvars, pc, node_id, max, next_exists, next_znode_rtable, told>>

Connect(s) ==
  /\ calls(s, "connect", "check")
  /\ Alive(max[s])
  /\ next_znode_rtable' = [next_znode_rtable EXCEPT ![s] = max[s]]
  /\ max' = [max EXCEPT ![s] = NoServer]
  /\ UNCHANGED <<zkvars, pc, node_id, next_exists, next_znode_id, told, crossed>>

(* The end of the callback.  It finds NoServer here, and something to clear,
   only if the main thread has cleared the name in the meantime; after the
   other branches it changes nothing. *)
Check(s) ==
  /\ calls(s, "check", "idle")
  /\ next_exists' = [next_exists EXCEPT ![s] = @ /\ next_znode_id[s] # NoServer]
  /\ UNCHANGED <<zkvars, pc, node_id, max, next_znode_id, next_znode_rtable, told, crossed>>

(* Nobody listens at the address: exit. *)
ConnectFails(s) == callback[s] = "connect" /\ ~ Alive(max[s]) /\ Stop(s)
-----------------------------------------------------------------------------
Crash(s) == Alive(s) /\ Stop(s)

(* The session of a dead server times out. *)
Expire(s) ==
  /\ pc[s] = "gone" /\ znode[s] # "absent"
  /\ znode' = [znode EXCEPT ![s] = "absent"]
  /\ Fire
  /\ UNCHANGED <<chain, sequence, pc, node_id, callback, max, nextvars, told, crossed>>

server_network_init(s) ==
  \/ CheckChain(s) \/ CreateChain(s) \/ CreateChainFails(s)
  \/ CreateZnode(s) \/ SetData(s)
  \/ SetWatch(s) \/ ClearExists(s) \/ ClearId(s)

child_watcher(s) ==
  \/ ListChildren(s) \/ LeaveLast(s) \/ ForgetNext(s) \/ StayLast(s)
  \/ Leave(s) \/ GetAddress(s) \/ GetNoAddress(s) \/ SetName(s)
  \/ Connect(s) \/ ConnectFails(s) \/ Check(s)

Next ==
  \E s \in Server :
    Start(s) \/ server_network_init(s) \/ child_watcher(s) \/ Crash(s) \/ Expire(s)

Spec == Init /\ [][Next]_vars

(* ZooKeeper answers, delivers its events and ends dead sessions; the two
   threads of a server run. *)
FairSpec ==
  Spec /\ \A s \in Server : /\ WF_vars(server_network_init(s))
                            /\ WF_vars(child_watcher(s))
                            /\ WF_vars(Expire(s))
-----------------------------------------------------------------------------
Pointer == Server \cup {NoServer, Closed}

TypeOK ==
  /\ chain \in BOOLEAN
  /\ sequence \in 0 .. Cardinality(Server)
  /\ znode \in [Server -> {"absent", "node data", "address"}]
  /\ watch \in [Server -> {"none", "set", "fired"}]
  /\ pc \in [Server -> {"off", "exists", "chain", "znode", "data", "watch",
                        "clear exists", "clear id", "serving", "gone"}]
  /\ node_id \in [Server -> 0 .. Cardinality(Server)]
  /\ callback \in [Server -> {"idle", "leave", "forget", "get", "name",
                              "connect", "check"}]
  /\ max \in [Server -> Server \cup {NoServer}]
  /\ next_exists \in [Server -> BOOLEAN]
  /\ next_znode_id \in [Server -> Server \cup {NoServer}]
  /\ next_znode_rtable \in [Server -> Pointer]
  /\ told \in [Server -> BOOLEAN]
  /\ crossed \in [Server -> BOOLEAN]

(* While no callback runs, or one has only just begun, the threads that find
   a next_znode_id find a connection to that very server, and the next
   callback finds one to close whenever it will close one: whatever callbacks
   and the main thread of a starting server did to the three variables, which
   no lock protects. *)
NextIsConnected ==
  \A s \in Server : callback[s] \in {"idle", "leave"} =>
    /\ next_znode_id[s] # NoServer => next_znode_rtable[s] = next_znode_id[s]
    /\ next_exists[s] => next_znode_rtable[s] \in Server

(* Every server runs or has been missed, and every event has been handled. *)
Quiet ==
  \A s \in Server :
    /\ pc[s] \in {"off", "serving", "gone"}
    /\ pc[s] = "gone" => znode[s] = "absent"
    /\ watch[s] # "fired" /\ callback[s] = "idle"

(* The server that comes after s among those that run. *)
NextServer(s) == Successor(s, {t \in Server : Alive(t)})

(* Once the chain is quiet, every server that has been told of a change since
   it serves is followed by the right one, whichever changes of the chain
   overlapped with its callbacks.  One order of the unlocked writes leaves
   next_exists clear beside a name: a server in that state does not forget the
   name when it becomes the last one (LastForgets), and with any other
   successor it is right again. *)
ToldKnowsNext ==
  Quiet => \A s \in Server : told[s] =>
    \/ next_znode_id[s] = NextServer(s)
    \/ crossed[s] /\ NextServer(s) = NoServer

(* Servers do not go on sending to dead ones: again and again, whatever has
   been killed in between, no server is connected to a server that is gone,
   except in the state that the main thread and a callback leave when they
   cross. *)
LeavesTheDead ==
  []<>(\A s, t \in Server :
         next_znode_id[s] = t => pc[t] # "gone" \/ crossed[s])
-----------------------------------------------------------------------------
(* What comments say and the code does not do. *)

(* next_znode_id is NULL when no znode has a higher number, and it is brought
   up to date whenever a znode is created. *)
NextIsSuccessor ==
  Quiet => \A s \in Server : pc[s] = "serving" =>
    next_znode_id[s] = NextServer(s)

(* next_znode_id is NULL when no znode has a higher number, at least in a
   server that has listed the children since it serves. *)
LastForgets ==
  Quiet => \A s \in Server :
    told[s] /\ NextServer(s) = NoServer => next_znode_id[s] = NoServer

(* Whenever a server has a next_znode_id it has somewhere to write: what the
   thread of a client is about to send on goes to the connection that
   next_znode_rtable holds at that moment. *)
NextHasConnection ==
  \A s \in Server :
    next_znode_id[s] # NoServer => next_znode_rtable[s] = next_znode_id[s]
=============================================================================
