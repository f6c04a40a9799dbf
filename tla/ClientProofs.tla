---------------------------- MODULE ClientProofs ----------------------------
(***************************************************************************)
(* The client for any chain, any number of descriptors and of requests:    *)
(* what a descriptor can be when the callback of ZooKeeper closes and      *)
(* opens connections under a request, and from this that puts reach heads, *)
(* that answers belong to their requests, and that the connections are the *)
(* right ones once all is quiet.                                           *)
(***************************************************************************)
EXTENDS Client, TLAPS, WellFoundedInduction

Piece  == [n : Nat, kind : Which, part : {"length", "body"}]
Conn   == [server : Server, at : {"serving", "stuck", "closed"},
           out : Seq(Piece), in : Seq(Piece)]
Rtable == {Null, Freed} \cup {Live(f) : f \in Fd}
Stages == {"idle", "list", "compare", "leave_head", "join_head", "leave_tail",
           "join_tail", "closed"}
Act     == [at : Stages, min : 0 .. N, max : 0 .. N, to : 0 .. N]
Reading == {"read_length", "read_body"}

(* Servers start in order and have their znode after that. *)
ChainTypes ==
  /\ server \in [Server -> {"off", "created", "up", "gone"}]
  /\ \A s \in Server : \A t \in 1 .. s - 1 : server[s] # "off" => server[t] # "off"
  /\ znodes \subseteq {s \in Server : server[s] # "off"}

WatchTypes ==
  /\ watch \in BOOLEAN /\ event \in BOOLEAN
  /\ act \in [Activation -> Act]
  /\ min_node \in 0 .. N /\ max_node \in 0 .. N
  /\ changed \subseteq Which

(* A connection is that of one descriptor at most. *)
SockTypes ==
  /\ rtable \in [Which -> Rtable]
  /\ conns \in Seq(Conn)
  /\ sock \in [Fd -> 0 .. Len(conns)]
  /\ \A f, g \in Fd : sock[f] # 0 /\ sock[f] = sock[g] => f = g
  /\ \A c \in DOMAIN conns : conns[c].at = "closed" => conns[c].out = <<>>

CallTypes ==
  /\ main \in Places
  /\ calls \in 0 .. MaxCalls
  /\ call \in [kind : Which, conn : 0 .. Len(conns), leaked : Rtable \ {Freed}]
  /\ main \in Reading => call.conn # 0
  /\ puts \subseteq Server

TypeInv == ChainTypes /\ WatchTypes /\ SockTypes /\ CallTypes

(* A server that is, or has been, the head: all before it have been. *)
HeadLike(s) == s \in Server /\ \A t \in 1 .. s - 1 : server[t] # "off" /\ t \notin znodes

(* An rtable_t that was not freed has a connection of its own. *)
PointerInv ==
  /\ \A w \in Which : rtable[w].at = "live" => Socket(w) # 0
  /\ rtable["head"].at = "live" => rtable["head"] # rtable["tail"]
  /\ call.leaked.at = "live" =>
       socket(call.leaked) # 0 /\ \A w \in Which : call.leaked # rtable[w]

Heads ==
  /\ rtable["head"].at = "live" => HeadLike(conns[Socket("head")].server)
  /\ call.leaked.at = "live" /\ call.kind = "head" =>
       HeadLike(conns[socket(call.leaked)].server)
  /\ \A c \in DOMAIN conns : \A i \in DOMAIN conns[c].out :
       conns[c].out[i].kind = "head" => HeadLike(conns[c].server)
  /\ \A s \in puts : HeadLike(s)

ActHeads ==
  \A a \in Activation :
    /\ act[a].at \in {"compare", "leave_head", "join_head"} => HeadLike(act[a].min)
    /\ act[a].at = "join_head" => act[a].to \in {0, act[a].min}

HeadInv == ActHeads /\ ("write" \notin disturbed => PointerInv /\ Heads)

(* The connection c can be reached by a descriptor, or is being read. *)
Reached(c) == (\E f \in Fd : sock[f] = c) \/ (main \in Reading /\ c = call.conn)

(* Nothing is to be read there, nor ever will be: the server waits for a
   request, or has taken a body for a length. *)
Clean(k) == k.in = <<>> /\ (k.out # <<>> => Head(k.out).part = "body")

(* There is the present request, as far as it got. *)
Both == <<request("length"), request("body")>>
Owed(k) ==
  CASE main = "body" -> k.in = <<>> /\ k.out = <<request("length")>>
    [] main \in {"await_length", "read_length"} ->
         \/ k.in = <<>> /\ k.out = Both
         \/ k.in = Both /\ k.out = <<>>
    [] main \in {"await_body", "read_body"} ->
         k.in = <<request("body")>> /\ k.out = <<>>
    [] OTHER -> FALSE

Current == IF main \in Reading THEN call.conn ELSE CallSocket

AnswerInv ==
  /\ \A c \in DOMAIN conns :
       Reached(c) => Clean(conns[c]) \/ (c = Current /\ Owed(conns[c]))
  /\ main \in Reading =>
       ((\E f \in Fd : sock[f] = call.conn) => call.conn = CallSocket)

Node(w) == IF w = "head" THEN min_node ELSE max_node
Found(a, w) == IF w = "head" THEN act[a].min ELSE act[a].max
First(w) == IF w = "head" THEN Min(znodes) ELSE Max(znodes)

(* The activation a is about to replace the connection w. *)
Before(w) == IF w = "head" THEN {"leave_head"} ELSE {"leave_head", "join_head", "leave_tail"}
Replaces(a, w) == act[a].at = join(w) \/ (act[a].at \in Before(w) /\ w \in changed)

(* One activation at a time; whatever is open belongs to an rtable. *)
AloneInv ==
  /\ main \notin {"crashed", "quit_tail", "quit_close"}
  /\ act["watch"].at # "closed"
  /\ act["main"].at # "idle" => act["watch"].at = "idle"
  /\ call.leaked = Null
  /\ \A w \in Which :
       /\ rtable[w] = Freed => \E a \in Activation : act[a].at = join(w)
       /\ main \notin {"start", "stopped"} => rtable[w] # Null
       /\ \A a \in Activation : act[a].at = join(w) => rtable[w].at # "live"
  /\ \A f \in Fd : sock[f] # 0 => \E w \in Which : rtable[w] = Live(f)

(* While the watch is set, the nodes that were found are those of /chain. *)
FreshInv ==
  main # "stopped" =>
    /\ watch \/ event \/ \E a \in Activation : act[a].at = "list"
    /\ watch => \A w \in Which :
         /\ \A a \in Activation : act[a].at = "compare" => Found(a, w) = First(w)
         /\ (\A a \in Activation : act[a].at \notin {"list", "compare"}) =>
              Node(w) = First(w)

(* The connection that no activation is about to replace is that to its node. *)
SettledInv ==
  \A w \in Which :
    /\ \A a \in Activation :
         /\ act[a].at = "compare" => Found(a, w) # NoNode
         /\ act[a].at \in Before(w) \cup {join(w)} => Found(a, w) = Node(w)
         /\ act[a].at = join(w) => act[a].to \in {0, Node(w)}
    /\ Node(w) # NoNode /\ (\A a \in Activation : ~ Replaces(a, w)) =>
         rtable[w].at = "live" /\ conns[Socket(w)].server = Node(w)

(* A connection in use was closed by its server only because that has died. *)
OpenInv ==
  \A f \in Fd : sock[f] # 0 /\ conns[sock[f]].at = "closed" =>
    server[conns[sock[f]].server] = "gone"

Calm == AloneInv /\ FreshInv /\ SettledInv

CalmInv == disturbed = {} => Calm /\ OpenInv

ClientInv == TypeInv /\ HeadInv /\ AnswerInv /\ CalmInv
-----------------------------------------------------------------------------
(* A set of numbers that is not empty has a least one. *)
LEMMA LeastNatural ==
  ASSUME NEW S \in SUBSET Nat, S # {}
  PROVE  Min(S) \in S /\ \A m \in S : Min(S) <= m
<1>1. IsWellFoundedOn(OpToRel(<, Nat), Nat)
  BY NatLessThanWellFounded
<1>2. PICK n \in S : \A m \in S : ~ (<<m, n>> \in OpToRel(<, Nat))
  BY <1>1, WFMin
<1>3. \A m \in S : ~ (m < n)
  BY <1>2 DEF OpToRel
<1>4. \A m \in S : n <= m
  BY <1>3
<1> QED
  BY <1>4 DEF Min

(* A set of servers that is not empty has a highest one. *)
LEMMA HighestServer ==
  ASSUME NEW S \in SUBSET Server, S # {}
  PROVE  Max(S) \in S /\ \A m \in S : Max(S) >= m
<1> DEFINE below == {N - s : s \in S}
<1>1. N \in Nat /\ \A s \in S : s \in Nat /\ s <= N
  BY ClientAssumption DEF Server
<1>2. below \in SUBSET Nat /\ below # {}
  BY <1>1
<1> HIDE DEF below
<1>3. PICK n \in below : \A m \in below : n <= m
  BY <1>2, LeastNatural
<1>4. PICK s \in S : n = N - s
  BY <1>3 DEF below
<1>5. ASSUME NEW m \in S PROVE s >= m
  <2>1. N - m \in below
    BY DEF below
  <2>2. N - s <= N - m
    BY <1>3, <1>4, <2>1
  <2> QED
    BY <1>1, <2>2
<1> QED
  BY <1>5 DEF Max

LEMMA Facts ==
  /\ N \in Nat /\ MaxFd \in Nat /\ MaxCalls \in Nat
  /\ Server \subseteq 0 .. N /\ 0 \notin Server /\ Fd \subseteq Nat /\ 0 \notin Fd
  /\ Activation = {"main", "watch"} /\ Which = {"head", "tail"}
  /\ Mortal \subseteq Server
  BY ClientAssumption DEF Server, Fd, Activation, Which

(* The steps that abort the process. *)
Aborts ==
  \/ \E a \in Activation : ListEmpty(a) \/ \E w \in Which : LeaveAgain(a, w)
  \/ QuitAgain \/ QuitCloseAgain \/ StatsOfNull

(* The steps of a server's thread that give no answer. *)
Stops(c) == SendOnBlocks(c) \/ SendOnFails(c) \/ UnpackFails(c) \/ AnswerFails(c)

(* Every step is one of these.  Ends is the end of the process. *)
LEMMA Steps ==
  ASSUME Next
  PROVE  \/ \E how \in {"stopped", "crashed"} : Ends(how) /\ (how = "crashed" => Aborts)
         \/ \E s \in Server : Start(s) \/ Crash(s) \/ Publish(s) \/ Expire(s)
         \/ \E c \in DOMAIN conns : Serve(c) \/ Stops(c)
         \/ child_watcher
         \/ \E a \in Activation : ListChildren(a) \/ Compare(a)
         \/ \E a \in Activation : \E w \in Which :
              Unchanged(a, w) \/ Leave(a, w) \/ Join(a, w) \/ JoinFails(a, w)
         \/ Connected /\ main' = "idle"
         \/ NoAnswer \/ \E w \in Which : Request(w)
         \/ \E p \in {"length", "body"} : network_send_receive(p)
         \/ quit_fails("idle", "head", "quit_tail") \/ quit_fails("quit_tail", "tail", "quit_close")
         \/ QuitClose
<1>1. Aborts => Ends("crashed")
  BY DEF Aborts, ListEmpty, LeaveAgain, QuitAgain, QuitCloseAgain, StatsOfNull, Abort
<1>2. CASE Aborts \/ quits("idle", "head") \/ quits("quit_tail", "tail")
           \/ (Connected /\ main' # "idle")
  BY <1>1, <1>2 DEF quits, Connected
<1> QED
  BY <1>2, Facts DEF Next, Environment, Progress, Watcher, Servers, Quit, QuitHead,
     QuitTail, handle_client_connection, Aborts, Stops
-----------------------------------------------------------------------------
(* The types. *)
LEMMA ConnFacts ==
  ASSUME TypeInv
  PROVE  /\ conns \in Seq(Conn) /\ DOMAIN conns = 1 .. Len(conns) /\ Len(conns) \in Nat
         /\ \A c \in DOMAIN conns :
              /\ conns[c] \in Conn
              /\ conns[c].server \in Server
              /\ conns[c].out \in Seq(Piece) /\ conns[c].in \in Seq(Piece)
<1>1. conns \in Seq(Conn)
  BY DEF TypeInv, SockTypes
<1>2. DOMAIN conns = 1 .. Len(conns) /\ Len(conns) \in Nat
  BY <1>1
<1>3. ASSUME NEW c \in DOMAIN conns PROVE conns[c] \in Conn
  BY <1>1, <1>3
<1> QED
  BY <1>1, <1>2, <1>3 DEF Conn

LEMMA TypeInit == Init => TypeInv
<1> SUFFICES ASSUME Init PROVE TypeInv
  OBVIOUS
<1> USE Facts
<1>1. ChainTypes
  <2>1. PICK n \in 0 .. N : server = [s \in Server |-> IF s <= n THEN "up" ELSE "off"]
    BY DEF Init
  <2> QED
    BY <2>1 DEF Init, ChainTypes, Alive, Server
<1>2. WatchTypes
  <2>1. Idle \in Act /\ [Idle EXCEPT !.at = "list"] \in Act
    BY DEF Idle, Act, Stages
  <2> QED
    <3>1. act \in [Activation -> Act]
      BY <2>1 DEF Init
    <3>2. min_node \in 0 .. N /\ max_node \in 0 .. N
      BY DEF Init, NoNode
    <3> QED
      BY <3>1, <3>2 DEF Init, WatchTypes
<1>3. SockTypes
  BY DEF Init, SockTypes, Rtable
<1>4. CallTypes
  BY DEF Init, CallTypes, Places, Reading, NoCall, Rtable, Null, Freed
<1> QED
  BY <1>1, <1>2, <1>3, <1>4 DEF TypeInv

LEMMA TypeEnds ==
  ASSUME TypeInv, NEW how \in {"stopped", "crashed"}, Ends(how)
  PROVE  TypeInv'
<1> USE Facts
<1>1. ChainTypes'
  BY DEF Ends, TypeInv, ChainTypes, chainvars
<1>2. WatchTypes'
  <2>1. Idle \in Act
    BY DEF Idle, Act, Stages
  <2> QED
    <3>1. act' \in [Activation -> Act]
      BY <2>1 DEF Ends
    <3>2. min_node' \in 0 .. N /\ max_node' \in 0 .. N
      BY DEF Ends, NoNode
    <3> QED
      BY <3>1, <3>2 DEF Ends, WatchTypes
<1>3. SockTypes'
  BY DEF Ends, TypeInv, SockTypes, Rtable
<1>4. CallTypes'
  BY DEF Ends, TypeInv, CallTypes, Places, Reading, NoCall, Rtable, Null, Freed
<1> QED
  BY <1>1, <1>2, <1>3, <1>4 DEF TypeInv

(* A connection whose end the server has closed. *)
LEMMA HungFacts ==
  ASSUME NEW k \in Conn
  PROVE  /\ Hung(k) \in Conn /\ Hung(k).at = "closed" /\ Hung(k).out = <<>>
         /\ Hung(k).server = k.server /\ Hung(k).in = k.in
<1>1. <<>> \in Seq(Piece)
  OBVIOUS
<1> QED
  BY <1>1 DEF Hung, Conn

(* A server dies. *)
LEMMA CrashEffect ==
  ASSUME TypeInv, NEW s \in Server, Crash(s)
  PROVE  /\ conns' \in Seq(Conn) /\ Len(conns') = Len(conns) /\ DOMAIN conns' = DOMAIN conns
         /\ \A c \in DOMAIN conns :
              /\ conns'[c].server = conns[c].server /\ conns'[c].in = conns[c].in
              /\ \/ conns'[c] = conns[c]
                 \/ /\ conns'[c].at = "closed" /\ conns'[c].out = <<>>
                    /\ conns[c].server = s
<1>1. conns \in Seq(Conn)
  BY ConnFacts
<1>2. conns' = [c \in DOMAIN conns |->
        IF conns[c].server = s THEN Hung(conns[c]) ELSE conns[c]]
  BY DEF Crash
<1>3. \A c \in DOMAIN conns : conns[c] \in Conn /\ Hung(conns[c]) \in Conn
  BY ConnFacts, HungFacts
<1>4. conns' \in Seq(Conn) /\ Len(conns') = Len(conns) /\ DOMAIN conns' = DOMAIN conns
  BY <1>1, <1>2, <1>3
<1>5. ASSUME NEW c \in DOMAIN conns
      PROVE  /\ conns'[c].server = conns[c].server /\ conns'[c].in = conns[c].in
             /\ \/ conns'[c] = conns[c]
                \/ /\ conns'[c].at = "closed" /\ conns'[c].out = <<>>
                   /\ conns[c].server = s
  <2>1. CASE conns[c].server = s
    BY <1>2, <1>3, <2>1, HungFacts
  <2>2. CASE conns[c].server # s
    BY <1>2, <2>2
  <2> QED
    BY <2>1, <2>2
<1> QED
  BY <1>4, <1>5

(* What the servers and ZooKeeper do, to the client. *)
LEMMA TypeServers ==
  ASSUME TypeInv, NEW s \in Server, Start(s) \/ Crash(s) \/ Publish(s) \/ Expire(s)
  PROVE  TypeInv'
<1> USE Facts
<1>1. /\ act' = act /\ min_node' = min_node /\ max_node' = max_node /\ changed' = changed
      /\ rtable' = rtable /\ sock' = sock /\ UNCHANGED mainvars /\ puts' = puts
      /\ watch' \in BOOLEAN /\ event' \in BOOLEAN
  BY DEF Start, Crash, Publish, Expire, Changes, chainvars, watchvars, nodevars,
     TypeInv, WatchTypes
<1>2. ChainTypes'
  <2>1. CASE Start(s)
    <3>1. server' = [server EXCEPT ![s] = "created"] /\ znodes' = znodes \cup {s}
      BY <2>1 DEF Start, Changes
    <3>2. \A u \in Server : \A t \in 1 .. u - 1 : server'[u] # "off" => server'[t] # "off"
      BY <2>1, <3>1 DEF Start, TypeInv, ChainTypes, Server
    <3>3. \A u \in Server : server[u] # "off" => server'[u] # "off"
      BY <3>1 DEF TypeInv, ChainTypes
    <3>4. server'[s] # "off"
      BY <3>1 DEF TypeInv, ChainTypes
    <3>5. znodes' \subseteq {u \in Server : server'[u] # "off"}
      BY <3>1, <3>3, <3>4 DEF TypeInv, ChainTypes
    <3> QED
      BY <3>1, <3>2, <3>5 DEF TypeInv, ChainTypes
  <2>2. CASE Crash(s) \/ Publish(s)
    <3>1. /\ server' = [server EXCEPT ![s] = "gone"] \/ server' = [server EXCEPT ![s] = "up"]
          /\ server[s] # "off" /\ znodes' = znodes
      BY <2>2 DEF Crash, Publish, Alive
    <3>2. \A u \in Server : server[u] # "off" <=> server'[u] # "off"
      BY <3>1 DEF TypeInv, ChainTypes
    <3>3. \A u \in Server : \A t \in 1 .. u - 1 : t \in Server
      BY DEF Server
    <3> QED
      BY <3>1, <3>2, <3>3 DEF TypeInv, ChainTypes
  <2>3. CASE Expire(s)
    BY <2>3 DEF Expire, Changes, TypeInv, ChainTypes
  <2> QED
    BY <2>1, <2>2, <2>3
<1>3. WatchTypes'
  BY <1>1 DEF TypeInv, WatchTypes
<1>4. CASE Crash(s)
  <2>1. \A c \in DOMAIN conns' : conns'[c].at = "closed" => conns'[c].out = <<>>
    BY <1>4, CrashEffect DEF TypeInv, SockTypes
  <2>2. SockTypes'
    BY <1>1, <1>4, <2>1, CrashEffect DEF TypeInv, SockTypes
  <2>3. CallTypes'
    BY <1>1, <1>4, CrashEffect DEF TypeInv, CallTypes, mainvars
  <2> QED
    BY <1>2, <1>3, <2>2, <2>3 DEF TypeInv
<1>5. CASE Start(s) \/ Publish(s) \/ Expire(s)
  <2>1. conns' = conns
    BY <1>5 DEF Start, Publish, Expire, Changes
  <2>2. SockTypes' /\ CallTypes'
    BY <1>1, <2>1 DEF TypeInv, SockTypes, CallTypes, mainvars
  <2> QED
    BY <1>2, <1>3, <2>2 DEF TypeInv
<1> QED
  BY <1>4, <1>5

(* A server answers. *)
LEMMA ServeEffect ==
  ASSUME TypeInv, NEW c \in DOMAIN conns, Serve(c)
  PROVE  /\ conns' \in Seq(Conn) /\ Len(conns') = Len(conns) /\ DOMAIN conns' = DOMAIN conns
         /\ Len(conns[c].out) >= 2 /\ conns[c].out[1].part = "length"
         /\ conns[c].out[2] \in Piece /\ conns[c].out[2].part = "body"
         /\ conns'[c].server = conns[c].server /\ conns'[c].at = "serving"
         /\ conns'[c].out = SubSeq(conns[c].out, 3, Len(conns[c].out))
         /\ conns'[c].in = conns[c].in \o <<[conns[c].out[2] EXCEPT !.part = "length"],
                                           conns[c].out[2]>>
         /\ \A d \in DOMAIN conns : d # c => conns'[d] = conns[d]
         /\ puts' = IF conns[c].out[2].kind = "head" THEN puts \cup {conns[c].server} ELSE puts
<1> DEFINE k == conns[c]
           rest == SubSeq(k.out, 3, Len(k.out))
           more == k.in \o <<[k.out[2] EXCEPT !.part = "length"], k.out[2]>>
           new == [k EXCEPT !.at = "serving", !.out = rest, !.in = more]
<1>1. k \in Conn /\ k.out \in Seq(Piece) /\ k.in \in Seq(Piece)
  BY ConnFacts
<1>2. /\ Len(k.out) >= 2 /\ k.out[1].part = "length" /\ k.out[2].part = "body"
      /\ conns' = [conns EXCEPT ![c] = new]
      /\ puts' = IF conns[c].out[2].kind = "head" THEN puts \cup {conns[c].server} ELSE puts
  BY <1>1 DEF Serve, Message, does_put, Conn
<1>3. k.out[2] \in Piece
  BY <1>1, <1>2
<1>4. rest \in Seq(Piece)
  BY <1>1, <1>2
<1>5. more \in Seq(Piece)
  <2>1. [k.out[2] EXCEPT !.part = "length"] \in Piece
    BY <1>3 DEF Piece
  <2> QED
    BY <1>1, <1>3, <2>1
<1> HIDE DEF rest, more
<1>6. /\ new \in Conn /\ new.server = k.server /\ new.at = "serving"
      /\ new.out = rest /\ new.in = more
  BY <1>1, <1>4, <1>5 DEF Conn
<1> HIDE DEF new
<1>7. conns \in Seq(Conn)
  BY ConnFacts
<1>8. conns' \in Seq(Conn) /\ Len(conns') = Len(conns) /\ DOMAIN conns' = DOMAIN conns
  BY <1>2, <1>6, <1>7
<1> QED
  BY <1>2, <1>3, <1>6, <1>7, <1>8 DEF rest, more

(* A server's thread is stuck, or closes the connection. *)
LEMMA StopsEffect ==
  ASSUME TypeInv, NEW c \in DOMAIN conns, Stops(c)
  PROVE  /\ conns' \in Seq(Conn) /\ Len(conns') = Len(conns) /\ DOMAIN conns' = DOMAIN conns
         /\ conns'[c].server = conns[c].server /\ conns'[c].in = conns[c].in
         /\ \/ conns'[c].at = "stuck" /\ conns'[c].out = conns[c].out
            \/ /\ conns'[c].at = "closed" /\ conns'[c].out = <<>>
               /\ (\E f \in Fd : sock[f] = c) => disturbed' # {}
         /\ \A d \in DOMAIN conns : d # c => conns'[d] = conns[d]
         /\ \/ puts' = puts
            \/ /\ Len(conns[c].out) >= 2 /\ conns[c].out[2].kind = "head"
               /\ puts' = puts \cup {conns[c].server}
         /\ disturbed \subseteq disturbed'
         /\ UNCHANGED <<chainvars, watchvars, act, nodevars, rtable, sock, mainvars>>
<1> DEFINE stuck == [conns[c] EXCEPT !.at = "stuck"]
<1>1. conns \in Seq(Conn) /\ conns[c] \in Conn
  BY ConnFacts
<1>2. /\ stuck \in Conn /\ stuck.at = "stuck" /\ stuck.out = conns[c].out
      /\ stuck.server = conns[c].server /\ stuck.in = conns[c].in
  BY <1>1 DEF Conn
<1>3. UNCHANGED <<chainvars, watchvars, act, nodevars, rtable, sock, mainvars>>
  BY DEF Stops, SendOnBlocks, SendOnFails, UnpackFails, AnswerFails, hangs_up
<1>4. /\ disturbed \subseteq disturbed'
      /\ \/ puts' = puts
         \/ /\ Len(conns[c].out) >= 2 /\ conns[c].out[2].kind = "head"
            /\ puts' = puts \cup {conns[c].server}
      /\ \/ conns' = [conns EXCEPT ![c] = stuck]
         \/ /\ conns' = [conns EXCEPT ![c] = Hung(conns[c])]
            /\ (\E f \in Fd : sock[f] = c) => disturbed' # {}
  <2>1. CASE SendOnBlocks(c)
    BY <2>1 DEF SendOnBlocks
  <2>2. CASE SendOnFails(c) \/ UnpackFails(c) \/ AnswerFails(c)
    <3>1. hangs_up(c)
      BY <2>2 DEF SendOnFails, UnpackFails, AnswerFails
    <3>2. \/ puts' = puts
          \/ /\ Len(conns[c].out) >= 2 /\ conns[c].out[2].kind = "head"
             /\ puts' = puts \cup {conns[c].server}
      BY <2>2 DEF SendOnFails, UnpackFails, AnswerFails, Message, does_put
    <3> QED
      BY <3>1, <3>2 DEF hangs_up
  <2> QED
    BY <2>1, <2>2 DEF Stops
<1> HIDE DEF stuck
<1> DEFINE new == conns'[c]
<1>5. /\ new \in Conn /\ conns' = [conns EXCEPT ![c] = new]
      /\ new.server = conns[c].server /\ new.in = conns[c].in
      /\ \/ new.at = "stuck" /\ new.out = conns[c].out
         \/ /\ new.at = "closed" /\ new.out = <<>>
            /\ (\E f \in Fd : sock[f] = c) => disturbed' # {}
  BY <1>1, <1>2, <1>4, HungFacts
<1> HIDE DEF new
<1>6. /\ conns' \in Seq(Conn) /\ Len(conns') = Len(conns) /\ DOMAIN conns' = DOMAIN conns
      /\ \A d \in DOMAIN conns : d # c => conns'[d] = conns[d]
  BY <1>1, <1>5
<1> QED
  BY <1>3, <1>4, <1>5, <1>6 DEF new

LEMMA TypeServe ==
  ASSUME TypeInv, NEW c \in DOMAIN conns, Serve(c) \/ Stops(c)
  PROVE  TypeInv'
<1>1. UNCHANGED <<chainvars, watchvars, act, nodevars, rtable, sock, mainvars>>
  BY StopsEffect DEF Serve
<1>2. ChainTypes' /\ WatchTypes'
  BY <1>1 DEF TypeInv, ChainTypes, WatchTypes, chainvars, watchvars, nodevars
<1>3. /\ conns' \in Seq(Conn) /\ Len(conns') = Len(conns) /\ DOMAIN conns' = DOMAIN conns
      /\ conns'[c].at = "closed" => conns'[c].out = <<>>
      /\ \A d \in DOMAIN conns : d # c => conns'[d] = conns[d]
      /\ puts' = puts \/ puts' = puts \cup {conns[c].server}
  <2>1. CASE Serve(c)
    BY <2>1, ServeEffect
  <2>2. CASE Stops(c)
    BY <2>2, StopsEffect
  <2> QED
    BY <2>1, <2>2
<1>4. SockTypes'
  <2>1. \A d \in DOMAIN conns' : conns'[d].at = "closed" => conns'[d].out = <<>>
    BY <1>3 DEF TypeInv, SockTypes
  <2> QED
    BY <1>1, <1>3, <2>1 DEF TypeInv, SockTypes
<1>5. CallTypes'
  <2>1. conns[c].server \in Server
    BY ConnFacts
  <2> QED
    BY <1>1, <1>3, <2>1 DEF TypeInv, CallTypes, mainvars
<1> QED
  BY <1>2, <1>4, <1>5 DEF TypeInv

(* What an activation of handle_client_connection finds and compares. *)
LEMMA TypeAct ==
  ASSUME TypeInv,
         \/ child_watcher
         \/ \E a \in Activation : ListChildren(a) \/ Compare(a)
         \/ \E a \in Activation : \E w \in Which : Unchanged(a, w)
  PROVE  TypeInv'
<1> USE Facts
<1>1. UNCHANGED <<chainvars, rtable, sock, conns, mainvars, puts>>
  BY DEF child_watcher, ListChildren, Compare, Unchanged
<1>2. ChainTypes' /\ SockTypes' /\ CallTypes'
  BY <1>1 DEF TypeInv, ChainTypes, SockTypes, CallTypes, chainvars, mainvars, Alive
<1>3. WatchTypes'
  <2> USE DEF TypeInv, WatchTypes
  <2>1. ASSUME NEW a \in Activation, NEW x \in Stages
        PROVE  [act EXCEPT ![a].at = x] \in [Activation -> Act]
    BY DEF Act
  <2>2. CASE child_watcher
    <3>1. act' = [act EXCEPT !["watch"].at = "list"] /\ "list" \in Stages
      BY <2>2 DEF child_watcher, goes, Stages
    <3> QED
      BY <2>1, <2>2, <3>1 DEF child_watcher, nodevars
  <2>3. ASSUME NEW a \in Activation, ListChildren(a) PROVE WatchTypes'
    <3> DEFINE found == [at |-> "compare", min |-> Min(znodes), max |-> Max(znodes), to |-> 0]
    <3>1. znodes \in SUBSET Server /\ znodes \in SUBSET Nat /\ znodes # {}
      BY <2>3 DEF ListChildren, ChainTypes
    <3>2. Min(znodes) \in Server /\ Max(znodes) \in Server
      BY <3>1, LeastNatural, HighestServer
    <3>3. found \in Act
      <4>1. Min(znodes) \in 0 .. N /\ Max(znodes) \in 0 .. N
        BY <3>2
      <4>2. 0 \in 0 .. N
        OBVIOUS
      <4> QED
        BY <4>1, <4>2 DEF Act, Stages
    <3>4. act' = [act EXCEPT ![a] = found] /\ watch' = TRUE /\ event' = event
          /\ UNCHANGED nodevars
      BY <2>3 DEF ListChildren
    <3> HIDE DEF found
    <3> QED
      BY <3>3, <3>4 DEF nodevars
  <2>4. ASSUME NEW a \in Activation, Compare(a) PROVE WatchTypes'
    <3>1. act[a] \in Act
      OBVIOUS
    <3>2. act[a].min \in 0 .. N /\ act[a].max \in 0 .. N
      BY <3>1 DEF Act
    <3>3. act' = [act EXCEPT ![a].at = "leave_head"] /\ "leave_head" \in Stages
      BY <2>4 DEF Compare, goes, Stages
    <3> QED
      BY <2>1, <2>4, <3>2, <3>3 DEF Compare, watchvars
  <2>5. ASSUME NEW a \in Activation, NEW w \in Which, Unchanged(a, w) PROVE WatchTypes'
    <3>1. Idle \in Act /\ [act[a] EXCEPT !.at = "leave_tail"] \in Act
      BY DEF Idle, Act, Stages
    <3>2. /\ UNCHANGED <<watchvars, nodevars>>
          /\ act' = [act EXCEPT ![a] = IF w = "head" THEN [@ EXCEPT !.at = "leave_tail"] ELSE Idle]
      BY <2>5 DEF Unchanged, advances
    <3> QED
      BY <3>1, <3>2 DEF watchvars, nodevars
  <2> QED
    BY <2>2, <2>3, <2>4, <2>5
<1> QED
  BY <1>2, <1>3 DEF TypeInv

(* rtable_disconnect. *)
LEMMA TypeDisconnect ==
  ASSUME TypeInv, NEW w \in Which, disconnect(w), conns' = conns, server' = server
  PROVE  SockTypes'
<1> USE Facts
<1>1. rtable[w] \in Rtable /\ rtable[w] # Freed
  BY DEF disconnect, TypeInv, SockTypes, Freed
<1>2. rtable' \in [Which -> Rtable]
  BY <1>1 DEF disconnect, TypeInv, SockTypes, Rtable
<1>3. sock' = sock \/ \E f \in Fd : sock' = [sock EXCEPT ![f] = 0]
  <2>1. CASE rtable[w] = Null
    BY <2>1 DEF disconnect
  <2>2. CASE rtable[w] # Null
    <3>1. PICK f \in Fd : rtable[w] = Live(f)
      BY <1>1, <2>2 DEF Rtable
    <3>2. rtable[w].fd = f
      BY <3>1 DEF Live
    <3> QED
      BY <2>2, <3>2 DEF disconnect
  <2> QED
    BY <2>1, <2>2
<1>4. /\ sock' \in [Fd -> 0 .. Len(conns)]
      /\ \A f, g \in Fd : sock'[f] # 0 /\ sock'[f] = sock'[g] => f = g
  BY <1>3, ConnFacts DEF TypeInv, SockTypes
<1> QED
  BY <1>2, <1>4 DEF TypeInv, SockTypes

LEMMA TypeLeave ==
  ASSUME TypeInv, NEW a \in Activation, NEW w \in Which, Leave(a, w)
  PROVE  TypeInv'
<1> USE Facts
<1> DEFINE n == IF w = "head" THEN act[a].min ELSE act[a].max
           to == IF n \in znodes /\ server[n] # "created" THEN n ELSE 0
<1>1. /\ act' = [act EXCEPT ![a].at = join(w), ![a].to = to]
      /\ disconnect(w) /\ torn' = (torn \/ uses(w) \/ (Calling /\ CallSocket = Socket(w)))
      /\ UNCHANGED <<chainvars, watchvars, nodevars, conns, main, call, calls,
                     disturbed, puts>>
  BY DEF Leave
<1>2. ChainTypes' /\ CallTypes'
  BY <1>1 DEF TypeInv, ChainTypes, CallTypes, chainvars
<1>3. act[a] \in Act
  BY DEF TypeInv, WatchTypes
<1>4. to \in 0 .. N /\ join(w) \in Stages
  BY <1>3 DEF Act, join, Stages
<1> HIDE DEF to, n
<1>5. act' \in [Activation -> Act]
  BY <1>1, <1>3, <1>4 DEF TypeInv, WatchTypes, Act
<1>6. WatchTypes'
  BY <1>1, <1>5 DEF TypeInv, WatchTypes, watchvars, nodevars
<1>7. SockTypes'
  BY <1>1, TypeDisconnect DEF chainvars
<1> QED
  BY <1>2, <1>6, <1>7 DEF TypeInv

(* rtable_connect, with the descriptor that it gets. *)
LEMMA JoinEffect ==
  ASSUME TypeInv, NEW a \in Activation, NEW w \in Which, Join(a, w)
  PROVE  /\ act[a].at = join(w) /\ act[a].to \in Server /\ Alive(act[a].to)
         /\ Min(Unused) \in Fd /\ sock[Min(Unused)] = 0
         /\ Live(Min(Unused)) \in Rtable
         /\ sock' = [sock EXCEPT ![Min(Unused)] = Len(conns) + 1]
         /\ rtable' = [rtable EXCEPT ![w] = Live(Min(Unused))]
         /\ call' = IF uses(w) /\ rtable[w].at = "live"
                    THEN [call EXCEPT !.leaked = rtable[w]] ELSE call
         /\ conns' \in Seq(Conn) /\ Len(conns') = Len(conns) + 1
         /\ DOMAIN conns' = 1 .. Len(conns) + 1
         /\ \A c \in DOMAIN conns : conns'[c] = conns[c]
         /\ conns'[Len(conns) + 1] = [server |-> act[a].to, at |-> "serving",
                                       out |-> <<>>, in |-> <<>>]
         /\ UNCHANGED <<chainvars, watchvars, nodevars, main, calls, torn, disturbed, puts>>
<1> USE Facts
<1> DEFINE new == [server |-> act[a].to, at |-> "serving", out |-> <<>>, in |-> <<>>]
<1>1. /\ act[a].at = join(w) /\ act[a].to # 0 /\ Alive(act[a].to) /\ Unused # {}
      /\ conns' = Append(conns, new)
      /\ sock' = [sock EXCEPT ![Min(Unused)] = Len(conns) + 1]
      /\ rtable' = [rtable EXCEPT ![w] = Live(Min(Unused))]
      /\ call' = IF uses(w) /\ rtable[w].at = "live"
                 THEN [call EXCEPT !.leaked = rtable[w]] ELSE call
      /\ UNCHANGED <<chainvars, watchvars, nodevars, main, calls, torn, disturbed, puts>>
  BY DEF Join, assigns
<1>2. Min(Unused) \in Unused
  <2>1. Unused \in SUBSET Nat
    BY DEF Unused
  <2> QED
    BY <1>1, <2>1, LeastNatural
<1>3. act[a].to \in Server
  <2>1. act[a] \in Act
    BY DEF TypeInv, WatchTypes
  <2> QED
    BY <1>1, <2>1 DEF Act, Server
<1>4. new \in Conn
  BY <1>3 DEF Conn
<1> HIDE DEF new
<1>5. /\ conns' \in Seq(Conn) /\ Len(conns') = Len(conns) + 1
      /\ DOMAIN conns' = 1 .. Len(conns) + 1
      /\ \A c \in DOMAIN conns : conns'[c] = conns[c]
      /\ conns'[Len(conns) + 1] = new
  BY <1>1, <1>4, ConnFacts
<1> QED
  BY <1>1, <1>2, <1>3, <1>5 DEF Unused, Rtable, new

LEMMA TypeJoin ==
  ASSUME TypeInv, NEW a \in Activation, NEW w \in Which, Join(a, w)
  PROVE  TypeInv'
<1> USE Facts
<1> DEFINE f == Min(Unused)
           l == Len(conns)
<1>1. l \in Nat /\ f \in Fd /\ sock[f] = 0 /\ DOMAIN conns = 1 .. l
  BY JoinEffect, ConnFacts
<1>2. ChainTypes' /\ Len(conns') = l + 1
  BY JoinEffect DEF TypeInv, ChainTypes, chainvars
<1>3. act' \in [Activation -> Act]
  <2>1. act[a] \in Act
    BY DEF TypeInv, WatchTypes
  <2>2. Idle \in Act /\ [act[a] EXCEPT !.at = "leave_tail"] \in Act
    BY <2>1 DEF Idle, Act, Stages
  <2>3. act' = [act EXCEPT ![a] = IF w = "head" THEN [@ EXCEPT !.at = "leave_tail"] ELSE Idle]
    BY DEF Join, advances
  <2> QED
    BY <2>2, <2>3 DEF TypeInv, WatchTypes
<1>4. WatchTypes'
  BY <1>3, JoinEffect DEF TypeInv, WatchTypes, watchvars, nodevars
<1>5. /\ sock' \in [Fd -> 0 .. l + 1]
      /\ \A g, h \in Fd : sock'[g] # 0 /\ sock'[g] = sock'[h] => g = h
  <2>1. sock' = [sock EXCEPT ![f] = l + 1]
    BY JoinEffect
  <2> HIDE DEF f
  <2> QED
    BY <1>1, <2>1 DEF TypeInv, SockTypes
<1>6. \A c \in DOMAIN conns' : conns'[c].at = "closed" => conns'[c].out = <<>>
  <2> SUFFICES ASSUME NEW c \in 1 .. l + 1, conns'[c].at = "closed"
               PROVE  conns'[c].out = <<>>
    BY <1>1, JoinEffect
  <2>1. CASE c = l + 1
    BY <2>1, JoinEffect
  <2>2. CASE c \in DOMAIN conns
    BY <2>2, JoinEffect DEF TypeInv, SockTypes
  <2> QED
    BY <1>1, <2>1, <2>2
<1>7. SockTypes'
  <2>1. rtable' \in [Which -> Rtable]
    BY JoinEffect DEF TypeInv, SockTypes
  <2> QED
    BY <1>2, <1>5, <1>6, <2>1, JoinEffect DEF SockTypes
<1>8. CallTypes'
  <2>1. call \in [kind : Which, conn : 0 .. l + 1, leaked : Rtable \ {Freed}]
    BY <1>1 DEF TypeInv, CallTypes
  <2>2. rtable[w] \in Rtable
    BY DEF TypeInv, SockTypes
  <2>3. call' \in [kind : Which, conn : 0 .. l + 1, leaked : Rtable \ {Freed}]
    BY <2>1, <2>2, JoinEffect DEF Freed
  <2> QED
    BY <1>2, <2>3, JoinEffect DEF TypeInv, CallTypes
<1> QED
  BY <1>2, <1>4, <1>7, <1>8 DEF TypeInv

LEMMA TypeJoinFails ==
  ASSUME TypeInv, NEW a \in Activation, NEW w \in Which, JoinFails(a, w)
  PROVE  TypeInv'
<1> USE Facts
<1>1. /\ rtable' = [rtable EXCEPT ![w] = Null]
      /\ call' = IF uses(w) /\ rtable[w].at = "live"
                 THEN [call EXCEPT !.leaked = rtable[w]] ELSE call
      /\ act' = [act EXCEPT ![a] = Idle]
      /\ UNCHANGED <<chainvars, watchvars, nodevars, sock, conns, main, calls, torn, puts>>
  BY DEF JoinFails, assigns
<1>2. ChainTypes'
  BY <1>1 DEF TypeInv, ChainTypes, chainvars
<1>3. Idle \in Act
  BY DEF Idle, Act, Stages
<1>4. WatchTypes'
  BY <1>1, <1>3 DEF TypeInv, WatchTypes, watchvars, nodevars
<1>5. SockTypes'
  BY <1>1 DEF TypeInv, SockTypes, Rtable
<1>6. call' \in [kind : Which, conn : 0 .. Len(conns), leaked : Rtable \ {Freed}]
  <2>1. rtable[w] \in Rtable
    BY DEF TypeInv, SockTypes
  <2> QED
    BY <1>1, <2>1 DEF TypeInv, CallTypes, Freed
<1> QED
  BY <1>1, <1>2, <1>4, <1>5, <1>6 DEF TypeInv, CallTypes

(* The connection that a request works with is one that was made. *)
LEMMA CallSocketType ==
  ASSUME TypeInv
  PROVE  /\ CallSocket \in 0 .. Len(conns)
         /\ CallSocket # 0 =>
              /\ CallSocket \in DOMAIN conns
              /\ given.at = "live" /\ given.fd \in Fd /\ sock[given.fd] = CallSocket
<1> USE Facts
<1>1. given \in Rtable
  BY DEF given, TypeInv, SockTypes, CallTypes
<1>2. CASE given = Null \/ given = Freed
  BY <1>2, ConnFacts DEF CallSocket, socket, Null, Freed
<1>3. ASSUME NEW f \in Fd, given = Live(f)
      PROVE  CallSocket = sock[f] /\ given.fd = f /\ given.at = "live"
  BY <1>3 DEF CallSocket, socket, Live
<1>4. \A f \in Fd : sock[f] \in 0 .. Len(conns)
  BY DEF TypeInv, SockTypes
<1> QED
  BY <1>1, <1>2, <1>3, <1>4, ConnFacts DEF Rtable

(* A request, one step at a time. *)
LEMMA SendEffect ==
  ASSUME TypeInv, NEW p \in {"length", "body"}, Send(p)
  PROVE  /\ main = p /\ main' = next_part(p) /\ call' = call
         /\ CallSocket \in DOMAIN conns /\ conns[CallSocket].at # "closed"
         /\ request(p) \in Piece
         /\ conns' \in Seq(Conn) /\ Len(conns') = Len(conns) /\ DOMAIN conns' = DOMAIN conns
         /\ conns'[CallSocket].server = conns[CallSocket].server
         /\ conns'[CallSocket].in = conns[CallSocket].in
         /\ conns'[CallSocket].at = conns[CallSocket].at
         /\ conns'[CallSocket].out = Append(conns[CallSocket].out, request(p))
         /\ \A d \in DOMAIN conns : d # CallSocket => conns'[d] = conns[d]
         /\ UNCHANGED <<chainvars, watchvars, act, nodevars, rtable, sock, calls, torn,
                        disturbed, puts>>
<1> USE Facts
<1> DEFINE c == CallSocket
           k == conns[c]
           new == [k EXCEPT !.out = Append(k.out, request(p))]
<1>1. /\ main = p /\ main' = next_part(p) /\ call' = call /\ c # 0 /\ k.at # "closed"
      /\ conns' = [conns EXCEPT ![c].out = Append(k.out, request(p))]
      /\ UNCHANGED <<chainvars, watchvars, act, nodevars, rtable, sock, calls, torn,
                     disturbed, puts>>
  BY DEF Send, steps
<1>2. c \in DOMAIN conns
  BY <1>1, CallSocketType
<1>3. request(p) \in Piece
  BY DEF request, Piece, TypeInv, CallTypes
<1>4. k \in Conn /\ k.out \in Seq(Piece) /\ conns \in Seq(Conn)
  BY <1>2, ConnFacts
<1>5. Append(k.out, request(p)) \in Seq(Piece)
  BY <1>3, <1>4
<1>6. /\ new \in Conn /\ new.server = k.server /\ new.in = k.in /\ new.at = k.at
      /\ new.out = Append(k.out, request(p))
  BY <1>4, <1>5 DEF Conn
<1>7. conns' = [conns EXCEPT ![c] = new]
  BY <1>1, <1>2, <1>4 DEF Conn
<1> HIDE DEF new, c
<1>8. /\ conns' \in Seq(Conn) /\ Len(conns') = Len(conns) /\ DOMAIN conns' = DOMAIN conns
      /\ conns'[c] = new /\ \A d \in DOMAIN conns : d # c => conns'[d] = conns[d]
  BY <1>2, <1>4, <1>6, <1>7
<1> QED
  BY <1>1, <1>2, <1>3, <1>6, <1>8 DEF c

LEMMA ReceiveEffect ==
  ASSUME TypeInv, NEW p \in {"length", "body"}, Receive(p)
  PROVE  /\ main = read(p) /\ main' \notin Reading /\ call.conn \in DOMAIN conns
         /\ call' = call \/ call' = NoCall
         /\ conns[call.conn].in # <<>>
         /\ conns' \in Seq(Conn) /\ Len(conns') = Len(conns) /\ DOMAIN conns' = DOMAIN conns
         /\ conns'[call.conn].server = conns[call.conn].server
         /\ conns'[call.conn].at = conns[call.conn].at
         /\ conns'[call.conn].out = conns[call.conn].out
         /\ conns'[call.conn].in = Tail(conns[call.conn].in)
         /\ \A d \in DOMAIN conns : d # call.conn => conns'[d] = conns[d]
<1> DEFINE c == call.conn
           k == conns[c]
           new == [k EXCEPT !.in = Tail(k.in)]
<1>1. /\ main = read(p) /\ k.in # <<>>
      /\ conns' = [conns EXCEPT ![c].in = Tail(k.in)]
      /\ main' \notin Reading /\ (call' = call \/ call' = NoCall)
  BY DEF Receive, steps, ends, Reading
<1>2. c \in DOMAIN conns
  <2>1. call.conn \in 0 .. Len(conns) /\ main \in Reading
    BY <1>1 DEF TypeInv, CallTypes, read, Reading
  <2> QED
    BY <2>1, ConnFacts DEF TypeInv, CallTypes
<1>3. k \in Conn /\ k.in \in Seq(Piece) /\ conns \in Seq(Conn)
  BY <1>2, ConnFacts
<1>4. Tail(k.in) \in Seq(Piece)
  BY <1>1, <1>3
<1>5. /\ new \in Conn /\ new.server = k.server /\ new.at = k.at
      /\ new.out = k.out /\ new.in = Tail(k.in)
  BY <1>3, <1>4 DEF Conn
<1>6. conns' = [conns EXCEPT ![c] = new]
  BY <1>1, <1>2, <1>3 DEF Conn
<1> HIDE DEF new, c
<1>7. /\ conns' \in Seq(Conn) /\ Len(conns') = Len(conns) /\ DOMAIN conns' = DOMAIN conns
      /\ conns'[c] = new /\ \A d \in DOMAIN conns : d # c => conns'[d] = conns[d]
  BY <1>2, <1>3, <1>5, <1>6
<1> QED
  BY <1>1, <1>2, <1>5, <1>7 DEF c

(* What a step of main leaves alone when it writes and reads nothing. *)
LEMMA TypeMain ==
  ASSUME TypeInv, UNCHANGED <<chainvars, rtable, conns, puts>>, WatchTypes',
         \/ sock' = sock
         \/ \E f \in Fd : sock' = [sock EXCEPT ![f] = 0],
         main' \in Places, calls' \in 0 .. MaxCalls,
         \/ call' = call \/ call' = NoCall
         \/ \E w \in Which : call' = [NoCall EXCEPT !.kind = w]
         \/ call' = [call EXCEPT !.conn = CallSocket],
         main' \in Reading => call'.conn # 0
  PROVE  TypeInv'
<1> USE Facts
<1>1. ChainTypes'
  BY DEF TypeInv, ChainTypes, chainvars
<1>2. SockTypes'
  <2>1. /\ sock' \in [Fd -> 0 .. Len(conns)]
        /\ \A f, g \in Fd : sock'[f] # 0 /\ sock'[f] = sock'[g] => f = g
    <3>1. CASE sock' = sock
      BY <3>1 DEF TypeInv, SockTypes
    <3>2. ASSUME NEW h \in Fd, sock' = [sock EXCEPT ![h] = 0]
          PROVE  /\ sock' \in [Fd -> 0 .. Len(conns)]
                 /\ \A f, g \in Fd : sock'[f] # 0 /\ sock'[f] = sock'[g] => f = g
      <4>1. sock \in [Fd -> 0 .. Len(conns)] /\ 0 \in 0 .. Len(conns)
        BY ConnFacts DEF TypeInv, SockTypes
      <4>2. \A f, g \in Fd : sock[f] # 0 /\ sock[f] = sock[g] => f = g
        BY DEF TypeInv, SockTypes
      <4> QED
        BY <3>2, <4>1, <4>2
    <3> QED
      BY <3>1, <3>2
  <2> QED
    BY <2>1 DEF TypeInv, SockTypes
<1>3. CallTypes'
  <2> DEFINE Calls == [kind : Which, conn : 0 .. Len(conns), leaked : Rtable \ {Freed}]
  <2>1. call \in Calls /\ NoCall \in Calls
    BY ConnFacts DEF TypeInv, CallTypes, NoCall, Rtable, Null, Freed
  <2>2. CallSocket \in 0 .. Len(conns)
    BY CallSocketType
  <2>3. call' \in Calls
    BY <2>1, <2>2
  <2> QED
    BY <2>3 DEF TypeInv, CallTypes
<1> QED
  BY <1>1, <1>2, <1>3 DEF TypeInv

LEMMA TypeCall ==
  ASSUME TypeInv, NEW p \in {"length", "body"}, network_send_receive(p)
  PROVE  TypeInv'
<1> USE Facts
<1>1. UNCHANGED <<chainvars, watchvars, act, nodevars, rtable, puts>> /\ calls' = calls
  BY DEF network_send_receive, Send, SendLost, SendFails, Await, Receive, ReceiveFails
<1>2. WatchTypes' /\ ChainTypes' /\ calls' \in 0 .. MaxCalls
  BY <1>1 DEF TypeInv, WatchTypes, ChainTypes, CallTypes, watchvars, nodevars, chainvars
<1>3. main' \in Places
  BY DEF network_send_receive, Send, SendLost, SendFails, Await, Receive, ReceiveFails,
         steps, ends, fails, next_part, read, Places
<1>4. CASE Send(p)
  <2>1. \A d \in DOMAIN conns' : conns'[d].at = "closed" => conns'[d].out = <<>>
    <3> SUFFICES ASSUME NEW d \in DOMAIN conns, conns'[d].at = "closed"
                 PROVE  conns'[d].out = <<>>
      BY <1>4, SendEffect
    <3>1. d # CallSocket
      BY <1>4, SendEffect
    <3> QED
      BY <1>4, <3>1, SendEffect DEF TypeInv, SockTypes
  <2>2. SockTypes'
    BY <1>4, <2>1, SendEffect DEF TypeInv, SockTypes
  <2>3. CallTypes'
    <3>1. main' \notin Reading
      BY <1>4, SendEffect DEF next_part, Reading
    <3> QED
      BY <1>1, <1>3, <1>4, <3>1, SendEffect DEF TypeInv, CallTypes
  <2> QED
    BY <1>2, <2>2, <2>3 DEF TypeInv
<1>5. CASE Receive(p)
  <2>1. \A d \in DOMAIN conns' : conns'[d].at = "closed" => conns'[d].out = <<>>
    <3> SUFFICES ASSUME NEW d \in DOMAIN conns, conns'[d].at = "closed"
                 PROVE  conns'[d].out = <<>>
      BY <1>5, ReceiveEffect
    <3>1. conns'[d].at = conns[d].at /\ conns'[d].out = conns[d].out
      BY <1>5, ReceiveEffect
    <3> QED
      BY <3>1 DEF TypeInv, SockTypes
  <2>2. SockTypes'
    <3>1. sock' = sock
      BY <1>5 DEF Receive
    <3> QED
      BY <1>1, <1>5, <2>1, <3>1, ReceiveEffect DEF TypeInv, SockTypes
  <2>3. CallTypes'
    <3>1. NoCall \in [kind : Which, conn : 0 .. Len(conns), leaked : Rtable \ {Freed}]
      BY ConnFacts DEF NoCall, Rtable, Null, Freed
    <3> QED
      BY <1>1, <1>3, <1>5, <3>1, ReceiveEffect DEF TypeInv, CallTypes
  <2> QED
    BY <1>2, <2>2, <2>3 DEF TypeInv
<1>0. call.kind \in Which
  BY DEF TypeInv, CallTypes
<1>6. CASE SendLost(p) \/ ReceiveFails(p)
  <2>1. /\ sock' = sock /\ conns' = conns
        /\ call' = call \/ call' = [NoCall EXCEPT !.kind = call.kind]
    BY <1>6 DEF SendLost, ReceiveFails, steps, fails
  <2>2. main' \notin Reading
    BY <1>6 DEF SendLost, ReceiveFails, steps, fails, next_part, Reading
  <2> QED
    BY <1>0, <1>1, <1>2, <1>3, <2>1, <2>2, TypeMain
<1>7. CASE SendFails(p)
  <2>1. conns' = conns /\ call' = [NoCall EXCEPT !.kind = call.kind] /\ main' \notin Reading
    BY <1>7 DEF SendFails, fails, Reading
  <2>2. sock' = sock \/ \E f \in Fd : sock' = [sock EXCEPT ![f] = 0]
    BY <1>7, CallSocketType DEF SendFails, closes
  <2> QED
    BY <1>0, <1>1, <1>2, <1>3, <2>1, <2>2, TypeMain
<1>8. CASE Await(p)
  <2>1. /\ sock' = sock /\ conns' = conns
        /\ \/ call' = [NoCall EXCEPT !.kind = call.kind]
           \/ call' = [call EXCEPT !.conn = CallSocket]
        /\ main' \in Reading => call'.conn # 0
    BY <1>8 DEF Await, fails, Reading, TypeInv, CallTypes
  <2> QED
    BY <1>0, <1>1, <1>2, <1>3, <2>1, TypeMain
<1> QED
  BY <1>4, <1>5, <1>6, <1>7, <1>8 DEF network_send_receive

LEMMA TypeQuit ==
  ASSUME TypeInv, NEW w \in Which, NEW at \in Places, NEW next \in Places \ Reading,
         quit_fails(at, w, next)
  PROVE  TypeInv'
<1>1. /\ UNCHANGED <<chainvars, watchvars, act, nodevars, conns, call, calls, torn,
                     disturbed, puts>>
      /\ main' = next /\ disconnect(w)
  BY DEF quit_fails
<1>2. ChainTypes' /\ WatchTypes' /\ CallTypes'
  BY <1>1 DEF TypeInv, ChainTypes, WatchTypes, CallTypes, chainvars, watchvars, nodevars
<1>3. SockTypes'
  BY <1>1, TypeDisconnect DEF chainvars
<1> QED
  BY <1>2, <1>3 DEF TypeInv

(* main without a step of a request. *)
LEMMA MainEffect ==
  ASSUME \/ Connected /\ main' = "idle"
         \/ NoAnswer
         \/ \E w \in Which : Request(w)
         \/ QuitClose
  PROVE  /\ UNCHANGED <<chainvars, nodevars, rtable, sock, conns, disturbed, puts>>
         /\ \/ main = "start" /\ act["main"].at = "idle" /\ main' = "idle"
               /\ UNCHANGED <<watchvars, act, call, calls>> /\ \A w \in Which : rtable[w] # Null
            \/ main = "idle" /\ UNCHANGED <<watchvars, act>> /\ calls < MaxCalls
               /\ calls' = calls + 1
               /\ main' \in {"length", "no_answer"}
               /\ \E w \in Which : call' = [NoCall EXCEPT !.kind = w]
            \/ main = "no_answer" /\ main' = "idle" /\ UNCHANGED <<watchvars, act, calls>>
               /\ call' = NoCall
            \/ main = "quit_close" /\ main' = "idle" /\ UNCHANGED <<call, calls>>
               /\ watch' = FALSE /\ event' = FALSE
               /\ act["watch"].at = "idle" /\ act' = [act EXCEPT !["watch"].at = "closed"]
<1>1. CASE Connected /\ main' = "idle"
  BY <1>1 DEF Connected, Ends
<1>2. CASE \E w \in Which : Request(w)
  BY <1>2 DEF Request
<1>3. CASE QuitClose
  BY <1>3 DEF QuitClose, goes
<1>4. CASE NoAnswer
  BY <1>4 DEF NoAnswer, ends
<1> QED
  BY <1>1, <1>2, <1>3, <1>4

LEMMA TypeStep == TypeInv /\ [Next]_vars => TypeInv'
<1> SUFFICES ASSUME TypeInv, [Next]_vars PROVE TypeInv'
  OBVIOUS
<1>1. CASE UNCHANGED vars
  <2>1. UNCHANGED <<chainvars, watchvars, act, nodevars, rtable, sock, conns, main, call,
                    calls, puts>>
    BY <1>1 DEF vars, mainvars
  <2>2. WatchTypes' /\ ChainTypes'
    BY <2>1 DEF TypeInv, WatchTypes, ChainTypes, watchvars, nodevars, chainvars
  <2>3. SockTypes' /\ CallTypes'
    BY <2>1 DEF TypeInv, SockTypes, CallTypes
  <2> QED
    BY <2>2, <2>3 DEF TypeInv
<1>2. CASE \/ Connected /\ main' = "idle"
           \/ NoAnswer
           \/ \E w \in Which : Request(w)
           \/ QuitClose
  <2>1. UNCHANGED <<chainvars, nodevars, rtable, sock, conns, disturbed, puts>>
    BY <1>2, MainEffect
  <2>2. WatchTypes'
    <3>1. watch' \in BOOLEAN /\ event' \in BOOLEAN
      BY <1>2, MainEffect DEF watchvars, TypeInv, WatchTypes
    <3>2. act' = act \/ act' = [act EXCEPT !["watch"].at = "closed"]
      BY <1>2, MainEffect
    <3>3. act' \in [Activation -> Act]
      BY <3>2, Facts DEF TypeInv, WatchTypes, Act, Stages
    <3> QED
      BY <2>1, <3>1, <3>3 DEF TypeInv, WatchTypes, nodevars
  <2>3. main' \in Places /\ main' \notin Reading /\ calls' \in 0 .. MaxCalls
    <3>1. main' \in {"idle", "length", "no_answer"}
      BY <1>2, MainEffect
    <3>2. calls' = calls \/ (calls < MaxCalls /\ calls' = calls + 1)
      BY <1>2, MainEffect
    <3> QED
      BY <3>1, <3>2, Facts DEF TypeInv, CallTypes, Places, Reading
  <2>4. call' = call \/ call' = NoCall \/ \E w \in Which : call' = [NoCall EXCEPT !.kind = w]
    BY <1>2, MainEffect
  <2> QED
    BY <2>1, <2>2, <2>3, <2>4, TypeMain
<1>3. CASE quit_fails("idle", "head", "quit_tail") \/ quit_fails("quit_tail", "tail", "quit_close")
  <2>1. /\ "head" \in Which /\ "tail" \in Which
        /\ {"idle", "quit_tail", "quit_close"} \subseteq Places
        /\ {"quit_tail", "quit_close"} \cap Reading = {}
    BY DEF Which, Places, Reading
  <2> QED
    BY <1>3, <2>1, TypeQuit
<1>4. CASE \E a \in Activation : \E w \in Which :
             Unchanged(a, w) \/ Leave(a, w) \/ Join(a, w) \/ JoinFails(a, w)
  BY <1>4, TypeAct, TypeLeave, TypeJoin, TypeJoinFails
<1>5. CASE child_watcher \/ \E a \in Activation : ListChildren(a) \/ Compare(a)
  BY <1>5, TypeAct
<1> QED
  BY <1>1, <1>2, <1>3, <1>4, <1>5, Steps, TypeEnds, TypeServers, TypeServe, TypeCall
-----------------------------------------------------------------------------
(* The head, and what was the head: once all the servers before one have been
   started and have no znode left, they have none for ever. *)
LEMMA HeadStays ==
  ASSUME TypeInv, [Next]_vars
  PROVE  \A s \in Server : HeadLike(s) => HeadLike(s)'
<1>1. ASSUME NEW t \in Server, server[t] # "off"
      PROVE  server'[t] # "off" /\ (t \notin znodes => t \notin znodes')
  <2>1. CASE \E s \in Server : Start(s) \/ Crash(s) \/ Publish(s) \/ Expire(s)
    BY <1>1, <2>1 DEF Start, Crash, Publish, Expire, Changes, TypeInv, ChainTypes
  <2>2. CASE UNCHANGED <<server, znodes>>
    BY <1>1, <2>2
  <2>3. CASE \/ Connected /\ main' = "idle"
             \/ NoAnswer
             \/ \E w \in Which : Request(w)
             \/ QuitClose
    BY <2>2, <2>3, MainEffect DEF chainvars
  <2> QED
    <3>1. CASE UNCHANGED vars \/ \E how \in {"stopped", "crashed"} : Ends(how)
      BY <2>2, <3>1 DEF vars, chainvars, Ends
    <3>2. CASE child_watcher \/ \E c \in DOMAIN conns : Serve(c) \/ Stops(c)
      BY <2>2, <3>2, StopsEffect DEF child_watcher, Serve, chainvars
    <3>3. ASSUME NEW a \in Activation, ListChildren(a) \/ Compare(a) PROVE UNCHANGED chainvars
      BY <3>3 DEF ListChildren, Compare
    <3>6. ASSUME NEW a \in Activation, NEW w \in Which,
                 Unchanged(a, w) \/ Leave(a, w) \/ Join(a, w) \/ JoinFails(a, w)
          PROVE  UNCHANGED chainvars
      BY <3>6 DEF Unchanged, Leave, Join, JoinFails
    <3>7. CASE UNCHANGED chainvars
      BY <2>2, <3>7 DEF chainvars
    <3>4. CASE \E p \in {"length", "body"} : network_send_receive(p)
      BY <2>2, <3>4 DEF network_send_receive, Send, SendLost, SendFails, Await, Receive,
         ReceiveFails, chainvars
    <3>5. CASE quit_fails("idle", "head", "quit_tail") \/ quit_fails("quit_tail", "tail", "quit_close")
      BY <2>2, <3>5 DEF quit_fails, chainvars
    <3> QED
      BY <2>1, <2>3, <3>1, <3>2, <3>3, <3>4, <3>5, <3>6, <3>7, Steps
<1>2. \A s \in Server : \A t \in 1 .. s - 1 : t \in Server
  BY Facts DEF Server
<1> QED
  BY <1>1, <1>2 DEF HeadLike

LEMMA DisturbedGrows == [Next]_vars => disturbed \subseteq disturbed'
<1> SUFFICES ASSUME [Next]_vars PROVE disturbed \subseteq disturbed'
  OBVIOUS
<1>1. CASE UNCHANGED vars
  BY <1>1 DEF vars
<1>2. CASE Environment
  BY <1>2 DEF Environment, Start, Crash, Changes, Request, Quit, QuitHead, QuitTail,
     quits, quit_fails, QuitAgain, QuitClose, QuitCloseAgain, Abort, StatsOfNull, Serve,
     SendOnBlocks, SendOnFails, UnpackFails, AnswerFails, hangs_up
<1>3. CASE Progress
  BY <1>3 DEF Progress, Connected, NoAnswer, network_send_receive, Send, SendLost, SendFails,
     closes, Await, Receive, ReceiveFails
<1>4. CASE child_watcher \/ Servers
  BY <1>4 DEF child_watcher, Servers, Publish, Expire, Changes, Serve
<1>5. ASSUME NEW a \in Activation, handle_client_connection(a)
      PROVE  disturbed \subseteq disturbed'
  BY <1>5 DEF handle_client_connection, ListChildren, ListEmpty, Compare, Unchanged,
     Leave, LeaveAgain, Join, JoinFails, Abort
<1> QED
  BY <1>1, <1>2, <1>3, <1>4, <1>5, Facts DEF Next, Watcher

(* The lowest znode is that of a head. *)
LEMMA LowestIsHead ==
  ASSUME TypeInv, znodes # {}
  PROVE  HeadLike(Min(znodes))
<1>1. znodes \in SUBSET Nat /\ znodes \subseteq Server
  BY Facts DEF TypeInv, ChainTypes
<1>2. Min(znodes) \in znodes /\ \A m \in znodes : Min(znodes) <= m
  BY <1>1, LeastNatural
<1> DEFINE s == Min(znodes)
<1>3. s \in Server /\ server[s] # "off"
  BY <1>2 DEF TypeInv, ChainTypes
<1>4. ASSUME NEW t \in 1 .. s - 1
      PROVE  server[t] # "off" /\ t \notin znodes
  <2>1. server[t] # "off"
    BY <1>3 DEF TypeInv, ChainTypes
  <2> HIDE DEF s
  <2>2. s \in Nat /\ t < s
    BY <1>3, Facts
  <2>3. ASSUME t \in znodes PROVE FALSE
    <3>1. s <= t
      BY <1>2, <2>3 DEF s
    <3> QED
      BY <2>2, <3>1
  <2> QED
    BY <2>1, <2>3
<1> QED
  BY <1>3, <1>4 DEF HeadLike

LEMMA ActHeadsStep ==
  ASSUME TypeInv, ActHeads, [Next]_vars
  PROVE  ActHeads'
<1> USE Facts
<1> DEFINE Fine(b) ==
      /\ b.at \in {"compare", "leave_head", "join_head"} => HeadLike(b.min)
      /\ b.at = "join_head" => b.to \in {0, b.min}
<1>1. act \in [Activation -> Act] /\ \A b \in Activation : Fine(act[b])
  BY DEF TypeInv, WatchTypes, ActHeads
<1>2. SUFFICES ASSUME NEW b \in Activation
               PROVE  Fine(act[b])'
  BY <1>2 DEF ActHeads
<1>3. \A s \in Server : HeadLike(s) => HeadLike(s)'
  BY HeadStays
<1>4. ASSUME act'[b] = act[b] PROVE Fine(act[b])'
  <2>1. \A s : HeadLike(s) => s \in Server
    BY DEF HeadLike
  <2>2. HeadLike(act[b].min) => HeadLike(act[b].min)'
    BY <1>3, <1>4, <2>1 DEF HeadLike
  <2> QED
    BY <1>1, <1>4, <2>2
<1>5. CASE act' = act
  BY <1>4, <1>5
<1>6. ASSUME act'[b].at \notin {"compare", "leave_head", "join_head"}
      PROVE  Fine(act[b])'
  BY <1>6
<1>7. CASE \E how \in {"stopped", "crashed"} : Ends(how)
  <2>1. act'[b] = Idle
    BY <1>7 DEF Ends
  <2> QED
    BY <1>6, <2>1 DEF Idle
<1>8. CASE child_watcher
  <2>1. act' = [act EXCEPT !["watch"].at = "list"]
    BY <1>8 DEF child_watcher, goes
  <2> QED
    BY <1>1, <1>4, <1>6, <2>1 DEF Act
<1>9. ASSUME NEW a \in Activation, ListChildren(a) PROVE Fine(act[b])'
  <2>1. /\ znodes # {} /\ UNCHANGED chainvars
        /\ act' = [act EXCEPT ![a] =
             [at |-> "compare", min |-> Min(znodes), max |-> Max(znodes), to |-> 0]]
    BY <1>9 DEF ListChildren
  <2>2. CASE a = b
    <3>1. act'[b].at = "compare" /\ act'[b].min = Min(znodes)
      BY <1>1, <2>1, <2>2
    <3>2. HeadLike(Min(znodes))'
      <4>1. HeadLike(Min(znodes))
        BY <2>1, LowestIsHead
      <4> QED
        BY <2>1, <4>1 DEF HeadLike, chainvars
    <3>3. HeadLike(act[b].min)'
      BY <2>1, <3>1, <3>2 DEF HeadLike, chainvars
    <3> QED
      BY <3>1, <3>3
  <2>3. CASE a # b
    BY <1>1, <1>4, <2>1, <2>3
  <2> QED
    BY <2>2, <2>3
<1>10. ASSUME NEW a \in Activation, NEW x, act[a].at \in {"compare", "leave_head"},
              act' = [act EXCEPT ![a].at = x],  x # "join_head"
       PROVE  Fine(act[b])'
  <2>1. CASE a = b
    <3>1. act'[b].at = x /\ act'[b].min = act[b].min /\ HeadLike(act[b].min)
      BY <1>1, <1>10, <2>1 DEF Act
    <3>2. HeadLike(act[b].min)'
      <4>1. act[b].min \in Server
        BY <3>1 DEF HeadLike
      <4> QED
        BY <1>3, <3>1, <4>1 DEF HeadLike
    <3> QED
      BY <1>10, <3>1, <3>2
  <2>2. CASE a # b
    BY <1>1, <1>4, <1>10, <2>2
  <2> QED
    BY <2>1, <2>2
<1>11. ASSUME NEW a \in Activation, Compare(a) PROVE Fine(act[b])'
  BY <1>10, <1>11 DEF Compare, goes
<1>12. ASSUME NEW a \in Activation, NEW w \in Which,
              Unchanged(a, w) \/ Join(a, w) \/ JoinFails(a, w)
       PROVE  Fine(act[b])'
  <2>1. act'[a].at \in {"leave_tail", "idle"} /\ \A d \in Activation : d # a => act'[d] = act[d]
    BY <1>1, <1>12 DEF Unchanged, Join, JoinFails, advances, Idle, Act
  <2> QED
    BY <1>4, <1>6, <2>1
<1>13. ASSUME NEW a \in Activation, NEW w \in Which, Leave(a, w) PROVE Fine(act[b])'
  <2> DEFINE n == IF w = "head" THEN act[a].min ELSE act[a].max
             to == IF n \in znodes /\ server[n] # "created" THEN n ELSE 0
  <2>1. act[a].at = leave(w) /\ act' = [act EXCEPT ![a].at = join(w), ![a].to = to]
    BY <1>13 DEF Leave
  <2>2. \A d \in Activation : d # a => act'[d] = act[d]
    BY <1>1, <2>1
  <2>3. /\ act'[a].at = join(w) /\ act'[a].to = to /\ act'[a].min = act[a].min
    BY <1>1, <2>1 DEF Act
  <2>4. CASE w = "head"
    <3>1. to \in {0, act[a].min} /\ act[a].at = "leave_head"
      BY <2>1, <2>4 DEF leave
    <3>2. HeadLike(act[a].min) /\ act[a].min \in Server
      BY <1>1, <3>1 DEF HeadLike
    <3>3. HeadLike(act[a].min)'
      BY <1>3, <2>3, <3>2 DEF HeadLike
    <3> QED
      BY <1>4, <2>2, <2>3, <3>1, <3>3
  <2>5. CASE w = "tail"
    BY <1>4, <1>6, <2>2, <2>3, <2>5 DEF join
  <2> QED
    BY <2>4, <2>5
<1>14. CASE \/ Connected /\ main' = "idle"
            \/ NoAnswer
            \/ \E w \in Which : Request(w)
            \/ QuitClose
  <2>1. act' = act \/ act' = [act EXCEPT !["watch"].at = "closed"]
    BY <1>14, MainEffect
  <2> QED
    BY <1>1, <1>4, <1>6, <2>1 DEF Act
<1>15. CASE \E c \in DOMAIN conns : Serve(c) \/ Stops(c)
  <2>1. act' = act
    BY <1>15, StopsEffect DEF Serve
  <2> QED
    BY <1>5, <2>1
<1>16. CASE quit_fails("idle", "head", "quit_tail") \/ quit_fails("quit_tail", "tail", "quit_close")
  BY <1>5, <1>16 DEF quit_fails
<1> QED
  BY <1>5, <1>7, <1>8, <1>9, <1>11, <1>12, <1>13, <1>14, <1>15, <1>16, Steps
     DEF vars, Start, Crash, Publish, Expire, Changes, network_send_receive, Send,
         SendLost, SendFails, Await, Receive, ReceiveFails
-----------------------------------------------------------------------------
(* The pointers. *)
LEMMA LiveFacts ==
  ASSUME NEW r \in Rtable
  PROVE  /\ r.at = "live" => r.fd \in Fd /\ r = Live(r.fd) /\ socket(r) = sock[r.fd]
         /\ r \in {Null, Freed} => r.at # "live"
         /\ \A f \in Fd : Live(f) \in Rtable /\ Live(f).fd = f /\ Live(f).at = "live"
<1>1. r \in {Null, Freed} => r.at # "live"
  BY DEF Null, Freed
<1>2. \A f \in Fd : Live(f) \in Rtable /\ Live(f).fd = f /\ Live(f).at = "live"
  BY DEF Rtable, Live
<1>3. r.at = "live" => \E f \in Fd : r = Live(f)
  BY <1>1 DEF Rtable
<1>4. r.at = "live" => socket(r) = sock[r.fd]
  BY DEF socket
<1> QED
  BY <1>1, <1>2, <1>3, <1>4

(* A step that moves no pointer and writes nothing to others than heads. *)
LEMMA PointersKeep ==
  ASSUME TypeInv, [Next]_vars, PointerInv, Heads,
         UNCHANGED <<rtable, sock>>,
         call'.leaked.at = "live" => call'.leaked = call.leaked /\ call'.kind = call.kind,
         DOMAIN conns' = DOMAIN conns,
         \A c \in DOMAIN conns : conns'[c].server = conns[c].server,
         \A c \in DOMAIN conns : \A i \in DOMAIN conns'[c].out :
           conns'[c].out[i].kind = "head" =>
             \/ HeadLike(conns[c].server)
             \/ \E j \in DOMAIN conns[c].out : conns[c].out[j] = conns'[c].out[i],
         \A s \in puts' : s \in puts \/ HeadLike(s)
  PROVE  PointerInv' /\ Heads'
<1>1. \A s : HeadLike(s) => HeadLike(s)'
  BY HeadStays DEF HeadLike
<1>2. PointerInv'
  BY DEF PointerInv, Socket, socket
<1>3. \A r \in Rtable : r.at = "live" /\ socket(r) # 0 => socket(r) \in DOMAIN conns
  BY LiveFacts, ConnFacts DEF TypeInv, SockTypes
<1>4. \A c \in DOMAIN conns : HeadLike(conns[c].server) => HeadLike(conns[c].server)'
  BY <1>1 DEF HeadLike
<1>5. rtable["head"].at = "live" =>
        Socket("head")' = Socket("head") /\ Socket("head") \in DOMAIN conns
  BY <1>3, Facts DEF PointerInv, Socket, socket, TypeInv, SockTypes
<1>6. call.leaked.at = "live" => socket(call.leaked) \in DOMAIN conns
  BY <1>3 DEF PointerInv, TypeInv, CallTypes
<1>7. rtable'["head"].at = "live" => HeadLike(conns[Socket("head")].server)'
  BY <1>4, <1>5 DEF Heads, HeadLike
<1>8. call'.leaked.at = "live" /\ call'.kind = "head" =>
        HeadLike(conns[socket(call.leaked)].server)'
  <2> SUFFICES ASSUME call'.leaked.at = "live", call'.kind = "head"
               PROVE  HeadLike(conns[socket(call.leaked)].server)'
    OBVIOUS
  <2>1. socket(call.leaked)' = socket(call.leaked)
    BY DEF socket
  <2> QED
    BY <1>4, <1>6, <2>1 DEF Heads, HeadLike
<1>9. \A c \in DOMAIN conns : \A i \in DOMAIN conns'[c].out :
        conns'[c].out[i].kind = "head" => HeadLike(conns[c].server)'
  BY <1>4 DEF Heads
<1>10. \A s \in puts' : HeadLike(s)'
  BY <1>1 DEF Heads
<1> QED
  BY <1>2, <1>7, <1>8, <1>9, <1>10 DEF Heads

(* rtable_disconnect closes no descriptor but its own. *)
LEMMA DisconnectPointers ==
  ASSUME TypeInv, PointerInv, Heads, NEW w \in Which, disconnect(w),
         UNCHANGED <<server, znodes, conns, call, puts>>
  PROVE  PointerInv' /\ Heads'
<1> USE Facts
<1>1. /\ rtable \in [Which -> Rtable] /\ call.leaked \in Rtable
      /\ sock \in [Fd -> 0 .. Len(conns)]
  BY DEF TypeInv, SockTypes, CallTypes
<1>2. CASE rtable[w] = Null
  <2>1. rtable' = rtable /\ sock' = sock
    BY <1>1, <1>2 DEF disconnect
  <2> QED
    BY <2>1 DEF PointerInv, Heads, HeadLike, Socket, socket
<1>3. CASE rtable[w] # Null
  <2>1. PICK f \in Fd : rtable[w] = Live(f) /\ rtable[w].at = "live" /\ rtable[w].fd = f
    <3>1. rtable[w] \in Rtable /\ rtable[w] # Freed
      BY <1>1 DEF disconnect, Freed
    <3>2. PICK f \in Fd : rtable[w] = Live(f)
      BY <1>3, <3>1 DEF Rtable
    <3> QED
      BY <3>1, <3>2, LiveFacts
  <2>2. rtable' = [rtable EXCEPT ![w] = Freed] /\ sock' = [sock EXCEPT ![f] = 0]
    BY <1>3, <2>1 DEF disconnect
  <2>3. ASSUME NEW r \in Rtable, r.at = "live", r # rtable[w]
        PROVE  socket(r)' = socket(r)
    <3>1. r.fd \in Fd /\ r.fd # f
      BY <2>1, <2>3, LiveFacts
    <3> QED
      BY <1>1, <2>2, <2>3, <3>1 DEF socket
  <2>4. ASSUME NEW v \in Which, rtable'[v].at = "live"
        PROVE  v # w /\ rtable'[v] = rtable[v] /\ rtable[v] # rtable[w]
    <3>1. v # w
      BY <1>1, <2>2, <2>4 DEF Freed
    <3> QED
      BY <1>1, <2>1, <2>2, <2>4, <3>1 DEF PointerInv
  <2>5. ASSUME NEW v \in Which, rtable'[v].at = "live"
        PROVE  Socket(v)' = Socket(v) /\ Socket(v) # 0
    BY <1>1, <2>3, <2>4, <2>5 DEF Socket, PointerInv, socket
  <2>6. call.leaked.at = "live" =>
          socket(call.leaked)' = socket(call.leaked) /\ call.leaked # rtable[w]
    <3> SUFFICES ASSUME call.leaked.at = "live"
                 PROVE  socket(call.leaked)' = socket(call.leaked) /\ call.leaked # rtable[w]
      OBVIOUS
    <3>1. call.leaked # rtable[w]
      BY DEF PointerInv
    <3> QED
      BY <1>1, <2>3, <3>1 DEF socket
  <2>7. PointerInv'
    <3>1. \A v \in Which : rtable'[v].at = "live" => Socket(v)' # 0
      BY <2>5
    <3>2. rtable'["head"].at = "live" => rtable'["head"] # rtable'["tail"]
      <4> SUFFICES ASSUME rtable'["head"].at = "live"
                   PROVE  rtable'["head"] # rtable'["tail"]
        OBVIOUS
      <4>1. w = "tail" /\ rtable'["head"] = rtable["head"]
        BY <2>4
      <4>2. rtable'["tail"] = Freed
        BY <1>1, <2>2, <4>1
      <4> QED
        BY <4>2 DEF Freed
    <3>3. call'.leaked.at = "live" =>
            socket(call.leaked)' # 0 /\ \A v \in Which : call'.leaked # rtable'[v]
      <4> SUFFICES ASSUME call.leaked.at = "live"
                   PROVE  socket(call.leaked)' # 0 /\ \A v \in Which : call.leaked # rtable'[v]
        OBVIOUS
      <4>1. socket(call.leaked)' # 0
        BY <2>6 DEF PointerInv
      <4>2. ASSUME NEW v \in Which PROVE call.leaked # rtable'[v]
        BY <1>1, <2>2 DEF PointerInv, Freed
      <4> QED
        BY <4>1, <4>2
    <3> QED
      BY <3>1, <3>2, <3>3 DEF PointerInv
  <2>8. Heads'
    <3>1. rtable'["head"].at = "live" => HeadLike(conns[Socket("head")].server)'
      BY <2>4, <2>5 DEF Heads, HeadLike
    <3>2. call'.leaked.at = "live" /\ call'.kind = "head" =>
            HeadLike(conns[socket(call.leaked)].server)'
      BY <2>6 DEF Heads, HeadLike
    <3>3. /\ \A c \in DOMAIN conns' : \A i \in DOMAIN conns'[c].out :
               conns'[c].out[i].kind = "head" => HeadLike(conns[c].server)'
          /\ \A s \in puts' : HeadLike(s)'
      BY DEF Heads, HeadLike
    <3> QED
      BY <3>1, <3>2, <3>3 DEF Heads
  <2> QED
    BY <2>7, <2>8
<1> QED
  BY <1>2, <1>3

(* What becomes of the pointers when rtable_connect returns: a request may go on
   with the one that was overwritten. *)
LEMMA AssignFacts ==
  ASSUME TypeInv, PointerInv, Heads, NEW w \in Which, NEW r, assigns(w, r),
         r.at = "live" => r \notin {rtable[v] : v \in Which} /\ r # call.leaked
  PROVE  /\ rtable'["head"].at = "live" => rtable'["head"] # rtable'["tail"]
         /\ call'.leaked.at = "live" =>
              /\ \A v \in Which : call'.leaked # rtable'[v]
              /\ call'.leaked \in Rtable /\ socket(call'.leaked) # 0
              /\ call'.kind = "head" => HeadLike(conns[socket(call'.leaked)].server)
         /\ \A v \in Which : v # w => rtable'[v] = rtable[v]
<1> USE Facts
<1>1. /\ rtable \in [Which -> Rtable] /\ call.leaked \in Rtable
      /\ rtable' = [rtable EXCEPT ![w] = r]
  BY DEF TypeInv, SockTypes, CallTypes, assigns
<1>2. /\ rtable'[w] = r
      /\ \A v \in Which : v # w => rtable'[v] = rtable[v]
  BY <1>1
<1>3. rtable'["head"].at = "live" => rtable'["head"] # rtable'["tail"]
  <2>1. CASE w = "head"
    BY <1>2, <2>1
  <2>2. CASE w = "tail"
    BY <1>2, <2>2 DEF PointerInv
  <2> QED
    BY <2>1, <2>2
<1>4. CASE call' = call
  <2>1. call.leaked.at = "live" => \A v \in Which : call.leaked # rtable'[v]
    BY <1>2 DEF PointerInv
  <2> QED
    BY <1>1, <1>2, <1>3, <1>4, <2>1 DEF PointerInv, Heads
<1>5. CASE uses(w) /\ rtable[w].at = "live" /\ call' = [call EXCEPT !.leaked = rtable[w]]
  <2>1. call'.leaked = rtable[w] /\ call'.kind = w /\ rtable[w] \in Rtable
    BY <1>1, <1>5 DEF TypeInv, CallTypes, uses
  <2>2. socket(rtable[w]) # 0
    BY <1>5 DEF PointerInv, Socket
  <2>3. ASSUME NEW v \in Which PROVE rtable[w] # rtable'[v]
    <3>1. CASE v = w
      BY <1>2, <1>5, <3>1
    <3>2. CASE v # w
      BY <1>2, <1>5, <3>2 DEF PointerInv
    <3> QED
      BY <3>1, <3>2
  <2>4. w = "head" => HeadLike(conns[socket(rtable[w])].server)
    BY <1>5 DEF Heads, Socket
  <2> QED
    BY <1>2, <1>3, <2>1, <2>2, <2>3, <2>4
<1> QED
  BY <1>4, <1>5 DEF assigns

LEMMA JoinPointers ==
  ASSUME TypeInv, ActHeads, PointerInv, Heads, NEW a \in Activation, NEW w \in Which,
         Join(a, w)
  PROVE  PointerInv' /\ Heads'
<1> USE Facts
<1> DEFINE f == Min(Unused)
           l == Len(conns)
<1>1. /\ f \in Fd /\ sock[f] = 0 /\ l \in Nat /\ DOMAIN conns = 1 .. l
      /\ conns' \in Seq(Conn) /\ DOMAIN conns' = 1 .. l + 1
      /\ sock' = [sock EXCEPT ![f] = l + 1] /\ assigns(w, Live(f))
      /\ UNCHANGED <<server, znodes, puts>>
  BY JoinEffect, ConnFacts DEF chainvars, Join
<1> HIDE DEF f
<1>2. /\ rtable \in [Which -> Rtable] /\ call.leaked \in Rtable
      /\ sock \in [Fd -> 0 .. l]
      /\ Live(f).at = "live" /\ Live(f).fd = f /\ Live(f) \in Rtable
  BY <1>1, LiveFacts DEF TypeInv, SockTypes, CallTypes
<1>3. \A r \in Rtable : r.at = "live" /\ socket(r) # 0 => r # Live(f)
  BY <1>1, <1>2, LiveFacts
<1>4. Live(f) \notin {rtable[v] : v \in Which} /\ Live(f) # call.leaked
  <2>1. \A v \in Which : rtable[v] # Live(f)
    BY <1>2, <1>3 DEF PointerInv, Socket
  <2>2. call.leaked # Live(f)
    BY <1>2, <1>3 DEF PointerInv
  <2> QED
    BY <2>1, <2>2
<1>5. /\ rtable'["head"].at = "live" => rtable'["head"] # rtable'["tail"]
      /\ call'.leaked.at = "live" =>
           /\ \A v \in Which : call'.leaked # rtable'[v]
           /\ call'.leaked \in Rtable /\ socket(call'.leaked) # 0
           /\ call'.kind = "head" => HeadLike(conns[socket(call'.leaked)].server)
      /\ \A v \in Which : v # w => rtable'[v] = rtable[v]
  BY <1>1, <1>4, AssignFacts
<1>6. ASSUME NEW r \in Rtable, r.at = "live", socket(r) # 0
      PROVE  r.fd \in Fd /\ sock'[r.fd] = socket(r) /\ socket(r) \in DOMAIN conns
  <2>1. r.fd \in Fd /\ socket(r) = sock[r.fd] /\ r.fd # f
    BY <1>1, <1>6, LiveFacts
  <2>2. sock'[r.fd] = sock[r.fd]
    BY <1>1, <1>2, <2>1
  <2>3. socket(r) \in 0 .. l
    <3>1. sock[r.fd] \in 0 .. l
      BY <1>2, <2>1, ZenonT(40)
    <3> QED
      BY <2>1, <3>1, ZenonT(40)
  <2>4. socket(r) \in DOMAIN conns
    BY <1>1, <1>6, <2>3
  <2> QED
    BY <2>1, <2>2, <2>4
<1>7. rtable'[w] = Live(f) /\ sock'[f] = l + 1
  BY <1>1, <1>2 DEF assigns
<1>8. ASSUME NEW v \in Which, v # w, rtable'[v].at = "live"
      PROVE  Socket(v)' = Socket(v) /\ Socket(v) \in DOMAIN conns
  <2>1. rtable[v] \in Rtable /\ rtable'[v] = rtable[v] /\ socket(rtable[v]) # 0
    BY <1>2, <1>5, <1>8 DEF PointerInv, Socket
  <2> QED
    BY <1>6, <1>8, <2>1 DEF Socket, socket
<1>9. Socket(w)' = l + 1
  BY <1>2, <1>7 DEF Socket, socket
<1>10. call'.leaked.at = "live" =>
         /\ socket(call.leaked)' = socket(call'.leaked)
         /\ socket(call'.leaked) \in DOMAIN conns
  BY <1>5, <1>6 DEF socket
<1>11. PointerInv'
  <2>1. \A v \in Which : rtable'[v].at = "live" => Socket(v)' # 0
    BY <1>1, <1>8, <1>9
  <2>2. call'.leaked.at = "live" => socket(call.leaked)' # 0
    BY <1>1, <1>10
  <2> QED
    BY <1>5, <2>1, <2>2 DEF PointerInv
<1>12. /\ \A c \in DOMAIN conns : conns'[c] = conns[c]
       /\ conns'[l + 1].server = act[a].to /\ conns'[l + 1].out = <<>>
  BY JoinEffect
<1>13. rtable'["head"].at = "live" => HeadLike(conns[Socket("head")].server)'
  <2>1. CASE w = "head"
    <3>1. act[a].at = "join_head" /\ act[a].to \in Server
      BY <2>1, JoinEffect DEF join
    <3>2. HeadLike(act[a].to)
      BY <3>1 DEF ActHeads
    <3> QED
      BY <1>1, <1>9, <1>12, <2>1, <3>2 DEF HeadLike
  <2>2. CASE w = "tail"
    <3>1. rtable'["head"] = rtable["head"]
      BY <1>5, <2>2
    <3> QED
      BY <1>1, <1>8, <1>12, <2>2, <3>1 DEF Heads, HeadLike
  <2> QED
    BY <2>1, <2>2
<1>14. call'.leaked.at = "live" /\ call'.kind = "head" =>
         HeadLike(conns[socket(call.leaked)].server)'
  BY <1>1, <1>5, <1>10, <1>12 DEF HeadLike
<1>15. \A c \in DOMAIN conns' : \A i \in DOMAIN conns'[c].out :
         conns'[c].out[i].kind = "head" => HeadLike(conns[c].server)'
  <2>1. \A c \in DOMAIN conns : \A i \in DOMAIN conns'[c].out :
          conns'[c].out[i].kind = "head" => HeadLike(conns[c].server)'
    BY <1>1, <1>12 DEF Heads, HeadLike
  <2>2. DOMAIN conns'[l + 1].out = {}
    BY <1>12
  <2> QED
    BY <1>1, <2>1, <2>2
<1>16. \A s \in puts' : HeadLike(s)'
  BY <1>1 DEF Heads, HeadLike
<1> QED
  BY <1>11, <1>13, <1>14, <1>15, <1>16 DEF Heads

LEMMA JoinFailsPointers ==
  ASSUME TypeInv, PointerInv, Heads, NEW a \in Activation, NEW w \in Which, JoinFails(a, w)
  PROVE  PointerInv' /\ Heads'
<1> USE Facts
<1>1. /\ UNCHANGED <<server, znodes, sock, conns, puts>> /\ assigns(w, Null)
      /\ Null.at # "live"
  BY DEF JoinFails, chainvars, Null
<1>2. /\ rtable'["head"].at = "live" => rtable'["head"] # rtable'["tail"]
      /\ call'.leaked.at = "live" =>
           /\ \A v \in Which : call'.leaked # rtable'[v]
           /\ socket(call'.leaked) # 0
           /\ call'.kind = "head" => HeadLike(conns[socket(call'.leaked)].server)
      /\ \A v \in Which : v # w => rtable'[v] = rtable[v]
  BY <1>1, AssignFacts
<1>3. rtable'[w] = Null
  BY <1>1 DEF assigns, TypeInv, SockTypes
<1>4. \A v \in Which : rtable'[v].at = "live" =>
        rtable'[v] = rtable[v] /\ Socket(v)' = Socket(v)
  BY <1>1, <1>2, <1>3 DEF Socket, socket
<1>5. socket(call.leaked)' = socket(call'.leaked)
  BY <1>1 DEF socket
<1>6. PointerInv'
  BY <1>2, <1>4, <1>5 DEF PointerInv
<1>7. Heads'
  <2>1. rtable'["head"].at = "live" => HeadLike(conns[Socket("head")].server)'
    BY <1>1, <1>4 DEF Heads, HeadLike
  <2>2. call'.leaked.at = "live" /\ call'.kind = "head" =>
          HeadLike(conns[socket(call.leaked)].server)'
    BY <1>1, <1>2, <1>5 DEF HeadLike
  <2> QED
    BY <1>1, <2>1, <2>2 DEF Heads, HeadLike
<1> QED
  BY <1>6, <1>7

LEMMA HeadInit == Init => HeadInv
  BY Facts DEF Init, HeadInv, ActHeads, PointerInv, Heads, Idle, Null, NoCall

LEMMA HeadStep ==
  ASSUME TypeInv, HeadInv, [Next]_vars
  PROVE  HeadInv'
<1> USE Facts
<1>1. ActHeads'
  BY ActHeadsStep DEF HeadInv
<1>2. SUFFICES ASSUME "write" \notin disturbed'
               PROVE  PointerInv' /\ Heads'
  BY <1>1, <1>2 DEF HeadInv
<1>3. PointerInv /\ Heads /\ ActHeads
  BY <1>2, DisturbedGrows DEF HeadInv
<1>4. CASE UNCHANGED vars
  <2>1. UNCHANGED <<rtable, sock, call, conns, puts>>
    BY <1>4 DEF vars, mainvars
  <2> QED
    BY <1>3, <2>1, PointersKeep
<1>5. ASSUME NEW how \in {"stopped", "crashed"}, Ends(how)
      PROVE  PointerInv' /\ Heads'
  <2>1. /\ UNCHANGED <<server, znodes, puts>> /\ conns' = <<>> /\ call'.leaked = Null
        /\ \A w \in Which : rtable'[w] = Null
    BY <1>5 DEF Ends, NoCall, chainvars
  <2>2. Null.at # "live"
    BY DEF Null
  <2> QED
    BY <1>3, <2>1, <2>2 DEF PointerInv, Heads, HeadLike
<1>6. ASSUME NEW s \in Server, Start(s) \/ Crash(s) \/ Publish(s) \/ Expire(s)
      PROVE  PointerInv' /\ Heads'
  <2>1. UNCHANGED <<rtable, sock, call, puts>>
    BY <1>6 DEF Start, Crash, Publish, Expire, Changes, mainvars
  <2>2. CASE conns' = conns
    BY <1>3, <2>1, <2>2, PointersKeep
  <2>3. CASE Crash(s)
    <3>1. \A c \in DOMAIN conns : conns'[c].out = <<>> \/ conns'[c].out = conns[c].out
      BY <2>3, CrashEffect
    <3>2. \A c \in DOMAIN conns : \A i \in DOMAIN conns'[c].out :
            \E j \in DOMAIN conns[c].out : conns[c].out[j] = conns'[c].out[i]
      BY <3>1
    <3> QED
      BY <1>3, <2>1, <2>3, <3>2, CrashEffect, PointersKeep
  <2> QED
    BY <1>6, <2>2, <2>3 DEF Start, Publish, Expire, Changes
<1>14. ASSUME NEW c \in DOMAIN conns, Stops(c)
       PROVE  PointerInv' /\ Heads'
  <2>1. UNCHANGED <<rtable, sock, call>>
    BY <1>14, StopsEffect DEF mainvars
  <2>2. \A d \in DOMAIN conns : conns'[d].out = <<>> \/ conns'[d].out = conns[d].out
    BY <1>14, StopsEffect
  <2>3. \A d \in DOMAIN conns : \A i \in DOMAIN conns'[d].out :
          \E j \in DOMAIN conns[d].out : conns[d].out[j] = conns'[d].out[i]
    BY <2>2
  <2>4. \A d \in DOMAIN conns : conns'[d].server = conns[d].server
    BY <1>14, StopsEffect
  <2>5. \A s \in puts' : s \in puts \/ HeadLike(s)
    <3>1. CASE puts' = puts
      BY <3>1
    <3>2. CASE /\ Len(conns[c].out) >= 2 /\ conns[c].out[2].kind = "head"
               /\ puts' = puts \cup {conns[c].server}
      <4>1. conns[c].out \in Seq(Piece) /\ 2 \in DOMAIN conns[c].out
        BY <3>2, ConnFacts
      <4> QED
        BY <1>3, <3>2, <4>1 DEF Heads
    <3> QED
      BY <1>14, <3>1, <3>2, StopsEffect
  <2> QED
    BY <1>3, <1>14, <2>1, <2>3, <2>4, <2>5, StopsEffect, PointersKeep
<1>7. ASSUME NEW c \in DOMAIN conns, Serve(c)
      PROVE  PointerInv' /\ Heads'
  <2>1. UNCHANGED <<rtable, sock, call>>
    BY <1>7 DEF Serve, mainvars
  <2>2. ASSUME NEW i \in DOMAIN conns'[c].out
        PROVE  \E j \in DOMAIN conns[c].out : conns[c].out[j] = conns'[c].out[i]
    <3>1. conns[c].out \in Seq(Piece)
      BY ConnFacts
    <3>2. conns'[c].out = SubSeq(conns[c].out, 3, Len(conns[c].out)) /\ Len(conns[c].out) >= 2
      BY <1>7, ServeEffect
    <3>3. /\ i + 2 \in DOMAIN conns[c].out
          /\ conns'[c].out[i] = conns[c].out[i + 2]
      BY <3>1, <3>2
    <3> QED
      BY <3>3
  <2>3. \A d \in DOMAIN conns : \A i \in DOMAIN conns'[d].out :
          \E j \in DOMAIN conns[d].out : conns[d].out[j] = conns'[d].out[i]
    <3> SUFFICES ASSUME NEW d \in DOMAIN conns
                 PROVE  \A i \in DOMAIN conns'[d].out :
                          \E j \in DOMAIN conns[d].out : conns[d].out[j] = conns'[d].out[i]
      OBVIOUS
    <3>1. CASE d = c
      BY <2>2, <3>1
    <3>2. CASE d # c
      <4>1. conns'[d] = conns[d]
        BY <1>7, <3>2, ServeEffect
      <4> QED
        BY <4>1
    <3> QED
      BY <3>1, <3>2
  <2>4. \A d \in DOMAIN conns : conns'[d].server = conns[d].server
    BY <1>7, ServeEffect
  <2>5. \A s \in puts' : s \in puts \/ HeadLike(s)
    <3>1. /\ Len(conns[c].out) >= 2 /\ conns[c].out \in Seq(Piece)
          /\ puts' = IF conns[c].out[2].kind = "head" THEN puts \cup {conns[c].server} ELSE puts
      BY <1>7, ServeEffect, ConnFacts
    <3>2. 2 \in DOMAIN conns[c].out
      BY <3>1
    <3> QED
      BY <1>3, <3>1, <3>2 DEF Heads
  <2> QED
    BY <1>3, <1>7, <2>1, <2>3, <2>4, <2>5, ServeEffect, PointersKeep
<1>8. CASE \/ child_watcher
           \/ \E a \in Activation : ListChildren(a) \/ Compare(a)
           \/ \E a \in Activation : \E w \in Which : Unchanged(a, w)
  <2>1. UNCHANGED <<rtable, sock, call, conns, puts>>
    BY <1>8 DEF child_watcher, ListChildren, Compare, Unchanged, mainvars
  <2> QED
    BY <1>3, <2>1, PointersKeep
<1>9. ASSUME NEW a \in Activation, NEW w \in Which, Leave(a, w)
      PROVE  PointerInv' /\ Heads'
  <2>1. disconnect(w) /\ UNCHANGED <<server, znodes, conns, call, puts>>
    BY <1>9 DEF Leave, chainvars
  <2> QED
    BY <1>3, <2>1, DisconnectPointers
<1>10. CASE quit_fails("idle", "head", "quit_tail") \/ quit_fails("quit_tail", "tail", "quit_close")
  <2>1. /\ \E w \in Which : disconnect(w)
        /\ UNCHANGED <<server, znodes, conns, call, puts>>
    BY <1>10 DEF quit_fails, chainvars
  <2> QED
    BY <1>3, <2>1, DisconnectPointers
<1>11. ASSUME NEW a \in Activation, NEW w \in Which, Join(a, w) \/ JoinFails(a, w)
       PROVE  PointerInv' /\ Heads'
  BY <1>3, <1>11, JoinPointers, JoinFailsPointers
<1>12. CASE \/ Connected /\ main' = "idle"
            \/ NoAnswer
            \/ \E w \in Which : Request(w)
            \/ QuitClose
  <2>1. UNCHANGED <<rtable, sock, conns, puts>>
    BY <1>12, MainEffect
  <2>2. call' = call \/ call'.leaked = Null
    <3>1. NoCall.leaked = Null /\ \A w \in Which : [NoCall EXCEPT !.kind = w].leaked = Null
      BY DEF NoCall
    <3>2. call' = call \/ call' = NoCall \/ \E w \in Which : call' = [NoCall EXCEPT !.kind = w]
      BY <1>12, MainEffect
    <3>3. ASSUME NEW w \in Which, call' = [NoCall EXCEPT !.kind = w]
          PROVE  call'.leaked = Null
      BY <3>1, <3>3, Zenon
    <3>4. CASE call' = NoCall
      BY <3>1, <3>4, Zenon
    <3> QED
      BY <3>2, <3>3, <3>4, Zenon
  <2>3. Null.at # "live"
    BY DEF Null
  <2> QED
    BY <1>3, <2>1, <2>2, <2>3, PointersKeep
<1>13. ASSUME NEW p \in {"length", "body"}, network_send_receive(p)
       PROVE  PointerInv' /\ Heads'
  <2>1. UNCHANGED <<rtable, puts>>
    BY <1>13 DEF network_send_receive, Send, SendLost, SendFails, Await, Receive, ReceiveFails
  <2>2. call'.leaked.at = "live" => call'.leaked = call.leaked /\ call'.kind = call.kind
    <3>1. call' \in {call, NoCall, [NoCall EXCEPT !.kind = call.kind],
                     [call EXCEPT !.conn = CallSocket]}
      BY <1>13 DEF network_send_receive, Send, SendLost, SendFails, Await, Receive,
         ReceiveFails, steps, ends, fails
    <3>2. /\ NoCall.leaked.at # "live"
          /\ [NoCall EXCEPT !.kind = call.kind].leaked.at # "live"
      BY DEF NoCall, Null
    <3>3. /\ [call EXCEPT !.conn = CallSocket].leaked = call.leaked
          /\ [call EXCEPT !.conn = CallSocket].kind = call.kind
      BY DEF TypeInv, CallTypes
    <3> QED
      BY <3>1, <3>2, <3>3
  <2>3. sock' = sock
    BY <1>2, <1>13 DEF network_send_receive, Send, SendLost, SendFails, closes, Await,
       Receive, ReceiveFails
  <2>4. CASE conns' = conns
    BY <1>3, <2>1, <2>2, <2>3, <2>4, PointersKeep
  <2>5. CASE Receive(p)
    BY <1>3, <2>1, <2>2, <2>3, <2>5, ReceiveEffect, PointersKeep
  <2>6. CASE Send(p)
    <3> DEFINE c == CallSocket
    <3>1. /\ c \in DOMAIN conns /\ DOMAIN conns' = DOMAIN conns
          /\ conns'[c].out = Append(conns[c].out, request(p))
          /\ conns[c].out \in Seq(Piece)
          /\ \A d \in DOMAIN conns : d # c => conns'[d] = conns[d]
          /\ conns'[c].server = conns[c].server
          /\ main \in {"length", "body"}
      BY <2>6, SendEffect, ConnFacts
    <3>2. call.kind = "head" => HeadLike(conns[c].server)
      <4> SUFFICES ASSUME call.kind = "head" PROVE HeadLike(conns[c].server)
        OBVIOUS
      <4>1. given.at = "live" /\ c = socket(given)
        BY <3>1, CallSocketType, ConnFacts DEF CallSocket
      <4>2. CASE call.leaked # Null
        BY <1>3, <4>1, <4>2 DEF Heads, given
      <4>3. CASE call.leaked = Null
        BY <1>3, <4>1, <4>3 DEF Heads, given, Socket
      <4> QED
        BY <4>2, <4>3
    <3>3. request(p).kind = call.kind
      BY DEF request
    <3> HIDE DEF c
    <3>4. ASSUME NEW i \in DOMAIN conns'[c].out, conns'[c].out[i].kind = "head"
          PROVE  \/ HeadLike(conns[c].server)
                 \/ \E j \in DOMAIN conns[c].out : conns[c].out[j] = conns'[c].out[i]
      <4>1. CASE i \in DOMAIN conns[c].out
        <5>1. conns'[c].out[i] = conns[c].out[i]
          BY <3>1, <4>1
        <5> QED
          BY <4>1, <5>1
      <4>2. CASE i \notin DOMAIN conns[c].out
        <5>1. conns'[c].out[i] = request(p)
          BY <3>1, <4>2
        <5> QED
          BY <3>2, <3>3, <3>4, <5>1
      <4> QED
        BY <4>1, <4>2
    <3>5. \A d \in DOMAIN conns : \A i \in DOMAIN conns'[d].out :
            conns'[d].out[i].kind = "head" =>
              \/ HeadLike(conns[d].server)
              \/ \E j \in DOMAIN conns[d].out : conns[d].out[j] = conns'[d].out[i]
      BY <3>1, <3>4
    <3>6. \A d \in DOMAIN conns : conns'[d].server = conns[d].server
      BY <3>1
    <3> QED
      BY <1>3, <2>1, <2>2, <2>3, <3>1, <3>5, <3>6, PointersKeep
  <2> QED
    BY <1>13, <2>4, <2>5, <2>6 DEF network_send_receive, SendLost, SendFails, Await,
       ReceiveFails
<1> QED
  BY <1>4, <1>5, <1>6, <1>7, <1>8, <1>9, <1>10, <1>11, <1>12, <1>13,
     <1>14, Steps

LEMMA HeadImplies == HeadInv => PutsReachHeads
  BY DEF HeadInv, Heads, HeadLike, PutsReachHeads
-----------------------------------------------------------------------------
(* The answers. *)

(* Nothing is owed to main, and what can be reached is clean. *)
AllClean == \A c \in DOMAIN conns : Reached(c) => Clean(conns[c])

LEMMA AnswerInit == Init => AnswerInv
<1> SUFFICES ASSUME Init PROVE AnswerInv
  OBVIOUS
<1>1. conns = <<>> /\ main = "start"
  BY DEF Init
<1> QED
  BY <1>1 DEF AnswerInv, Reading

(* The places where nothing of a request has been sent. *)
Unsent == Places \ {"body", "await_length", "read_length", "await_body", "read_body"}

LEMMA NothingSent ==
  ASSUME TypeInv, AnswerInv, main \in Unsent
  PROVE  AllClean
  BY DEF AnswerInv, AllClean, Owed, Unsent

LEMMA CleanKeeps ==
  ASSUME TypeInv, AllClean, conns' = conns, main' \notin Reading,
         \A f \in Fd : sock'[f] \in {0, sock[f]}
  PROVE  AnswerInv'
<1> SUFFICES ASSUME NEW c \in DOMAIN conns, Reached(c)'
             PROVE  Clean(conns[c])
  BY DEF AnswerInv, Clean
<1>1. PICK f \in Fd : sock'[f] = c
  BY DEF Reached
<1>2. sock[f] = c
  BY <1>1, ConnFacts
<1> QED
  BY <1>2 DEF AllClean, Reached

(* A step that a request does not see, except that its connection may go. *)
LEMMA AnswerKeeps ==
  ASSUME TypeInv, AnswerInv, main' = main, calls' = calls,
         call'.kind = call.kind, call'.conn = call.conn,
         \A c \in DOMAIN conns' :
           \/ Clean(conns'[c])
           \/ /\ c \in DOMAIN conns
              /\ Clean(conns[c]) => Clean(conns'[c])
              /\ Reached(c) /\ Owed(conns[c]) => Clean(conns'[c]) \/ Owed(conns'[c]),
         \A f \in Fd : sock'[f] \in DOMAIN conns => sock[f] = sock'[f],
         Calling /\ CallSocket # 0 =>
           CallSocket' = CallSocket \/ \A f \in Fd : sock'[f] # CallSocket
  PROVE  AnswerInv'
<1>1. \A k : Owed(k)' <=> Owed(k)
  BY DEF Owed, Both, request
<1>2. \A k : Owed(k) => Calling
  BY DEF Owed, Calling
<1>3. main \in Reading => Calling /\ call.conn \in DOMAIN conns
  BY ConnFacts DEF Reading, Calling, TypeInv, CallTypes
<1>4. ASSUME NEW c \in DOMAIN conns', Reached(c)', ~ Clean(conns'[c])
      PROVE  c = Current' /\ Owed(conns'[c])
  <2>1. c \in DOMAIN conns /\ ~ Clean(conns[c])
    BY <1>4
  <2>2. Reached(c)
    BY <1>4, <2>1 DEF Reached
  <2>3. c = Current /\ Owed(conns[c]) /\ Calling
    BY <1>2, <2>1, <2>2 DEF AnswerInv
  <2>4. Owed(conns'[c])
    BY <1>4, <2>2, <2>3
  <2>5. CASE main \in Reading
    BY <2>3, <2>4, <2>5 DEF Current
  <2>6. CASE main \notin Reading
    <3>1. c = CallSocket /\ c # 0 /\ \E f \in Fd : sock'[f] = c
      BY <1>4, <2>1, <2>3, <2>6, ConnFacts DEF Current, Reached
    <3>2. CallSocket' = CallSocket
      BY <2>3, <3>1
    <3> QED
      BY <2>4, <2>6, <3>1, <3>2 DEF Current
  <2> QED
    BY <2>5, <2>6
<1>5. ASSUME main \in Reading, NEW f \in Fd, sock'[f] = call.conn
      PROVE  call.conn = CallSocket'
  <2>1. sock[f] = call.conn /\ Calling /\ call.conn # 0
    BY <1>3, <1>5, ConnFacts
  <2>2. call.conn = CallSocket
    BY <1>5, <2>1 DEF AnswerInv
  <2> QED
    BY <1>5, <2>1, <2>2
<1>6. \A c \in DOMAIN conns' :
        Reached(c)' => Clean(conns[c])' \/ (c = Current /\ Owed(conns[c]))'
  <2> SUFFICES ASSUME NEW c \in DOMAIN conns', Reached(c)'
               PROVE  Clean(conns'[c]) \/ (c = Current' /\ Owed(conns[c])')
    BY DEF Clean
  <2>1. Owed(conns[c])' <=> Owed(conns'[c])
    BY <1>1 DEF Owed, Both, request
  <2> QED
    BY <1>4, <2>1
<1>7. main' \in Reading => ((\E f \in Fd : sock'[f] = call'.conn) => call'.conn = CallSocket')
  BY <1>5
<1> QED
  BY <1>6, <1>7 DEF AnswerInv

(* The connection of a request is its own, and goes with its descriptor. *)
LEMMA DisconnectCall ==
  ASSUME TypeInv, NEW w \in Which, disconnect(w), call' = call
  PROVE  /\ \A f \in Fd : sock'[f] \in {0, sock[f]}
         /\ CallSocket # 0 =>
              CallSocket' = CallSocket \/ \A f \in Fd : sock'[f] # CallSocket
<1>1. /\ rtable \in [Which -> Rtable] /\ rtable[w] # Freed
      /\ sock \in [Fd -> 0 .. Len(conns)]
      /\ \A f, g \in Fd : sock[f] # 0 /\ sock[f] = sock[g] => f = g
  BY DEF TypeInv, SockTypes, disconnect, Freed
<1>2. CASE rtable[w] = Null
  <2>1. rtable' = rtable /\ sock' = sock
    BY <1>1, <1>2 DEF disconnect
  <2> QED
    BY <2>1 DEF CallSocket, given, socket
<1>3. CASE rtable[w] # Null
  <2>1. PICK f \in Fd : rtable[w] = Live(f) /\ rtable[w].fd = f
    BY <1>1, <1>3, LiveFacts DEF Rtable
  <2>2. rtable' = [rtable EXCEPT ![w] = Freed] /\ sock' = [sock EXCEPT ![f] = 0]
    BY <1>3, <2>1 DEF disconnect
  <2>3. \A g \in Fd : sock'[g] \in {0, sock[g]}
    BY <1>1, <2>2
  <2>4. ASSUME CallSocket # 0, NEW g \in Fd, sock'[g] = CallSocket
        PROVE  CallSocket' = CallSocket
    <3>1. given.at = "live" /\ given.fd \in Fd /\ sock[given.fd] = CallSocket
      BY <2>4, CallSocketType
    <3>2. g # f /\ sock[g] = CallSocket
      BY <1>1, <2>2, <2>4
    <3>3. given.fd = g
      BY <1>1, <2>4, <3>1, <3>2
    <3>4. given # rtable[w]
      BY <2>1, <3>2, <3>3
    <3>5. given' = given
      BY <1>1, <2>2, <3>4, Facts DEF given, TypeInv, CallTypes
    <3> QED
      BY <2>4, <3>1, <3>3, <3>5 DEF CallSocket, socket
  <2> QED
    BY <2>3, <2>4
<1> QED
  BY <1>2, <1>3

LEMMA AssignCall ==
  ASSUME TypeInv, NEW w \in Which, NEW r, assigns(w, r), main' = main
  PROVE  /\ call'.kind = call.kind /\ call'.conn = call.conn
         /\ Calling /\ given.at = "live" => given' = given
<1>1. /\ rtable \in [Which -> Rtable] /\ rtable' = [rtable EXCEPT ![w] = r]
      /\ call \in [kind : Which, conn : 0 .. Len(conns), leaked : Rtable \ {Freed}]
      /\ call' = IF uses(w) /\ rtable[w].at = "live"
                 THEN [call EXCEPT !.leaked = rtable[w]] ELSE call
  BY DEF assigns, TypeInv, SockTypes, CallTypes
<1>2. call'.kind = call.kind /\ call'.conn = call.conn
  BY <1>1
<1>3. ASSUME Calling, given.at = "live" PROVE given' = given
  <2>1. CASE call.leaked # Null
    BY <1>1, <2>1 DEF given, uses
  <2>2. CASE call.leaked = Null /\ call.kind = w
    <3>1. rtable[w].at = "live" /\ uses(w) /\ given = rtable[w]
      BY <1>3, <2>2 DEF given, uses
    <3>2. call'.leaked = rtable[w] /\ rtable[w] # Null
      BY <1>1, <3>1 DEF Null
    <3> QED
      BY <3>1, <3>2 DEF given
  <2>3. CASE call.leaked = Null /\ call.kind # w
    <3>1. call' = call
      BY <1>1, <2>3 DEF uses
    <3>2. rtable'[call.kind] = rtable[call.kind]
      BY <1>1, <2>3
    <3> QED
      BY <2>3, <3>1, <3>2 DEF given
  <2> QED
    BY <2>1, <2>2, <2>3
<1> QED
  BY <1>2, <1>3

(* A server that dies, answers, or does not. *)
LEMMA AnswerServers ==
  ASSUME TypeInv, AnswerInv,
         \/ \E s \in Server : Start(s) \/ Crash(s) \/ Publish(s) \/ Expire(s)
         \/ \E c \in DOMAIN conns : Serve(c) \/ Stops(c)
  PROVE  AnswerInv'
<1>1. UNCHANGED <<rtable, sock, main, call, calls>>
  BY StopsEffect DEF Start, Crash, Publish, Expire, Changes, Serve, mainvars
<1>2. CallSocket' = CallSocket
  BY <1>1 DEF CallSocket, given, socket
<1>3. CASE conns' = conns
  BY <1>1, <1>2, <1>3, AnswerKeeps
<1>4. ASSUME DOMAIN conns' = DOMAIN conns,
             \A c \in DOMAIN conns : /\ conns'[c].in = conns[c].in
                                    /\ conns'[c].out \in {<<>>, conns[c].out}
      PROVE  AnswerInv'
  <2> SUFFICES ASSUME NEW c \in DOMAIN conns
               PROVE  /\ Clean(conns[c]) => Clean(conns'[c])
                      /\ Owed(conns[c]) => Clean(conns'[c]) \/ Owed(conns'[c])
    BY <1>1, <1>2, <1>4, AnswerKeeps
  <2>1. conns'[c].in = conns[c].in /\ conns'[c].out \in {<<>>, conns[c].out}
    BY <1>4
  <2>2. CASE conns'[c].out = conns[c].out
    BY <2>1, <2>2 DEF Clean, Owed
  <2>3. CASE conns'[c].out = <<>> /\ conns[c].in = <<>>
    BY <2>1, <2>3 DEF Clean
  <2>4. CASE conns'[c].out = <<>> /\ conns[c].in # <<>>
    BY <2>1, <2>4 DEF Clean, Owed
  <2> QED
    BY <2>1, <2>2, <2>3, <2>4
<1>6. ASSUME NEW s \in Server, Crash(s) PROVE AnswerInv'
  BY <1>4, <1>6, CrashEffect
<1>7. ASSUME NEW c \in DOMAIN conns, Stops(c) PROVE AnswerInv'
  BY <1>4, <1>7, StopsEffect
<1>5. ASSUME NEW c \in DOMAIN conns, Serve(c) PROVE AnswerInv'
  <2>1. /\ DOMAIN conns' = DOMAIN conns
        /\ Len(conns[c].out) >= 2 /\ conns[c].out[1].part = "length"
        /\ conns'[c].out = SubSeq(conns[c].out, 3, Len(conns[c].out))
        /\ conns'[c].in = conns[c].in \o <<[conns[c].out[2] EXCEPT !.part = "length"],
                                           conns[c].out[2]>>
        /\ \A d \in DOMAIN conns : d # c => conns'[d] = conns[d]
        /\ conns[c].out \in Seq(Piece) /\ conns[c].in \in Seq(Piece)
    BY <1>5, ServeEffect, ConnFacts
  <2>2. ~ Clean(conns[c])
    <3>1. conns[c].out # <<>> /\ Head(conns[c].out) = conns[c].out[1]
      BY <2>1
    <3> QED
      BY <2>1, <3>1 DEF Clean
  <2>3. ASSUME Owed(conns[c]) PROVE Owed(conns'[c])
    <3> DEFINE L == request("length")
               B == request("body")
    <3>1. /\ main \in {"await_length", "read_length"} /\ conns[c].in = <<>>
          /\ conns[c].out = Both
      <4>1. conns[c].out # <<request("length")>> /\ conns[c].out # <<>>
        <5>1. Len(conns[c].out) >= 2
          BY <2>1
        <5>2. Len(<<request("length")>>) = 1 /\ Len(<<>>) = 0
          OBVIOUS
        <5>3. ~ (1 >= 2) /\ ~ (0 >= 2)
          OBVIOUS
        <5> QED
          BY <5>1, <5>2, <5>3, ZenonT(40)
      <4> QED
        BY <2>3, <4>1 DEF Owed
    <3>2. conns[c].out = <<L, B>>
      BY <3>1 DEF Both
    <3>3. [B EXCEPT !.part = "length"] = L
      BY DEF request
    <3> HIDE DEF L, B
    <3>4. conns[c].out[2] = B /\ Len(conns[c].out) = 2
      BY <3>2
    <3>5. conns'[c].in = <<L, B>>
      BY <2>1, <3>1, <3>3, <3>4
    <3>6. conns'[c].out = <<>>
      BY <2>1, <3>2
    <3>7. conns'[c].in = Both
      BY <3>5 DEF Both, L, B
    <3> QED
      BY <3>1, <3>6, <3>7 DEF Owed
  <2>4. \A d \in DOMAIN conns' :
          \/ Clean(conns'[d])
          \/ /\ d \in DOMAIN conns
             /\ Clean(conns[d]) => Clean(conns'[d])
             /\ Reached(d) /\ Owed(conns[d]) => Clean(conns'[d]) \/ Owed(conns'[d])
    <3> SUFFICES ASSUME NEW d \in DOMAIN conns
                 PROVE  /\ Clean(conns[d]) => Clean(conns'[d])
                        /\ Owed(conns[d]) => Owed(conns'[d])
      BY <2>1
    <3>1. CASE d = c
      BY <2>2, <2>3, <3>1
    <3>2. CASE d # c
      <4>1. conns'[d] = conns[d]
        BY <2>1, <3>2
      <4> QED
        BY <4>1
    <3> QED
      BY <3>1, <3>2
  <2> QED
    BY <1>1, <1>2, <2>4, AnswerKeeps
<1> QED
  BY <1>3, <1>5, <1>6, <1>7 DEF Start, Publish, Expire, Changes

(* The callback replaces a connection. *)
LEMMA AnswerCallback ==
  ASSUME TypeInv, AnswerInv, NEW a \in Activation, NEW w \in Which,
         Leave(a, w) \/ Join(a, w) \/ JoinFails(a, w)
  PROVE  AnswerInv'
<1>1. main' = main /\ calls' = calls
  BY DEF Leave, Join, JoinFails
<1>2. CASE Leave(a, w)
  <2>1. disconnect(w) /\ call' = call /\ conns' = conns
    BY <1>2 DEF Leave
  <2>2. \A f \in Fd : sock'[f] \in DOMAIN conns => sock[f] = sock'[f]
    BY <2>1, DisconnectCall, ConnFacts
  <2> QED
    BY <1>1, <2>1, <2>2, DisconnectCall, AnswerKeeps
<1>3. CASE JoinFails(a, w)
  <2>1. assigns(w, Null) /\ sock' = sock /\ conns' = conns
    BY <1>3 DEF JoinFails
  <2>2. call'.kind = call.kind /\ call'.conn = call.conn
    BY <1>1, <2>1, AssignCall
  <2>3. Calling /\ CallSocket # 0 => CallSocket' = CallSocket
    <3> SUFFICES ASSUME Calling, CallSocket # 0 PROVE CallSocket' = CallSocket
      OBVIOUS
    <3>1. given.at = "live"
      BY CallSocketType
    <3>2. given' = given
      BY <1>1, <2>1, <3>1, AssignCall
    <3> QED
      BY <2>1, <3>2 DEF CallSocket, socket
  <2> QED
    BY <1>1, <2>1, <2>2, <2>3, AnswerKeeps
<1>4. CASE Join(a, w)
  <2> DEFINE f == Min(Unused)
             l == Len(conns)
  <2>1. /\ assigns(w, Live(f)) /\ f \in Fd /\ sock[f] = 0
        /\ sock' = [sock EXCEPT ![f] = l + 1] /\ sock \in [Fd -> 0 .. l]
        /\ DOMAIN conns = 1 .. l /\ DOMAIN conns' = 1 .. l + 1 /\ l \in Nat
    BY <1>4, JoinEffect, ConnFacts DEF Join, TypeInv, SockTypes
  <2>2. /\ \A c \in DOMAIN conns : conns'[c] = conns[c]
        /\ conns'[l + 1] = [server |-> act[a].to, at |-> "serving", out |-> <<>>, in |-> <<>>]
    BY <1>4, JoinEffect
  <2> HIDE DEF f, l
  <2>3. \A g \in Fd : sock'[g] \in DOMAIN conns => sock[g] = sock'[g]
    BY <2>1
  <2>4. \A c \in DOMAIN conns' : Clean(conns'[c]) \/ (c \in DOMAIN conns /\ conns'[c] = conns[c])
    <3>1. Clean(conns'[l + 1])
      BY <2>2 DEF Clean
    <3>2. \A c \in DOMAIN conns' : c = l + 1 \/ c \in DOMAIN conns
      BY <2>1
    <3> QED
      BY <2>2, <3>1, <3>2
  <2>5. call'.kind = call.kind /\ call'.conn = call.conn
    BY <1>1, <2>1, AssignCall
  <2>6. ASSUME Calling, CallSocket # 0 PROVE CallSocket' = CallSocket
    <3>1. given.at = "live" /\ given.fd \in Fd /\ sock[given.fd] = CallSocket
      BY <2>6, CallSocketType
    <3>2. given' = given
      BY <1>1, <2>1, <2>6, <3>1, AssignCall
    <3>3. sock'[given.fd] = sock[given.fd]
      BY <2>1, <2>6, <3>1
    <3> QED
      BY <3>1, <3>2, <3>3 DEF CallSocket, socket
  <2> QED
    BY <1>1, <2>3, <2>4, <2>5, <2>6, AnswerKeeps
<1> QED
  BY <1>2, <1>3, <1>4

(* A piece is written to the connection of the request. *)
LEMMA AnswerSend ==
  ASSUME TypeInv, AnswerInv, NEW p \in {"length", "body"}, Send(p)
  PROVE  AnswerInv'
<1>1. PICK c \in DOMAIN conns : c = CallSocket
  BY SendEffect
<1>2. PICK k \in Conn : k = conns[c] /\ k.out \in Seq(Piece)
  BY ConnFacts
<1>3. PICK L \in Piece : L = request("length")
  <2>1. request("length") \in Piece
    BY Facts DEF request, Piece, TypeInv, CallTypes
  <2> QED
    BY <2>1
<1>4. PICK B \in Piece : B = request("body") /\ B.part = "body"
  <2>1. request("body") \in Piece /\ request("body").part = "body"
    BY Facts DEF request, Piece, TypeInv, CallTypes
  <2> QED
    BY <2>1
<1>5. PICK k2 : k2 = conns'[c]
  OBVIOUS
<1>6. /\ main = p /\ main' = next_part(p) /\ call' = call /\ calls' = calls
      /\ UNCHANGED <<rtable, sock>> /\ DOMAIN conns' = DOMAIN conns
      /\ k2.in = k.in /\ k2.out = Append(k.out, request(p))
      /\ \A d \in DOMAIN conns : d # c => conns'[d] = conns[d]
  BY <1>1, <1>2, <1>5, SendEffect
<1>7. main' \notin Reading /\ main \notin Reading
  BY <1>6 DEF next_part, Reading
<1>8. CallSocket' = c
  BY <1>1, <1>6 DEF CallSocket, given, socket
<1>9. Current' = c /\ Current = c
  BY <1>1, <1>7, <1>8 DEF Current
<1>10. \A d \in DOMAIN conns : Reached(d)' => Reached(d)
  BY <1>6, <1>7 DEF Reached
<1>11. Reached(c)
  BY <1>1, ConnFacts, CallSocketType DEF Reached
<1>12. ASSUME NEW d \in DOMAIN conns, Reached(d)', d # c
       PROVE  Clean(conns[d])'
  <2>1. Clean(conns[d])
    BY <1>9, <1>10, <1>12 DEF AnswerInv
  <2> QED
    BY <1>6, <1>12, <2>1 DEF Clean
<1>13. Clean(k) \/ Owed(k)
  BY <1>2, <1>9, <1>11 DEF AnswerInv
<1>14. ASSUME Clean(k), k.out # <<>> \/ p = "body" PROVE Clean(k2)
  <2>1. CASE k.out # <<>>
    <3>1. Head(k2.out) = Head(k.out)
      BY <1>2, <1>6, <2>1
    <3> QED
      BY <1>6, <1>14, <2>1, <3>1 DEF Clean
  <2>2. CASE k.out = <<>>
    <3>1. k2.out = <<B>>
      BY <1>4, <1>6, <1>14, <2>2
    <3> QED
      BY <1>4, <1>6, <1>14, <3>1 DEF Clean
  <2> QED
    BY <2>1, <2>2
<1>15. Clean(k2) \/ Owed(conns[c])'
  <2>1. CASE p = "length"
    <3>1. main = "length" /\ main' = "body" /\ request(p) = L
      BY <1>3, <1>6, <2>1 DEF next_part
    <3>2. Clean(k)
      BY <1>13, <3>1 DEF Owed
    <3>3. CASE k.out = <<>>
      <4>1. k2.in = <<>> /\ k2.out = <<L>>
        BY <1>3, <1>6, <3>1, <3>2, <3>3 DEF Clean
      <4>2. L = request("length")'
        BY <1>3, <1>6 DEF request
      <4> QED
        BY <1>5, <3>1, <4>1, <4>2 DEF Owed
    <3> QED
      BY <1>14, <3>2, <3>3
  <2>2. CASE p = "body"
    <3>1. main = "body" /\ main' = "await_length" /\ request(p) = B
      BY <1>4, <1>6, <2>2 DEF next_part
    <3>2. CASE Clean(k)
      BY <1>14, <2>2, <3>2
    <3>3. CASE Owed(k)
      <4>1. k.in = <<>> /\ k.out = <<L>>
        BY <1>3, <3>1, <3>3 DEF Owed
      <4>2. k2.in = <<>> /\ k2.out = <<L, B>>
        <5>1. k2.in = <<>> /\ k2.out = Append(<<L>>, B)
          BY <1>6, <3>1, <4>1
        <5> DEFINE two == [i \in 1 .. 2 |-> IF i = 1 THEN L ELSE B]
        <5>2. Append(<<L>>, B) = two
          OBVIOUS
        <5>3. <<L, B>> = two
          OBVIOUS
        <5> QED
          BY <5>1, <5>2, <5>3
      <4>3. Both' = <<L, B>>
        BY <1>3, <1>4, <1>6 DEF request, Both
      <4> QED
        BY <1>5, <3>1, <4>2, <4>3 DEF Owed
    <3> QED
      BY <1>13, <3>2, <3>3
  <2> QED
    BY <2>1, <2>2
<1> QED
  BY <1>5, <1>6, <1>7, <1>9, <1>12, <1>15 DEF AnswerInv, Clean

(* read_all begins. *)
LEMMA AnswerAwait ==
  ASSUME TypeInv, AnswerInv, NEW p \in {"length", "body"}, Await(p)
  PROVE  AnswerInv'
<1>1. PICK c \in 0 .. Len(conns) : c = CallSocket
  BY CallSocketType
<1>2. /\ main = await(p) /\ main \notin Reading
      /\ UNCHANGED <<rtable, sock, conns, calls>>
  BY DEF Await, await, Reading
<1>3. Current = c
  BY <1>1, <1>2 DEF Current
<1>4. CASE c = 0
  <2>1. AllClean
    BY <1>3, <1>4, ConnFacts DEF AnswerInv, AllClean
  <2>2. main' \notin Reading
    BY <1>1, <1>4 DEF Await, fails, Reading
  <2> QED
    BY <1>2, <2>1, <2>2, CleanKeeps
<1>5. CASE c # 0
  <2>1. /\ main' = read(p) /\ main' \in Reading
        /\ call'.conn = c /\ call'.kind = call.kind /\ call'.leaked = call.leaked
    BY <1>1, <1>5 DEF Await, read, Reading, TypeInv, CallTypes
  <2>2. Current' = c
    BY <2>1 DEF Current
  <2>3. CallSocket' = c
    BY <1>1, <1>2, <2>1 DEF CallSocket, given, socket
  <2>4. \E f \in Fd : sock[f] = c
    BY <1>1, <1>5, CallSocketType
  <2>5. ASSUME NEW d \in DOMAIN conns, Reached(d)' PROVE Reached(d)
    BY <1>2, <2>1, <2>4, <2>5 DEF Reached
  <2>6. ASSUME NEW d \in DOMAIN conns, Owed(conns[d]) PROVE Owed(conns[d])'
    BY <1>2, <2>1, <2>6 DEF Owed, Both, request, await, read
  <2> QED
    BY <1>2, <1>3, <2>1, <2>2, <2>3, <2>5, <2>6 DEF AnswerInv, Clean
<1> QED
  BY <1>4, <1>5

(* A piece that has come is that of the request. *)
LEMMA AnswerHead ==
  ASSUME TypeInv, AnswerInv, NEW p \in {"length", "body"}, Receive(p)
  PROVE  /\ Head(conns[call.conn].in) = request(p)
         /\ conns[call.conn].out = <<>>
         /\ Tail(conns[call.conn].in) = IF p = "length" THEN <<request("body")>> ELSE <<>>
<1>1. PICK c \in DOMAIN conns : c = call.conn
  BY ReceiveEffect
<1>2. main = read(p) /\ main \in Reading /\ conns[c].in # <<>>
  BY <1>1 DEF Receive, read, Reading
<1>3. Reached(c) /\ Current = c
  BY <1>1, <1>2 DEF Reached, Current
<1>4. Owed(conns[c])
  BY <1>2, <1>3 DEF AnswerInv, Clean
<1>5. CASE p = "length"
  <2>1. conns[c].in = Both /\ conns[c].out = <<>>
    BY <1>2, <1>4, <1>5 DEF Owed, read
  <2>2. Head(Both) = request("length") /\ Tail(Both) = <<request("body")>>
    BY DEF Both
  <2> QED
    BY <1>1, <1>5, <2>1, <2>2
<1>6. CASE p = "body"
  <2>1. conns[c].in = <<request("body")>> /\ conns[c].out = <<>>
    BY <1>2, <1>4, <1>6 DEF Owed, read
  <2> QED
    BY <1>1, <1>6, <2>1
<1> QED
  BY <1>5, <1>6

LEMMA AnswerReceive ==
  ASSUME TypeInv, AnswerInv, NEW p \in {"length", "body"}, Receive(p)
  PROVE  AnswerInv'
<1>1. PICK c \in DOMAIN conns : c = call.conn
  BY ReceiveEffect
<1>2. /\ DOMAIN conns' = DOMAIN conns /\ main = read(p) /\ main' \notin Reading
      /\ conns'[c].in = Tail(conns[c].in) /\ conns'[c].out = conns[c].out
      /\ \A d \in DOMAIN conns : d # c => conns'[d] = conns[d]
      /\ UNCHANGED <<rtable, sock, calls>>
  BY <1>1, ReceiveEffect DEF Receive
<1>3. main \in Reading /\ Current = c
  BY <1>1, <1>2 DEF read, Reading, Current
<1>4. ASSUME NEW d \in DOMAIN conns, Reached(d)' PROVE Reached(d)
  BY <1>2, <1>4 DEF Reached
<1>5. ASSUME NEW d \in DOMAIN conns, Reached(d)', d # c PROVE Clean(conns[d])'
  <2>1. Clean(conns[d])
    BY <1>3, <1>4, <1>5 DEF AnswerInv
  <2> QED
    BY <1>2, <1>5, <2>1 DEF Clean
<1>6. conns[c].out = <<>> /\ Tail(conns[c].in) = IF p = "length" THEN <<request("body")>> ELSE <<>>
  BY <1>1, AnswerHead
<1>7. CASE p = "length"
  <2>1. main' = "await_body" /\ call' = call
    BY <1>7 DEF Receive, steps
  <2>2. Current' = CallSocket /\ CallSocket' = CallSocket
    BY <1>2, <2>1 DEF Current, Reading, CallSocket, given, socket
  <2>3. Owed(conns[c])'
    <3>1. request("body")' = request("body")
      BY <1>2, <2>1 DEF request
    <3> QED
      BY <1>2, <1>6, <1>7, <2>1, <3>1 DEF Owed
  <2>4. Reached(c)' => c = Current'
    <3>1. Reached(c)' => \E f \in Fd : sock[f] = c
      BY <1>2 DEF Reached
    <3>2. (\E f \in Fd : sock[f] = c) => c = CallSocket
      BY <1>1, <1>3 DEF AnswerInv
    <3> QED
      BY <2>2, <3>1, <3>2
  <2> QED
    BY <1>2, <1>5, <2>3, <2>4 DEF AnswerInv
<1>8. CASE p = "body"
  <2>1. Clean(conns[c])'
    BY <1>2, <1>6, <1>8 DEF Clean
  <2> QED
    BY <1>2, <1>5, <2>1 DEF AnswerInv
<1> QED
  BY <1>7, <1>8

(* A request ends without an answer, or goes on without having been sent: what
   its server had sent or taken is gone, for the server has closed it. *)
LEMMA AnswerGone ==
  ASSUME TypeInv, AnswerInv, NEW p \in {"length", "body"},
         SendLost(p) \/ SendFails(p) \/ ReceiveFails(p)
  PROVE  AnswerInv'
<1>1. conns' = conns /\ main' \notin Reading
  BY DEF SendLost, SendFails, ReceiveFails, steps, fails, next_part, Reading
<1>2. \A f \in Fd : sock'[f] \in {0, sock[f]}
  BY DEF SendLost, SendFails, ReceiveFails, closes, TypeInv, SockTypes
<1>3. \A c \in DOMAIN conns : conns[c].at = "closed" => conns[c].out = <<>>
  BY DEF TypeInv, SockTypes
<1>4. ASSUME NEW c \in DOMAIN conns, c = Current, Reached(c) PROVE Clean(conns[c])
  <2>1. CASE SendLost(p) \/ SendFails(p)
    <3>1. main \in {"length", "body"} /\ c = CallSocket
      BY <1>4, <2>1 DEF SendLost, SendFails, Current, Reading
    <3>2. conns[c].out = <<>>
      BY <1>3, <2>1, <3>1, ConnFacts DEF SendLost, SendFails
    <3>3. ~ Owed(conns[c])
      BY <3>1, <3>2 DEF Owed
    <3> QED
      BY <1>4, <3>3 DEF AnswerInv
  <2>2. CASE ReceiveFails(p)
    <3>1. c = call.conn
      BY <1>4, <2>2 DEF ReceiveFails, read, Current, Reading
    <3>2. conns[c].in = <<>> /\ conns[c].out = <<>>
      BY <1>3, <2>2, <3>1 DEF ReceiveFails
    <3> QED
      BY <3>2 DEF Clean
  <2> QED
    BY <2>1, <2>2
<1>5. AllClean
  BY <1>4 DEF AllClean, AnswerInv
<1> QED
  BY <1>1, <1>2, <1>5, CleanKeeps

LEMMA AnswerStep ==
  ASSUME TypeInv, AnswerInv, [Next]_vars
  PROVE  AnswerInv'
<1>1. CASE UNCHANGED vars
  <2>1. UNCHANGED <<rtable, sock, conns, main, call, calls>>
    BY <1>1 DEF vars, mainvars
  <2>2. CallSocket' = CallSocket
    BY <2>1 DEF CallSocket, given, socket
  <2> QED
    BY <2>1, <2>2, AnswerKeeps
<1>2. ASSUME NEW how \in {"stopped", "crashed"}, Ends(how) PROVE AnswerInv'
  BY <1>2 DEF Ends, AnswerInv, Reading
<1>3. CASE \/ child_watcher
           \/ \E a \in Activation : ListChildren(a) \/ Compare(a)
           \/ \E a \in Activation : \E w \in Which : Unchanged(a, w)
  <2>1. UNCHANGED <<rtable, sock, conns, main, call, calls>>
    BY <1>3 DEF child_watcher, ListChildren, Compare, Unchanged, mainvars
  <2>2. CallSocket' = CallSocket
    BY <2>1 DEF CallSocket, given, socket
  <2> QED
    BY <2>1, <2>2, AnswerKeeps
<1>4. CASE \/ Connected /\ main' = "idle"
           \/ NoAnswer
           \/ \E w \in Which : Request(w)
           \/ QuitClose
  <2>1. main \in Unsent
    BY <1>4, MainEffect DEF Unsent, Places
  <2>2. sock' = sock /\ conns' = conns
    BY <1>4, MainEffect
  <2>3. main' \notin Reading
    BY <1>4, MainEffect DEF Reading
  <2> QED
    BY <2>1, <2>2, <2>3, NothingSent, CleanKeeps
<1>5. CASE quit_fails("idle", "head", "quit_tail") \/ quit_fails("quit_tail", "tail", "quit_close")
  <2>1. main \in Unsent /\ main' \notin Reading
    BY <1>5 DEF quit_fails, Unsent, Places, Reading
  <2>2. conns' = conns /\ call' = call /\ \E w \in Which : disconnect(w)
    BY <1>5 DEF quit_fails, Which
  <2>3. \A f \in Fd : sock'[f] \in {0, sock[f]}
    BY <2>2, DisconnectCall
  <2> QED
    BY <2>1, <2>2, <2>3, NothingSent, CleanKeeps
<1>6. ASSUME NEW p \in {"length", "body"}, network_send_receive(p) PROVE AnswerInv'
  BY <1>6, AnswerSend, AnswerAwait, AnswerReceive, AnswerGone DEF network_send_receive
<1> QED
  BY <1>1, <1>2, <1>3, <1>4, <1>5, <1>6, Steps, AnswerServers, AnswerCallback
-----------------------------------------------------------------------------
(* The connections, while nothing has gone wrong. *)

LEMMA CalmInit == Init => CalmInv
<1> SUFFICES ASSUME Init PROVE AloneInv /\ FreshInv /\ SettledInv /\ OpenInv
  BY DEF CalmInv, Calm
<1>1. /\ act["watch"].at = "idle" /\ act["main"].at = "list"
      /\ \A w \in Which : rtable[w] = Null /\ Node(w) = NoNode
      /\ \A f \in Fd : sock[f] = 0
      /\ main = "start" /\ call.leaked = Null /\ ~ watch
  BY Facts DEF Init, Idle, NoCall, Node
<1>2. Null.at = "null" /\ Null # Freed /\ \A w \in Which : join(w) \in {"join_head", "join_tail"}
  BY DEF Null, Freed, join
<1>3. AloneInv
  BY <1>1, <1>2, Facts DEF AloneInv
<1>4. FreshInv
  BY <1>1, Facts DEF FreshInv
<1>5. SettledInv
  <2>1. \A w \in Which : \A a \in Activation :
          act[a].at # "compare" /\ act[a].at \notin Before(w) \cup {join(w)}
    BY <1>1, <1>2, Facts DEF Before
  <2> QED
    BY <1>1, <2>1 DEF SettledInv
<1>6. OpenInv
  BY <1>1 DEF OpenInv
<1> QED
  BY <1>3, <1>4, <1>5, <1>6

(* The connection that an rtable_t has. *)
LEMMA SocketFacts ==
  ASSUME TypeInv, PointerInv, NEW w \in Which, rtable[w].at = "live"
  PROVE  /\ rtable[w].fd \in Fd /\ rtable[w] = Live(rtable[w].fd)
         /\ Socket(w) = sock[rtable[w].fd] /\ Socket(w) \in DOMAIN conns
<1>1. rtable[w] \in Rtable /\ Socket(w) # 0
  BY DEF PointerInv, TypeInv, SockTypes
<1>2. rtable[w].fd \in Fd /\ rtable[w] = Live(rtable[w].fd) /\ Socket(w) = sock[rtable[w].fd]
  BY <1>1, LiveFacts DEF Socket
<1> QED
  BY <1>1, <1>2, ConnFacts DEF TypeInv, SockTypes

(* A step that closes no connection in use, but by the death of its server. *)
LEMMA OpenKeeps ==
  ASSUME TypeInv, OpenInv,
         \A f \in Fd : sock'[f] \in {0, sock[f]},
         \A s \in Server : server[s] = "gone" => server'[s] = "gone",
         \A f \in Fd : sock[f] # 0 =>
           /\ conns'[sock[f]].server = conns[sock[f]].server
           /\ conns'[sock[f]].at = "closed" =>
                conns[sock[f]].at = "closed" \/ server'[conns[sock[f]].server] = "gone"
  PROVE  OpenInv'
<1> SUFFICES ASSUME NEW f \in Fd, sock'[f] # 0, conns'[sock'[f]].at = "closed"
             PROVE  server'[conns'[sock'[f]].server] = "gone"
  BY DEF OpenInv
<1>1. sock'[f] = sock[f] /\ sock[f] # 0 /\ sock[f] \in DOMAIN conns
  BY ConnFacts DEF TypeInv, SockTypes
<1>2. conns[sock[f]].server \in Server
  BY <1>1, ConnFacts
<1> QED
  BY <1>1, <1>2 DEF OpenInv

(* A step that the activations take no part in. *)
LEMMA AloneKeeps ==
  ASSUME TypeInv, PointerInv, AloneInv, SettledInv,
         UNCHANGED <<act, nodevars, rtable, sock>>, call'.leaked = Null,
         main' \notin {"crashed", "quit_tail", "quit_close"},
         main' \notin {"start", "stopped"} => \A w \in Which : rtable[w] # Null,
         \A c \in DOMAIN conns : conns'[c].server = conns[c].server
  PROVE  AloneInv' /\ SettledInv'
<1>1. AloneInv'
  BY DEF AloneInv
<1>2. \A w \in Which : /\ Node(w)' = Node(w)
                       /\ \A a \in Activation : /\ Found(a, w)' = Found(a, w)
                                                /\ Replaces(a, w)' <=> Replaces(a, w)
  BY DEF nodevars, Node, Found, Replaces
<1>3. ASSUME NEW w \in Which, rtable[w].at = "live"
      PROVE  conns'[Socket(w)'].server = conns[Socket(w)].server
  <2>1. Socket(w) \in DOMAIN conns /\ Socket(w)' = Socket(w)
    BY <1>3, SocketFacts DEF Socket, socket
  <2> QED
    BY <2>1
<1>4. SettledInv'
  <2> SUFFICES ASSUME NEW w \in Which
               PROVE  /\ \A a \in Activation :
                           /\ act[a].at = "compare" => Found(a, w)' # NoNode
                           /\ act[a].at \in Before(w) \cup {join(w)} => Found(a, w)' = Node(w)'
                           /\ act[a].at = join(w) => act[a].to \in {0, Node(w)'}
                      /\ Node(w)' # NoNode /\ (\A a \in Activation : ~ Replaces(a, w)') =>
                           rtable[w].at = "live" /\ conns'[Socket(w)'].server = Node(w)'
    BY DEF SettledInv
  <2> QED
    BY <1>2, <1>3 DEF SettledInv
<1> QED
  BY <1>1, <1>4

LEMMA FreshKeeps ==
  ASSUME TypeInv, FreshInv, UNCHANGED <<act, nodevars>>,
         main' # "stopped" => main # "stopped",
         \/ UNCHANGED <<watch, event, znodes>>
         \/ watch' = FALSE /\ event' = (event \/ watch)
  PROVE  FreshInv'
<1>1. \A w \in Which : /\ Node(w)' = Node(w)
                       /\ \A a \in Activation : Found(a, w)' = Found(a, w)
  BY DEF nodevars, Node, Found
<1>2. CASE UNCHANGED <<watch, event, znodes>>
  BY <1>1, <1>2 DEF FreshInv, First
<1>3. CASE watch' = FALSE /\ event' = (event \/ watch)
  BY <1>3 DEF FreshInv
<1> QED
  BY <1>2, <1>3

(* A step of one activation: the other one is idle. *)
LEMMA OnlyOne ==
  ASSUME AloneInv, NEW a \in Activation, act[a].at # "idle"
  PROVE  \A b \in Activation : b # a => act[b].at = "idle"
  BY Facts DEF AloneInv

Settles(a) ==
  \A w \in Which :
    /\ act[a].at = "compare" => Found(a, w) # NoNode
    /\ act[a].at \in Before(w) \cup {join(w)} => Found(a, w) = Node(w)
    /\ act[a].at = join(w) => act[a].to \in {0, Node(w)}
    /\ Node(w) # NoNode /\ ~ Replaces(a, w) =>
         rtable[w].at = "live" /\ conns[Socket(w)].server = Node(w)

LEMMA IdleReplaces ==
  /\ \A w : "idle" \notin Before(w) \cup {join(w)}
  /\ \A a, w : act[a].at = "idle" => ~ Replaces(a, w)
<1>1. \A w : "idle" \notin Before(w) \cup {join(w)}
  BY DEF Before, join
<1> QED
  BY <1>1 DEF Replaces

LEMMA SettledWas ==
  ASSUME SettledInv, NEW a \in Activation,
         \A b \in Activation : b # a => act[b].at = "idle"
  PROVE  Settles(a)
<1>1. \A w \in Which : ~ Replaces(a, w) => \A b \in Activation : ~ Replaces(b, w)
  BY IdleReplaces
<1> QED
  BY <1>1 DEF SettledInv, Settles

LEMMA SettledOne ==
  ASSUME NEW a \in Activation, Settles(a)',
         \A b \in Activation : b # a => act'[b].at = "idle"
  PROVE  SettledInv'
<1>1. \A b, w : act'[b].at = "idle" => ~ Replaces(b, w)'
  BY IdleReplaces DEF Replaces
<1>2. \A w : "idle" \notin Before(w) \cup {join(w)}
  BY IdleReplaces
<1> QED
  BY <1>1, <1>2 DEF SettledInv, Settles

LEMMA AloneOne ==
  ASSUME AloneInv, NEW a \in Activation,
         \A b \in Activation : b # a => act'[b].at = "idle",
         act'[a].at # "closed", main' = main, call'.leaked = Null,
         \A w \in Which :
           /\ rtable'[w] = Freed => act'[a].at = join(w)
           /\ rtable'[w] = Null => rtable[w] = Null
           /\ act'[a].at = join(w) => rtable'[w].at # "live",
         \A f \in Fd : sock'[f] # 0 => \E w \in Which : rtable'[w] = Live(f)
  PROVE  AloneInv'
<1>1. \A w : join(w) # "idle"
  BY DEF join
<1>2. \A b \in Activation : b # a \/ act'[b].at # "closed"
  OBVIOUS
<1>3. \A w \in Which :
        /\ rtable'[w] = Freed => \E b \in Activation : act'[b].at = join(w)
        /\ main' \notin {"start", "stopped"} => rtable'[w] # Null
        /\ \A b \in Activation : act'[b].at = join(w) => rtable'[w].at # "live"
  BY <1>1 DEF AloneInv
<1>4. /\ act'["watch"].at # "closed"
      /\ act'["main"].at # "idle" => act'["watch"].at = "idle"
  BY Facts
<1> QED
  BY <1>3, <1>4 DEF AloneInv

(* While nobody is between the two calls, nothing is freed. *)
LEMMA NoneFreed ==
  ASSUME AloneInv, NEW a \in Activation, act[a].at \notin {"join_head", "join_tail"},
         \A b \in Activation : b # a => act[b].at = "idle"
  PROVE  \A w \in Which : rtable[w] # Freed
  BY DEF AloneInv, join

LEMMA CalmWatcher ==
  ASSUME TypeInv, Calm, child_watcher, disturbed' = {}
  PROVE  Calm'
<1> DEFINE a == "watch"
<1>1. /\ act["main"].at = "idle" /\ act[a].at = "idle" /\ a \in Activation
      /\ act' = [act EXCEPT ![a].at = "list"]
      /\ UNCHANGED <<rtable, sock, conns, main, call, min_node, max_node, changed>>
      /\ call.leaked = Null
  BY Facts DEF child_watcher, goes, nodevars, mainvars, Calm, AloneInv
<1>2. act[a] \in Act /\ act \in [Activation -> Act]
  BY <1>1 DEF TypeInv, WatchTypes
<1>3. /\ act'[a].at = "list" /\ \A b \in Activation : b # a => act'[b] = act[b]
      /\ \A b \in Activation : b # a => act'[b].at = "idle" /\ act[b].at = "idle"
  BY <1>1, <1>2, Facts DEF Act
<1>4. \A w \in Which : rtable[w] # Freed
  BY <1>1, <1>3, NoneFreed DEF Calm
<1>5. AloneInv'
  <2>1. \A w : join(w) # "list"
    BY DEF join
  <2>2. \A f \in Fd : sock'[f] # 0 => \E w \in Which : rtable'[w] = Live(f)
    BY <1>1 DEF Calm, AloneInv
  <2> QED
    BY <1>1, <1>3, <1>4, <2>1, <2>2, AloneOne DEF Calm
<1>6. FreshInv'
  BY <1>1, <1>3 DEF FreshInv
<1>7. SettledInv'
  <2>1. Settles(a)
    BY <1>1, <1>3, SettledWas DEF Calm
  <2>2. \A w : "list" \notin Before(w) \cup {join(w)}
    BY DEF Before, join
  <2>3. Settles(a)'
    BY <1>1, <1>3, <2>1, <2>2, IdleReplaces DEF Settles, Replaces, Node, Socket, socket
  <2> QED
    BY <1>1, <1>3, <2>3, SettledOne
<1> QED
  BY <1>5, <1>6, <1>7 DEF Calm

LEMMA CalmList ==
  ASSUME TypeInv, Calm, NEW a \in Activation, ListChildren(a)
  PROVE  Calm'
<1>1. PICK lo \in Server, hi \in Server : lo = Min(znodes) /\ hi = Max(znodes)
  <2>1. znodes \in SUBSET Server /\ znodes \in SUBSET Nat /\ znodes # {}
    BY Facts DEF ListChildren, TypeInv, ChainTypes
  <2>2. Min(znodes) \in Server /\ Max(znodes) \in Server
    BY <2>1, LeastNatural, HighestServer
  <2> QED
    BY <2>2
<1>2. /\ act[a].at = "list" /\ watch' = TRUE /\ event' = event
      /\ act' = [act EXCEPT ![a] = [at |-> "compare", min |-> lo, max |-> hi, to |-> 0]]
      /\ UNCHANGED <<rtable, sock, conns, main, call, min_node, max_node, changed, znodes>>
      /\ call.leaked = Null
  BY <1>1 DEF ListChildren, nodevars, chainvars, mainvars, Calm, AloneInv
<1>3. /\ act'[a].at = "compare" /\ act'[a].min = lo /\ act'[a].max = hi
      /\ \A b \in Activation : b # a => act'[b] = act[b]
      /\ \A b \in Activation : b # a => act'[b].at = "idle" /\ act[b].at = "idle"
  BY <1>2, OnlyOne DEF TypeInv, WatchTypes, Calm
<1>4. \A w \in Which : rtable[w] # Freed
  BY <1>2, <1>3, NoneFreed DEF Calm
<1>5. AloneInv'
  <2>1. \A w : join(w) # "compare"
    BY DEF join
  <2>2. \A f \in Fd : sock'[f] # 0 => \E w \in Which : rtable'[w] = Live(f)
    BY <1>2 DEF Calm, AloneInv
  <2> QED
    BY <1>2, <1>3, <1>4, <2>1, <2>2, AloneOne DEF Calm
<1>6. \A w \in Which : Found(a, w)' = First(w)' /\ Found(a, w)' # NoNode
  BY <1>1, <1>2, <1>3, Facts DEF Found, First, NoNode
<1>7. FreshInv'
  BY <1>2, <1>3, <1>6 DEF FreshInv
<1>8. SettledInv'
  <2>1. Settles(a)
    BY <1>2, <1>3, SettledWas DEF Calm
  <2>2. \A w : {"list", "compare"} \cap (Before(w) \cup {join(w)}) = {}
    BY DEF Before, join
  <2>3. \A w : ~ Replaces(a, w)
    BY <1>2, <2>2 DEF Replaces
  <2>4. \A w \in Which : Node(w)' = Node(w) /\ Socket(w)' = Socket(w)
    BY <1>2 DEF Node, Socket, socket
  <2>5. Settles(a)'
    BY <1>2, <1>3, <1>6, <2>1, <2>2, <2>3, <2>4 DEF Settles
  <2> QED
    BY <1>3, <2>5, SettledOne
<1> QED
  BY <1>5, <1>7, <1>8 DEF Calm

LEMMA CalmCompare ==
  ASSUME TypeInv, Calm, NEW a \in Activation, Compare(a)
  PROVE  Calm'
<1>1. /\ act[a].at = "compare"
      /\ act' = [act EXCEPT ![a].at = "leave_head"]
      /\ UNCHANGED <<rtable, sock, conns, main, call, znodes, watch, event>>
      /\ call.leaked = Null
  BY DEF Compare, goes, watchvars, chainvars, mainvars, Calm, AloneInv
<1>2. act[a] \in Act /\ act \in [Activation -> Act]
  BY DEF TypeInv, WatchTypes
<1>3. /\ act'[a].at = "leave_head" /\ act'[a].min = act[a].min /\ act'[a].max = act[a].max
      /\ \A b \in Activation : b # a => act'[b] = act[b]
      /\ \A b \in Activation : b # a => act'[b].at = "idle" /\ act[b].at = "idle"
  BY <1>1, <1>2, OnlyOne DEF Act, Calm
<1>4. \A w \in Which : rtable[w] # Freed
  BY <1>1, <1>3, NoneFreed DEF Calm
<1>5. AloneInv'
  <2>1. \A w : join(w) # "leave_head"
    BY DEF join
  <2>2. \A f \in Fd : sock'[f] # 0 => \E w \in Which : rtable'[w] = Live(f)
    BY <1>1 DEF Calm, AloneInv
  <2> QED
    BY <1>1, <1>3, <1>4, <2>1, <2>2, AloneOne DEF Calm
<1>6. \A w \in Which : /\ Found(a, w)' = Found(a, w) /\ Node(w)' = Found(a, w)
                       /\ w \in changed' <=> Node(w) # Found(a, w)
  BY <1>3 DEF Found, Node, Compare, Which
<1>7. FreshInv'
  BY <1>1, <1>3, <1>6 DEF FreshInv, First, Calm
<1>8. SettledInv'
  <2>1. Settles(a)
    BY <1>1, <1>3, SettledWas DEF Calm
  <2>2. \A w : ~ Replaces(a, w)
    BY <1>1 DEF Replaces, Before, join
  <2>3. ASSUME NEW w \in Which, ~ Replaces(a, w)' PROVE Node(w)' = Node(w)
    <3>1. "leave_head" \in Before(w)
      BY DEF Before
    <3> QED
      BY <1>3, <1>6, <2>3, <3>1 DEF Replaces
  <2>4. Settles(a)'
    <3>1. \A w : join(w) # "leave_head"
      BY DEF join
    <3> QED
      BY <1>1, <1>3, <1>6, <2>1, <2>2, <2>3, <3>1 DEF Settles, Socket, socket
  <2> QED
    BY <1>3, <2>4, SettledOne
<1> QED
  BY <1>5, <1>7, <1>8 DEF Calm

LEMMA CalmUnchanged ==
  ASSUME TypeInv, Calm, NEW a \in Activation, NEW v \in Which, Unchanged(a, v)
  PROVE  Calm'
<1>1. /\ act[a].at = leave(v) /\ v \notin changed
      /\ act' = [act EXCEPT ![a] = IF v = "head" THEN [@ EXCEPT !.at = "leave_tail"] ELSE Idle]
      /\ UNCHANGED <<rtable, sock, conns, main, call, znodes, watch, event, min_node, max_node,
                     changed>>
      /\ call.leaked = Null
  BY DEF Unchanged, advances, watchvars, nodevars, chainvars, mainvars, Calm, AloneInv
<1>2. act[a] \in Act /\ act \in [Activation -> Act]
  BY DEF TypeInv, WatchTypes
<1>3. act[a].at \in {"leave_head", "leave_tail"}
  BY <1>1 DEF leave
<1>4. /\ act'[a].at = IF v = "head" THEN "leave_tail" ELSE "idle"
      /\ v = "head" => act'[a].min = act[a].min /\ act'[a].max = act[a].max
  BY <1>1, <1>2 DEF Act, Idle
<1>5. /\ \A b \in Activation : b # a => act'[b] = act[b]
      /\ \A b \in Activation : b # a => act'[b].at = "idle" /\ act[b].at = "idle"
  BY <1>1, <1>2, <1>3, OnlyOne DEF Calm
<1>6. \A w \in Which : rtable[w] # Freed
  BY <1>3, <1>5, NoneFreed DEF Calm
<1>7. AloneInv'
  <2>1. \A w : join(w) # act'[a].at /\ act'[a].at # "closed"
    BY <1>4 DEF join
  <2>2. \A f \in Fd : sock'[f] # 0 => \E w \in Which : rtable'[w] = Live(f)
    BY <1>1 DEF Calm, AloneInv
  <2> QED
    BY <1>1, <1>5, <1>6, <2>1, <2>2, AloneOne DEF Calm
<1>8. FreshInv'
  <2>1. \A b \in Activation : act[b].at \notin {"list", "compare"} /\ act'[b].at \notin {"list", "compare"}
    BY <1>3, <1>4, <1>5
  <2> QED
    BY <1>1, <2>1 DEF FreshInv, First, Node, Calm
<1>9. SettledInv'
  <2>1. Settles(a)
    BY <1>3, <1>5, SettledWas DEF Calm
  <2>2. \A w : /\ act'[a].at \notin {"compare", join(w)}
               /\ act'[a].at \in Before(w) => w # "head" /\ v = "head" /\ act[a].at \in Before(w)
    BY <1>1, <1>4 DEF Before, join, leave
  <2>3. ASSUME NEW w \in Which, ~ Replaces(a, w)' PROVE ~ Replaces(a, w)
    <3>1. act[a].at # join(w)
      BY <1>3 DEF join
    <3>2. CASE w = v
      BY <1>1, <3>1, <3>2 DEF Replaces
    <3>3. CASE w = "head" /\ v = "tail"
      BY <1>1, <3>1, <3>3 DEF Replaces, Before, leave
    <3>4. CASE w = "tail" /\ v = "head"
      BY <1>1, <1>4, <2>3, <3>1, <3>4 DEF Replaces, Before
    <3> QED
      BY <3>2, <3>3, <3>4, Facts
  <2>4. Settles(a)'
    <3>1. \A w \in Which : Node(w)' = Node(w) /\ (v = "head" => Found(a, w)' = Found(a, w))
                           /\ Socket(w)' = Socket(w)
      BY <1>1, <1>4 DEF Node, Found, Socket, socket
    <3> QED
      BY <1>1, <2>1, <2>2, <2>3, <3>1 DEF Settles
  <2> QED
    BY <1>5, <2>4, SettledOne
<1> QED
  BY <1>7, <1>8, <1>9 DEF Calm

LEMMA CalmLeave ==
  ASSUME TypeInv, PointerInv, Calm, NEW a \in Activation, NEW v \in Which, Leave(a, v)
  PROVE  Calm'
<1> DEFINE to == act'[a].to
<1>1. /\ act[a].at = leave(v) /\ v \in changed /\ disconnect(v)
      /\ UNCHANGED <<conns, main, call, znodes, watch, event, min_node, max_node, changed>>
      /\ call.leaked = Null
  BY DEF Leave, watchvars, nodevars, chainvars, Calm, AloneInv
<1>2. /\ act[a] \in Act /\ act \in [Activation -> Act]
      /\ rtable \in [Which -> Rtable] /\ sock \in [Fd -> 0 .. Len(conns)]
  BY DEF TypeInv, WatchTypes, SockTypes
<1>3. act[a].at \in {"leave_head", "leave_tail"}
  BY <1>1 DEF leave
<1>4. /\ act'[a].at = join(v) /\ act'[a].min = act[a].min /\ act'[a].max = act[a].max
      /\ to \in {0, Found(a, v)}
      /\ \A b \in Activation : b # a => act'[b] = act[b]
  <2>1. PICK t : /\ t \in {0, Found(a, v)}
                 /\ act' = [act EXCEPT ![a].at = join(v), ![a].to = t]
    BY DEF Leave, Found
  <2> QED
    BY <1>2, <2>1 DEF Act
<1>5. \A b \in Activation : b # a => act'[b].at = "idle" /\ act[b].at = "idle"
  BY <1>3, <1>4, OnlyOne DEF Calm
<1>6. \A w \in Which : rtable[w] # Freed
  BY <1>3, <1>5, NoneFreed DEF Calm
<1>7. /\ rtable' = [rtable EXCEPT ![v] = IF @ = Null THEN Null ELSE Freed]
      /\ sock' = IF rtable[v] = Null THEN sock ELSE [sock EXCEPT ![rtable[v].fd] = 0]
  BY <1>1 DEF disconnect
<1>8. rtable[v] # Null => rtable[v].at = "live" /\ rtable[v].fd \in Fd /\ rtable[v] = Live(rtable[v].fd)
  <2> SUFFICES ASSUME rtable[v] # Null
               PROVE  rtable[v].at = "live" /\ rtable[v].fd \in Fd /\ rtable[v] = Live(rtable[v].fd)
    OBVIOUS
  <2>1. PICK f \in Fd : rtable[v] = Live(f)
    BY <1>2, <1>6 DEF Rtable
  <2> QED
    BY <2>1 DEF Live
<1> HIDE DEF to
<1>9. /\ rtable'[v] \in {Null, Freed} /\ (rtable'[v] = Null => rtable[v] = Null)
      /\ \A w \in Which : w # v => rtable'[w] = rtable[w]
  BY <1>2, <1>7 DEF Null, Freed
<1>10. ASSUME NEW w \in Which, w # v, rtable[w].at = "live"
       PROVE  Socket(w)' = Socket(w) /\ Socket(w) \in DOMAIN conns
  <2>1. rtable'[w] = rtable[w] /\ rtable[w].fd \in Fd /\ rtable[w] = Live(rtable[w].fd)
        /\ Socket(w) \in DOMAIN conns
    BY <1>9, <1>10, SocketFacts
  <2>2. CASE rtable[v] = Null
    BY <1>7, <2>1, <2>2 DEF Socket, socket
  <2>3. CASE rtable[v] # Null
    <3>1. rtable[w] # rtable[v]
      BY <1>8, <1>10, <2>3, Facts DEF PointerInv
    <3>2. rtable[w].fd # rtable[v].fd
      BY <1>8, <2>1, <2>3, <3>1
    <3>3. sock'[rtable[w].fd] = sock[rtable[w].fd]
      BY <1>2, <1>7, <1>8, <2>1, <2>3, <3>2
    <3> QED
      BY <1>10, <2>1, <3>3 DEF Socket, socket
  <2> QED
    BY <2>2, <2>3
<1>11. AloneInv'
  <2>1. \A w \in Which : join(w) = join(v) => w = v
    BY DEF join, Which
  <2>2. \A w \in Which : /\ rtable'[w] = Freed => w = v
                         /\ rtable'[w] = Null => rtable[w] = Null
    BY <1>6, <1>9
  <2>3. rtable'[v].at # "live"
    BY <1>9 DEF Null, Freed
  <2>4. ASSUME NEW f \in Fd, sock'[f] # 0
        PROVE  \E w \in Which : rtable'[w] = Live(f)
    <3>1. sock[f] # 0 /\ (rtable[v] # Null => f # rtable[v].fd)
      BY <1>2, <1>7, <1>8, <2>4
    <3>2. PICK w \in Which : rtable[w] = Live(f)
      BY <3>1 DEF Calm, AloneInv
    <3>3. w # v
      BY <1>8, <3>1, <3>2 DEF Live, Null
    <3> QED
      BY <1>9, <3>2, <3>3
  <2>5. join(v) # "closed"
    BY DEF join
  <2> QED
    BY <1>1, <1>4, <1>5, <2>1, <2>2, <2>3, <2>4, <2>5, AloneOne DEF Calm
<1>12. FreshInv'
  <2>1. \A b \in Activation : act[b].at \notin {"list", "compare"} /\ act'[b].at \notin {"list", "compare"}
    BY <1>3, <1>4, <1>5 DEF join
  <2> QED
    BY <1>1, <2>1 DEF FreshInv, First, Node, Calm
<1>13. SettledInv'
  <2>1. Settles(a)
    BY <1>3, <1>5, SettledWas DEF Calm
  <2>2. \A w \in Which : Node(w)' = Node(w) /\ Found(a, w)' = Found(a, w)
    BY <1>1, <1>4 DEF Node, Found
  <2>3. \A w \in Which : join(v) \in Before(w) \cup {join(w)} => leave(v) \in Before(w)
    BY DEF join, leave, Before, Which
  <2>4. \A w \in Which : join(v) = join(w) => w = v
    BY DEF join, Which
  <2>5. leave(v) \in Before(v) /\ join(v) # "compare"
    BY DEF leave, join, Before, Which
  <2>6. Replaces(a, v)'
    BY <1>4 DEF Replaces
  <2>7. ASSUME NEW w \in Which, ~ Replaces(a, w)'
        PROVE  w # v /\ ~ Replaces(a, w)
    <3>1. w # v
      BY <2>6, <2>7
    <3>2. leave(v) # join(w) /\ (leave(v) \in Before(w) => join(v) \in Before(w) \/ w = v \/ w = "head")
      BY DEF leave, join, Before, Which
    <3>3. leave(v) \in Before("head") => v = "head"
      BY DEF leave, Before
    <3> QED
      BY <1>1, <1>4, <2>7, <3>1, <3>2, <3>3 DEF Replaces
  <2>8. Settles(a)'
    <3> SUFFICES ASSUME NEW w \in Which
                 PROVE  /\ act'[a].at = "compare" => Found(a, w)' # NoNode
                        /\ act'[a].at \in Before(w) \cup {join(w)} => Found(a, w)' = Node(w)'
                        /\ act'[a].at = join(w) => act'[a].to \in {0, Node(w)'}
                        /\ Node(w)' # NoNode /\ ~ Replaces(a, w)' =>
                             rtable'[w].at = "live" /\ conns'[Socket(w)'].server = Node(w)'
      BY DEF Settles
    <3>1. act'[a].at \in Before(w) \cup {join(w)} => Found(a, w)' = Node(w)'
      BY <1>1, <1>4, <2>1, <2>2, <2>3 DEF Settles
    <3>2. act'[a].at = join(w) => act'[a].to \in {0, Node(w)'}
      BY <1>1, <1>4, <2>1, <2>2, <2>4, <2>5 DEF Settles, to
    <3>3. Node(w)' # NoNode /\ ~ Replaces(a, w)' =>
            rtable'[w].at = "live" /\ conns'[Socket(w)'].server = Node(w)'
      BY <1>1, <1>9, <1>10, <2>1, <2>2, <2>7 DEF Settles
    <3> QED
      BY <1>4, <2>5, <3>1, <3>2, <3>3
  <2> QED
    BY <1>5, <2>8, SettledOne
<1> QED
  BY <1>11, <1>12, <1>13 DEF Calm

LEMMA CalmJoin ==
  ASSUME TypeInv, PointerInv, Calm, NEW a \in Activation, NEW v \in Which, Join(a, v)
  PROVE  Calm'
<1>1. PICK f \in Fd : f = Min(Unused) /\ sock[f] = 0
  BY JoinEffect
<1>2. PICK l \in Nat : l = Len(conns) /\ DOMAIN conns = 1 .. l
  BY ConnFacts
<1>3. /\ act[a].at = join(v) /\ act[a].to # 0
      /\ act' = [act EXCEPT ![a] = IF v = "head" THEN [@ EXCEPT !.at = "leave_tail"] ELSE Idle]
      /\ rtable' = [rtable EXCEPT ![v] = Live(f)] /\ sock' = [sock EXCEPT ![f] = l + 1]
      /\ \A c \in DOMAIN conns : conns'[c] = conns[c]
      /\ conns'[l + 1].server = act[a].to
      /\ UNCHANGED <<main, znodes, watch, event, min_node, max_node, changed>>
  <2>1. act' = [act EXCEPT ![a] = IF v = "head" THEN [@ EXCEPT !.at = "leave_tail"] ELSE Idle]
    BY DEF Join, advances
  <2>2. conns'[l + 1] = [server |-> act[a].to, at |-> "serving", out |-> <<>>, in |-> <<>>]
    BY <1>2, JoinEffect
  <2>3. UNCHANGED <<main, znodes, watch, event, min_node, max_node, changed>>
    BY JoinEffect DEF watchvars, nodevars, chainvars
  <2> QED
    BY <1>1, <1>2, <2>1, <2>2, <2>3, JoinEffect, Facts
<1>4. /\ act[a] \in Act /\ act \in [Activation -> Act]
      /\ rtable \in [Which -> Rtable] /\ sock \in [Fd -> 0 .. l]
  BY <1>2 DEF TypeInv, WatchTypes, SockTypes
<1>5. act[a].at \in {"join_head", "join_tail"}
  BY <1>3 DEF join
<1>6. /\ act'[a].at = IF v = "head" THEN "leave_tail" ELSE "idle"
      /\ v = "head" => act'[a].min = act[a].min /\ act'[a].max = act[a].max
      /\ \A b \in Activation : b # a => act'[b] = act[b]
  BY <1>3, <1>4 DEF Act, Idle
<1>7. \A b \in Activation : b # a => act'[b].at = "idle" /\ act[b].at = "idle"
  BY <1>5, <1>6, OnlyOne DEF Calm
<1>8. rtable[v].at # "live"
  BY <1>3 DEF Calm, AloneInv
<1>9. call' = call /\ call.leaked = Null
  <2>1. call' = call
    BY <1>8, JoinEffect
  <2> QED
    BY <2>1 DEF Calm, AloneInv
<1>10. /\ rtable'[v] = Live(f) /\ \A w \in Which : w # v => rtable'[w] = rtable[w]
       /\ sock'[f] = l + 1 /\ \A g \in Fd : g # f => sock'[g] = sock[g]
  BY <1>3, <1>4
<1>11. Live(f).at = "live" /\ Live(f).fd = f
  BY DEF Live
<1>12. AloneInv'
  <2>1. \A w : join(w) # act'[a].at /\ act'[a].at # "closed"
    BY <1>6 DEF join
  <2>2. \A w \in Which : rtable'[w] = Freed => act'[a].at = join(w)
    <3> SUFFICES ASSUME NEW w \in Which, rtable'[w] = Freed PROVE FALSE
      OBVIOUS
    <3>1. w # v /\ rtable[w] = Freed
      BY <1>10, <1>11 DEF Freed
    <3>2. PICK b \in Activation : act[b].at = join(w)
      BY <3>1 DEF Calm, AloneInv
    <3>3. b = a
      BY <1>7, <3>2 DEF join
    <3> QED
      BY <1>3, <3>1, <3>2, <3>3 DEF join, Which
  <2>3. \A w \in Which : rtable'[w] = Null => rtable[w] = Null
    BY <1>10, <1>11 DEF Null
  <2>4. ASSUME NEW g \in Fd, sock'[g] # 0
        PROVE  \E w \in Which : rtable'[w] = Live(g)
    <3>1. CASE g = f
      BY <1>10, <3>1
    <3>2. CASE g # f
      <4>1. PICK w \in Which : rtable[w] = Live(g)
        BY <1>10, <2>4, <3>2 DEF Calm, AloneInv
      <4>2. w # v
        BY <1>8, <4>1 DEF Live
      <4> QED
        BY <1>10, <4>1, <4>2
    <3> QED
      BY <3>1, <3>2
  <2> QED
    BY <1>3, <1>7, <1>9, <2>1, <2>2, <2>3, <2>4, AloneOne DEF Calm
<1>13. FreshInv'
  <2>1. \A b \in Activation : act[b].at \notin {"list", "compare"} /\ act'[b].at \notin {"list", "compare"}
    BY <1>5, <1>6, <1>7
  <2> QED
    BY <1>3, <2>1 DEF FreshInv, First, Node, Calm
<1>14. Socket(v)' = l + 1
  BY <1>10, <1>11 DEF Socket, socket
<1>15. ASSUME NEW w \in Which, w # v, rtable[w].at = "live"
       PROVE  Socket(w)' = Socket(w) /\ Socket(w) \in DOMAIN conns
  <2>1. /\ rtable[w].fd \in Fd /\ Socket(w) = sock[rtable[w].fd] /\ Socket(w) \in DOMAIN conns
    BY <1>15, SocketFacts
  <2>2. rtable[w].fd # f
    BY <1>1, <1>2, <2>1
  <2>3. rtable'[w] = rtable[w] /\ sock'[rtable[w].fd] = sock[rtable[w].fd]
    BY <1>10, <1>15, <2>1, <2>2
  <2> QED
    BY <1>15, <2>1, <2>3 DEF Socket, socket
<1>16. SettledInv'
  <2>1. Settles(a)
    BY <1>5, <1>7, SettledWas DEF Calm
  <2>2. \A w \in Which : Node(w)' = Node(w) /\ (v = "head" => Found(a, w)' = Found(a, w))
    BY <1>3, <1>6 DEF Node, Found
  <2>3. \A w : /\ act'[a].at \notin {"compare", join(w)}
               /\ act'[a].at \in Before(w) => w # "head" /\ v = "head" /\ act[a].at \in Before(w)
    BY <1>3, <1>6 DEF Before, join
  <2>4. act[a].to = Node(v)
    BY <1>3, <2>1 DEF Settles
  <2>5. ASSUME NEW w \in Which, w # v, ~ Replaces(a, w)' PROVE ~ Replaces(a, w)
    <3>1. CASE w = "head" /\ v = "tail"
      BY <1>3, <3>1 DEF Replaces, Before, join
    <3>2. CASE w = "tail" /\ v = "head"
      BY <1>3, <1>6, <2>5, <3>2 DEF Replaces, Before, join
    <3> QED
      BY <2>5, <3>1, <3>2, Facts
  <2>6. Settles(a)'
    <3> SUFFICES ASSUME NEW w \in Which
                 PROVE  /\ act'[a].at = "compare" => Found(a, w)' # NoNode
                        /\ act'[a].at \in Before(w) \cup {join(w)} => Found(a, w)' = Node(w)'
                        /\ act'[a].at = join(w) => act'[a].to \in {0, Node(w)'}
                        /\ Node(w)' # NoNode /\ ~ Replaces(a, w)' =>
                             rtable'[w].at = "live" /\ conns'[Socket(w)'].server = Node(w)'
      BY DEF Settles
    <3>1. act'[a].at \in Before(w) \cup {join(w)} => Found(a, w)' = Node(w)'
      BY <2>1, <2>2, <2>3 DEF Settles
    <3>2. CASE w = v
      BY <1>3, <1>10, <1>11, <1>14, <2>2, <2>3, <2>4, <3>1, <3>2
    <3>3. CASE w # v
      <4>1. Node(w)' # NoNode /\ ~ Replaces(a, w)' =>
              rtable'[w].at = "live" /\ conns'[Socket(w)'].server = Node(w)'
        BY <1>3, <1>10, <1>15, <2>1, <2>2, <2>5, <3>3 DEF Settles
      <4> QED
        BY <2>3, <3>1, <4>1
    <3> QED
      BY <3>2, <3>3
  <2> QED
    BY <1>7, <2>6, SettledOne
<1> QED
  BY <1>12, <1>13, <1>16 DEF Calm

(* While nothing has gone wrong, no freed rtable_t is freed again, and quit finds
   both of them connected. *)
LEMMA CalmNever ==
  ASSUME TypeInv, PointerInv, Calm, disturbed' = {}
  PROVE  /\ ~ Aborts /\ ~ QuitClose
         /\ ~ quit_fails("idle", "head", "quit_tail") /\ ~ quit_fails("quit_tail", "tail", "quit_close")
         /\ \A a \in Activation : \A w \in Which : ~ JoinFails(a, w)
<1>1. ASSUME NEW a \in Activation, NEW w \in Which, LeaveAgain(a, w) PROVE FALSE
  <2>1. act[a].at = leave(w) /\ rtable[w] = Freed
    BY <1>1 DEF LeaveAgain
  <2>2. act[a].at \notin {"idle", "join_head", "join_tail"}
    BY <2>1 DEF leave
  <2> QED
    BY <2>1, <2>2, OnlyOne, NoneFreed DEF Calm
<1>2. ~ Aborts
  BY <1>1 DEF Aborts, ListEmpty, QuitAgain, QuitCloseAgain, StatsOfNull, Abort, Calm,
     AloneInv
<1>3. ~ QuitClose /\ ~ quit_fails("quit_tail", "tail", "quit_close")
  BY DEF QuitClose, quit_fails, Calm, AloneInv
<1>4. ASSUME quit_fails("idle", "head", "quit_tail") PROVE FALSE
  <2>1. main = "idle" /\ Socket("head") = 0 /\ rtable["head"] # Freed
    BY <1>4 DEF quit_fails, disconnect, Freed
  <2>2. rtable["head"] # Null /\ rtable["head"] \in Rtable
    BY <2>1, Facts DEF Calm, AloneInv, TypeInv, SockTypes
  <2>3. rtable["head"].at = "live"
    BY <2>1, <2>2 DEF Rtable, Live
  <2> QED
    BY <2>1, <2>3, Facts DEF PointerInv
<1>5. \A a \in Activation : \A w \in Which : ~ JoinFails(a, w)
  BY DEF JoinFails
<1> QED
  BY <1>2, <1>3, <1>4, <1>5

LEMMA OpenStep ==
  ASSUME TypeInv, HeadInv, CalmInv, [Next]_vars, disturbed' = {}
  PROVE  OpenInv'
<1>1. OpenInv /\ Calm /\ PointerInv
  BY DisturbedGrows DEF CalmInv, HeadInv
<1>2. \A f \in Fd : sock[f] # 0 => sock[f] \in DOMAIN conns
  BY ConnFacts DEF TypeInv, SockTypes
<1>3. ASSUME UNCHANGED <<server, conns>>, \A f \in Fd : sock'[f] \in {0, sock[f]}
      PROVE  OpenInv'
  BY <1>1, <1>3, OpenKeeps
<1>4. CASE UNCHANGED vars
  BY <1>3, <1>4 DEF vars, chainvars
<1>5. CASE \E how \in {"stopped", "crashed"} : Ends(how)
  BY <1>5 DEF Ends, OpenInv
<1>6. ASSUME NEW s \in Server, Start(s) \/ Crash(s) \/ Publish(s) \/ Expire(s)
      PROVE  OpenInv'
  <2>1. sock' = sock /\ \A u \in Server : server[u] = "gone" => server'[u] = "gone"
    BY <1>6 DEF Start, Crash, Publish, Expire, Changes, Alive, TypeInv, ChainTypes
  <2>2. CASE conns' = conns
    BY <1>1, <2>1, <2>2, OpenKeeps
  <2>3. CASE Crash(s)
    <3>1. server'[s] = "gone"
      BY <2>3 DEF Crash, TypeInv, ChainTypes
    <3>2. ASSUME NEW f \in Fd, sock[f] # 0
          PROVE  /\ conns'[sock[f]].server = conns[sock[f]].server
                 /\ conns'[sock[f]].at = "closed" =>
                      conns[sock[f]].at = "closed" \/ server'[conns[sock[f]].server] = "gone"
      <4>1. sock[f] \in DOMAIN conns
        BY <1>2, <3>2
      <4> QED
        BY <2>3, <3>1, <4>1, CrashEffect
    <3> QED
      BY <1>1, <2>1, <3>2, OpenKeeps
  <2> QED
    BY <1>6, <2>2, <2>3 DEF Start, Publish, Expire, Changes
<1>7. ASSUME NEW c \in DOMAIN conns, Serve(c) \/ Stops(c) PROVE OpenInv'
  <2>1. UNCHANGED <<server, sock>>
    BY <1>7, StopsEffect DEF Serve, chainvars
  <2>2. ASSUME NEW f \in Fd, sock[f] # 0
        PROVE  /\ conns'[sock[f]].server = conns[sock[f]].server
               /\ conns'[sock[f]].at = "closed" => conns[sock[f]].at = "closed"
    <3>1. sock[f] \in DOMAIN conns
      BY <1>2, <2>2
    <3>2. CASE sock[f] # c
      <4>1. \A d \in DOMAIN conns : d # c => conns'[d] = conns[d]
        BY <1>7, ServeEffect, StopsEffect
      <4> QED
        BY <3>1, <3>2, <4>1
    <3>3. CASE sock[f] = c
      BY <1>7, <3>3, ServeEffect, StopsEffect
    <3> QED
      BY <3>2, <3>3
  <2> QED
    BY <1>1, <2>1, <2>2, OpenKeeps
<1>8. CASE child_watcher \/ \E a \in Activation : ListChildren(a) \/ Compare(a)
  BY <1>3, <1>8 DEF child_watcher, ListChildren, Compare, chainvars
<1>9. ASSUME NEW a \in Activation, NEW w \in Which, Unchanged(a, w) \/ JoinFails(a, w)
      PROVE  OpenInv'
  BY <1>3, <1>9 DEF Unchanged, JoinFails, chainvars
<1>10. ASSUME NEW a \in Activation, NEW w \in Which, Leave(a, w) PROVE OpenInv'
  <2>1. disconnect(w) /\ call' = call /\ UNCHANGED <<server, conns>>
    BY <1>10 DEF Leave, chainvars
  <2> QED
    BY <1>3, <2>1, DisconnectCall
<1>11. ASSUME NEW a \in Activation, NEW w \in Which, Join(a, w) PROVE OpenInv'
  <2>0. PICK g, l : g = Min(Unused) /\ l = Len(conns)
    OBVIOUS
  <2>1. /\ g \in Fd /\ sock' = [sock EXCEPT ![g] = l + 1] /\ sock \in [Fd -> 0 .. l]
        /\ \A c \in DOMAIN conns : conns'[c] = conns[c]
        /\ conns'[l + 1].at = "serving" /\ server' = server
    <3>1. sock \in [Fd -> 0 .. l]
      BY <2>0 DEF TypeInv, SockTypes
    <3>2. conns'[l + 1] = [server |-> act[a].to, at |-> "serving", out |-> <<>>, in |-> <<>>]
      BY <1>11, <2>0, JoinEffect
    <3> QED
      BY <1>11, <2>0, <3>1, <3>2, JoinEffect DEF chainvars
  <2> SUFFICES ASSUME NEW f \in Fd, sock'[f] # 0, conns'[sock'[f]].at = "closed"
               PROVE  server'[conns'[sock'[f]].server] = "gone"
    BY DEF OpenInv
  <2>2. f # g
    BY <2>1
  <2>3. sock'[f] = sock[f] /\ sock[f] \in DOMAIN conns
    BY <1>2, <2>1, <2>2
  <2> QED
    BY <1>1, <2>1, <2>3 DEF OpenInv
<1>12. CASE \/ Connected /\ main' = "idle"
            \/ NoAnswer
            \/ \E w \in Which : Request(w)
            \/ QuitClose
  BY <1>3, <1>12, MainEffect DEF chainvars
<1>13. ASSUME NEW p \in {"length", "body"}, network_send_receive(p) PROVE OpenInv'
  <2>1. UNCHANGED <<server, sock>>
    BY <1>13, DisturbedGrows DEF network_send_receive, Send, SendLost, SendFails, closes,
       Await, Receive, ReceiveFails, chainvars
  <2>2. CASE conns' = conns
    BY <1>3, <2>1, <2>2
  <2>3. CASE Send(p) \/ Receive(p)
    <3>1. ASSUME NEW f \in Fd, sock[f] # 0
          PROVE  /\ conns'[sock[f]].server = conns[sock[f]].server
                 /\ conns'[sock[f]].at = conns[sock[f]].at
      BY <1>2, <2>3, <3>1, SendEffect, ReceiveEffect
    <3> QED
      BY <1>1, <2>1, <3>1, OpenKeeps
  <2> QED
    BY <1>13, <2>2, <2>3 DEF network_send_receive, SendLost, SendFails, Await, ReceiveFails
<1> QED
  BY <1>1, <1>4, <1>5, <1>6, <1>7, <1>8, <1>9, <1>10, <1>11, <1>12, <1>13, Steps, CalmNever

LEMMA CalmStep ==
  ASSUME TypeInv, HeadInv, CalmInv, [Next]_vars
  PROVE  CalmInv'
<1>1. SUFFICES ASSUME disturbed' = {} PROVE Calm'
  BY OpenStep DEF CalmInv
<1>2. disturbed = {} /\ Calm /\ PointerInv /\ AloneInv /\ SettledInv /\ FreshInv
  BY <1>1, DisturbedGrows DEF CalmInv, HeadInv, Calm
<1>3. call.leaked = Null /\ main \notin {"crashed", "quit_tail", "quit_close"}
      /\ (main \notin {"start", "stopped"} => \A w \in Which : rtable[w] # Null)
  BY <1>2 DEF AloneInv
<1>4. CASE UNCHANGED vars
  <2>1. UNCHANGED <<act, nodevars, rtable, sock, conns, main, call, watch, event, znodes>>
    BY <1>4 DEF vars, mainvars, watchvars, chainvars
  <2> QED
    BY <1>2, <1>3, <2>1, AloneKeeps, FreshKeeps DEF Calm
<1>5. CASE Ends("stopped")
  <2>1. /\ main' = "stopped" /\ min_node' = NoNode /\ max_node' = NoNode
        /\ call'.leaked = Null
    BY <1>5 DEF Ends, NoCall
  <2>2. \A a \in Activation : act'[a].at = "idle"
    BY <1>5 DEF Ends, Idle
  <2>3. \A w \in Which : rtable'[w] = Null
    BY <1>5 DEF Ends
  <2>4. \A f \in Fd : sock'[f] = 0
    BY <1>5 DEF Ends
  <2>5. AloneInv'
    BY <2>1, <2>2, <2>3, <2>4, Facts DEF AloneInv, Null, Freed
  <2>6. FreshInv'
    BY <2>1 DEF FreshInv
  <2>7. SettledInv'
    <3>1. \A w \in Which : Node(w)' = NoNode
      BY <2>1 DEF Node
    <3>2. \A w : "idle" \notin Before(w) \cup {join(w)}
      BY IdleReplaces
    <3> QED
      BY <2>2, <3>1, <3>2 DEF SettledInv
  <2> QED
    BY <2>5, <2>6, <2>7 DEF Calm
<1>6. CASE \E s \in Server : Start(s) \/ Crash(s) \/ Publish(s) \/ Expire(s)
  <2>1. UNCHANGED <<act, nodevars, rtable, sock, main, call>>
    BY <1>6 DEF Start, Crash, Publish, Expire, Changes, mainvars
  <2>2. \/ UNCHANGED <<watch, event, znodes>>
        \/ watch' = FALSE /\ event' = (event \/ watch)
    BY <1>6 DEF Start, Crash, Publish, Expire, Changes, watchvars
  <2>3. \A c \in DOMAIN conns : conns'[c].server = conns[c].server
    BY <1>6, CrashEffect DEF Start, Publish, Expire, Changes
  <2> QED
    BY <1>2, <1>3, <2>1, <2>2, <2>3, AloneKeeps, FreshKeeps DEF Calm
<1>7. ASSUME NEW c \in DOMAIN conns, Serve(c) \/ Stops(c) PROVE Calm'
  <2>1. UNCHANGED <<act, nodevars, rtable, sock, main, call, watch, event, znodes>>
    BY <1>7, StopsEffect DEF Serve, mainvars, watchvars, chainvars
  <2>2. \A d \in DOMAIN conns : conns'[d].server = conns[d].server
    BY <1>7, ServeEffect, StopsEffect
  <2> QED
    BY <1>2, <1>3, <2>1, <2>2, AloneKeeps, FreshKeeps DEF Calm
<1>8. CASE (Connected /\ main' = "idle") \/ NoAnswer \/ \E w \in Which : Request(w)
  <2>1. UNCHANGED <<act, nodevars, rtable, sock, conns, watch, event, znodes>>
    BY <1>2, <1>8, MainEffect, CalmNever, <1>1 DEF Connected, NoAnswer, Request,
       watchvars, chainvars, Ends
  <2>2. main' \in {"idle", "length", "no_answer"} /\ main # "stopped"
    BY <1>8, MainEffect
  <2>3. call'.leaked = Null
    BY <1>3, <1>8 DEF Connected, NoAnswer, Request, ends, NoCall, Ends
  <2>4. \A w \in Which : rtable[w] # Null
    BY <1>3, <1>8, MainEffect
  <2> QED
    BY <1>2, <2>1, <2>2, <2>3, <2>4, AloneKeeps, FreshKeeps DEF Calm
<1>9. ASSUME NEW p \in {"length", "body"}, network_send_receive(p) PROVE Calm'
  <2>1. /\ UNCHANGED <<act, nodevars, rtable, watch, event, znodes>>
        /\ main \notin {"start", "stopped"}
        /\ main' \notin {"start", "stopped", "crashed", "quit_tail", "quit_close"}
    BY <1>9 DEF network_send_receive, Send, SendLost, SendFails, Await, Receive, ReceiveFails,
       watchvars, chainvars, steps, ends, fails, next_part, await, read
  <2>2. call'.leaked = Null
    <3>1. call' \in {call, NoCall, [NoCall EXCEPT !.kind = call.kind],
                     [call EXCEPT !.conn = CallSocket]}
      BY <1>9 DEF network_send_receive, Send, SendLost, SendFails, Await, Receive,
         ReceiveFails, steps, ends, fails
    <3>2. NoCall.leaked = Null /\ [NoCall EXCEPT !.kind = call.kind].leaked = Null
          /\ [call EXCEPT !.conn = CallSocket].leaked = call.leaked
      BY DEF NoCall, TypeInv, CallTypes
    <3> QED
      BY <1>3, <3>1, <3>2
  <2>3. sock' = sock
    BY <1>1, <1>9 DEF network_send_receive, Send, SendLost, SendFails, closes, Await,
       Receive, ReceiveFails
  <2>4. \A c \in DOMAIN conns : conns'[c].server = conns[c].server
    <3>1. CASE conns' = conns
      BY <3>1
    <3>2. CASE Send(p)
      BY <3>2, SendEffect
    <3>3. CASE Receive(p)
      BY <3>3, ReceiveEffect
    <3> QED
      BY <1>9, <3>1, <3>2, <3>3 DEF network_send_receive, SendLost, SendFails, Await,
         ReceiveFails
  <2> QED
    BY <1>2, <1>3, <2>1, <2>2, <2>3, <2>4, AloneKeeps, FreshKeeps DEF Calm
<1>10. CASE child_watcher
  BY <1>1, <1>2, <1>10, CalmWatcher
<1>11. ASSUME NEW a \in Activation, ListChildren(a) \/ Compare(a) PROVE Calm'
  BY <1>2, <1>11, CalmList, CalmCompare
<1>12. ASSUME NEW a \in Activation, NEW w \in Which,
              Unchanged(a, w) \/ Leave(a, w) \/ Join(a, w)
       PROVE  Calm'
  BY <1>2, <1>12, CalmUnchanged, CalmLeave, CalmJoin
<1> QED
  BY <1>1, <1>2, <1>4, <1>5, <1>6, <1>7, <1>8, <1>9, <1>10, <1>11, <1>12, Steps, CalmNever

-----------------------------------------------------------------------------
(* The theorems. *)

LEMMA Inductive ==
  /\ Init => ClientInv
  /\ ClientInv /\ [Next]_vars => ClientInv'
<1>1. Init => ClientInv
  BY TypeInit, HeadInit, AnswerInit, CalmInit DEF ClientInv
<1>2. ASSUME ClientInv, [Next]_vars PROVE ClientInv'
  BY <1>2, TypeStep, HeadStep, AnswerStep, CalmStep DEF ClientInv
<1> QED
  BY <1>1, <1>2

(* In every state, whatever the callback of ZooKeeper, the servers and main have
   done, descriptors and connections are as ClientInv says. *)
THEOREM ClientInvariant == Spec => []ClientInv
  BY Inductive, PTL DEF Spec

(* The variables have their types, and as long as nothing has gone wrong
   rtable_disconnect and rtable_connect leave no descriptor open that neither
   rtable_head nor rtable_tail has. *)
THEOREM TypeCorrect == Spec => []TypeOK
<1>1. ASSUME ClientInv PROVE TypeOK
  <2>1. TypeInv /\ (disturbed = {} => Calm)
    BY <1>1 DEF ClientInv, CalmInv
  <2>2. {min_node, max_node} \subseteq Server \cup {NoNode}
    BY <2>1, Facts DEF TypeInv, WatchTypes, Server, NoNode
  <2>3. \A w \in Which : rtable[w].at = "live" => rtable[w].fd \in Fd
    BY <2>1, LiveFacts DEF TypeInv, SockTypes
  <2>4. disturbed = {} => \A f \in Fd \ Unused : \E w \in Which : rtable[w] = Live(f)
    BY <2>1 DEF Calm, AloneInv, Unused
  <2>5. call.conn \in 0 .. Len(conns) /\ \A f \in Fd : sock[f] \in 0 .. Len(conns)
    BY <2>1 DEF TypeInv, CallTypes, SockTypes
  <2> QED
    BY <2>1, <2>2, <2>3, <2>4, <2>5 DEF TypeOK, TypeInv, ChainTypes, WatchTypes, CallTypes
<1> QED
  BY <1>1, ClientInvariant, PTL

(* A put is done by none but a server that has been the head, although
   network_send_receive sends it in two pieces and asks for sockfd each time. *)
THEOREM PutsCorrect == Spec => []PutsReachHeads
<1>1. ClientInv => PutsReachHeads
  BY HeadImplies DEF ClientInv
<1> QED
  BY <1>1, ClientInvariant, PTL

(* handle_client_connection leaves the client connected to the lowest and to the
   highest znode once all is quiet, unless one of the mishaps has happened, and
   the program is not aborted before one has. *)
THEOREM ConnectedCorrect == Spec => []ConnectedUnlessDisturbed
<1>1. ASSUME ClientInv PROVE ConnectedUnlessDisturbed
  <2> SUFFICES ASSUME disturbed = {}
               PROVE  /\ main # "crashed"
                      /\ Quiet => ConnectedTo("head", Min(znodes)) /\ ConnectedTo("tail", Max(znodes))
    BY DEF ConnectedUnlessDisturbed, Works
  <2>1. TypeInv /\ PointerInv /\ AloneInv /\ FreshInv /\ SettledInv /\ OpenInv
    BY <1>1 DEF ClientInv, HeadInv, CalmInv, Calm
  <2>2. ASSUME Quiet, NEW w \in Which PROVE ConnectedTo(w, First(w))
    <3>1. /\ ~ event /\ main = "idle" /\ znodes # {}
          /\ \A a \in Activation : act[a].at = "idle"
          /\ \A s \in znodes : server[s] = "up"
      BY <2>2 DEF Quiet
    <3>2. Node(w) = First(w)
      BY <2>1, <3>1 DEF FreshInv
    <3>3. First(w) # NoNode /\ First(w) \in znodes
      <4>1. znodes \in SUBSET Server /\ znodes \in SUBSET Nat
        BY <2>1, Facts DEF TypeInv, ChainTypes
      <4>2. Min(znodes) \in znodes /\ Max(znodes) \in znodes
        BY <3>1, <4>1, LeastNatural, HighestServer
      <4> QED
        BY <4>1, <4>2, Facts DEF First, NoNode
    <3>4. \A a \in Activation : ~ Replaces(a, w)
      BY <3>1, IdleReplaces
    <3>5. rtable[w].at = "live" /\ conns[Socket(w)].server = Node(w)
      BY <2>1, <3>2, <3>3, <3>4 DEF SettledInv
    <3>6. Socket(w) = sock[rtable[w].fd] /\ rtable[w].fd \in Fd /\ Socket(w) # 0
      BY <2>1, <3>5, SocketFacts DEF PointerInv
    <3>7. conns[Socket(w)].at # "closed"
      BY <2>1, <3>1, <3>2, <3>3, <3>5, <3>6 DEF OpenInv
    <3> QED
      BY <3>2, <3>5, <3>6, <3>7 DEF ConnectedTo
  <2>3. Quiet => ConnectedTo("head", First("head")) /\ ConnectedTo("tail", First("tail"))
    BY <2>2, Facts
  <2> QED
    BY <2>1, <2>3 DEF AloneInv, First
<1> QED
  BY <1>1, ClientInvariant, PTL

(* What read_all gives network_send_receive is the answer to the request that it
   has sent, its length and then its body, whatever was sent on that connection
   before and whoever replaced it meanwhile. *)
THEOREM AnswersCorrect == Spec => AnswersMatch
<1> DEFINE Matches == \A p \in {"length", "body"} :
             Receive(p) => Head(conns[call.conn].in) =
                             [n |-> calls, kind |-> call.kind, part |-> p]
<1>1. ClientInv => Matches
  BY AnswerHead DEF ClientInv, request
<1>2. ClientInv /\ [Next]_vars => [Matches]_vars
  BY <1>1
<1>3. Spec => [][Next]_vars
  BY DEF Spec
<1>4. Spec => [][Matches]_vars
  BY <1>2, <1>3, ClientInvariant, PTL
<1> QED
  BY <1>4 DEF AnswersMatch
=============================================================================
