------------------------------- MODULE Client -------------------------------
(***************************************************************************)
(* The client program (source/client_hashtable.c, client_stub.c,           *)
(* client_network.c): two connections, rtable_head for the requests that   *)
(* write and rtable_tail for those that read, which a callback of          *)
(* ZooKeeper's own thread replaces when the lowest or the highest znode of *)
(* /chain changes, while main is anywhere in a request.  Nothing locks     *)
(* them.                                                                   *)
(*                                                                         *)
(* A message is two pieces, its length and its body: the program asks      *)
(* rtable->sockfd anew for each.  Requests of kind "head" are put and del, *)
(* those of kind "tail" get, size, getkeys, gettable and stats.            *)
(***************************************************************************)
EXTENDS Naturals, Sequences, FiniteSets, FiniteSetsExt, SequencesExt

CONSTANTS
  N,         \* the servers that may be started, in this order
  MaxFd,     \* the descriptors 1 .. MaxFd are for connections
  MaxCalls,  \* requests of the user
  Mortal     \* the servers that may be killed

Server == 1 .. N
Fd     == 1 .. MaxFd

ASSUME ClientAssumption ==
  N \in Nat /\ MaxFd \in Nat /\ MaxCalls \in Nat /\ Mortal \subseteq Server

NoNode == 0            \* min_node and max_node before the first comparison
Which  == {"head", "tail"}

VARIABLES
  server,     \* "off", "created" (znode without address), "up" or "gone"
  znodes,     \* the servers that have a znode
  watch,      \* a watch on /chain is set
  event,      \* the watch has fired, and its callback has not begun
  act,        \* the two activations of handle_client_connection
  min_node, max_node,
  changed,    \* the ones of changed_min ("head") and changed_max that are set
  rtable,     \* rtable_head and rtable_tail
  sock,       \* the connection of each descriptor, 0 for none
  conns,      \* the connections ever made, with what is on its way and
              \* where the thread of the server stands: "serving", "stuck" in
              \* sending on, or "closed" when it or its server has ended
  main,       \* where main stands
  call,       \* its request
  calls,
  disturbed,  \* history: the mishaps so far
  torn,       \* history: the connection was replaced during the request
  puts        \* history: the servers that have done a put

chainvars == <<server, znodes>>
watchvars == <<watch, event>>
nodevars  == <<min_node, max_node, changed>>
mainvars  == <<main, call, calls, torn>>
vars == <<chainvars, watchvars, act, nodevars, rtable, sock, conns, mainvars,
          disturbed, puts>>

Alive(s) == server[s] \in {"created", "up"}
Running  == main \notin {"stopped", "crashed"}

Idle       == [at |-> "idle", min |-> 0, max |-> 0, to |-> 0]
Activation == {"main", "watch"}
(* rtable_t after malloc and after free; the freed chunk is the next one that
   malloc gives out, so a pointer to it soon points to the new rtable_t. *)
Null      == [at |-> "null", fd |-> 0]
Freed     == [at |-> "freed", fd |-> 0]
Live(fd)  == [at |-> "live", fd |-> fd]
NoCall    == [kind |-> "head", conn |-> 0, leaked |-> Null]

(* The connection that sockfd of an rtable_t is: none when it has been closed,
   and when it is read from freed memory, where it is not a descriptor. *)
socket(r) == IF r.at = "live" THEN sock[r.fd] ELSE 0
Socket(w) == socket(rtable[w])

Calling == main \in {"length", "body", "await_length", "read_length",
                     "await_body", "read_body"}

(* A request works with the rtable that it was given.  When rtable_head or
   rtable_tail is assigned without having been disconnected, that one stays. *)
uses(w) == Calling /\ call.kind = w /\ call.leaked = Null
given_One == IF call.leaked # Null THEN call.leaked ELSE rtable["tail"]
given == IF call.leaked # Null THEN call.leaked ELSE rtable[call.kind]
CallSocket == socket(given)

(* The process ends. *)
Ends(how) ==
  /\ main' = how
  /\ watch' = FALSE /\ event' = FALSE
  /\ act' = [a \in Activation |-> Idle]
  /\ rtable' = [w \in Which |-> Null]
  /\ sock' = [f \in Fd |-> 0]
  /\ conns' = <<>> /\ call' = NoCall
  /\ min_node' = NoNode /\ max_node' = NoNode /\ changed' = {}
  /\ UNCHANGED <<chainvars, calls, torn, puts>>

(* An invalid access or free. *)
Abort(why) == Ends("crashed") /\ disturbed' = disturbed \cup why

Init ==
  /\ server \in {[s \in Server |-> IF s <= n THEN "up" ELSE "off"] : n \in 0 .. N}
  /\ znodes = {s \in Server : Alive(s)}
  /\ watch = FALSE /\ event = FALSE
  /\ act = [a \in Activation |-> IF a = "main" THEN [Idle EXCEPT !.at = "list"]
                                 ELSE Idle]
  /\ min_node = NoNode /\ max_node = NoNode /\ changed = {}
  /\ rtable = [w \in Which |-> Null]
  /\ sock = [f \in Fd |-> 0]
  /\ conns = <<>>
  /\ main = "start" /\ call = NoCall /\ calls = 0
  /\ disturbed = {} /\ torn = FALSE /\ puts = {}
-----------------------------------------------------------------------------
(* The servers and ZooKeeper, while there is a program to see them. *)
Changes(z) ==
  /\ znodes' = z
  /\ event' = (event \/ watch)
  /\ watch' = FALSE
  /\ UNCHANGED <<act, nodevars, rtable, sock, conns, mainvars, disturbed, puts>>

(* zoo_create gives the znode the text "node data" ... *)
Start(s) ==
  /\ Running /\ server[s] = "off" /\ \A t \in Server : t < s => server[t] # "off"
  /\ server' = [server EXCEPT ![s] = "created"]
  /\ Changes(znodes \cup {s})

(* ... and zoo_set the address, which no watch on /chain tells. *)
Publish(s) ==
  /\ Running /\ server[s] = "created"
  /\ server' = [server EXCEPT ![s] = "up"]
  /\ UNCHANGED <<znodes, watchvars, act, nodevars, rtable, sock, conns, mainvars,
                 disturbed, puts>>

(* A connection that the server's end has closed. *)
Hung(k) == [k EXCEPT !.at = "closed", !.out = <<>>]

Crash(s) ==
  /\ Running /\ s \in Mortal /\ Alive(s)
  /\ server' = [server EXCEPT ![s] = "gone"]
  /\ conns' = [c \in DOMAIN conns |->
       IF conns[c].server = s THEN Hung(conns[c]) ELSE conns[c]]
  /\ UNCHANGED <<znodes, watchvars, act, nodevars, rtable, sock, mainvars,
                 disturbed, puts>>

Expire(s) ==
  /\ Running /\ server[s] = "gone" /\ s \in znodes
  /\ UNCHANGED server
  /\ Changes(znodes \ {s})

(* clientThread of a server: a length, that many bytes, and the answer.  What
   a reconnection has cut begins with a body, or lacks one; the thread takes
   what follows for it. *)
Message(q) == Len(q) >= 2 /\ q[1].part = "length" /\ q[2].part = "body"

Unreadable(q) ==
  \/ Len(q) >= 1 /\ q[1].part = "body"
  \/ Len(q) >= 3 /\ q[2].part = "length"
  \/ Len(q) >= 2 /\ q[2].part = "body" /\ q[1].n # q[2].n

does_put(k) ==
  puts' = IF k.out[2].kind = "head" THEN puts \cup {k.server} ELSE puts

Serve(c) ==
  LET k == conns[c] IN
  /\ k.at # "closed" /\ Message(k.out)
  /\ conns' = [conns EXCEPT ![c] =
       [k EXCEPT !.at = "serving", !.out = SubSeq(@, 3, Len(@)),
                 !.in = @ \o <<[k.out[2] EXCEPT !.part = "length"], k.out[2]>>]]
  /\ does_put(k)
  /\ UNCHANGED <<chainvars, watchvars, act, nodevars, rtable, sock, mainvars, disturbed>>

(* Before it executes the message the thread sends it on, if there ever was a
   later server: that may not return, ... *)
HasNext(s) == \E t \in Server : t > s /\ server[t] # "off"

SendOnBlocks(c) ==
  LET k == conns[c] IN
  /\ k.at = "serving" /\ Message(k.out) /\ HasNext(k.server)
  /\ conns' = [conns EXCEPT ![c].at = "stuck"]
  /\ UNCHANGED <<chainvars, watchvars, act, nodevars, rtable, sock, mainvars,
                 disturbed, puts>>

(* The thread leaves its loop and closes its end. *)
hangs_up(c) ==
  /\ conns' = [conns EXCEPT ![c] = Hung(@)]
  /\ disturbed' = IF \E f \in Fd : sock[f] = c THEN disturbed \cup {"closed"}
                  ELSE disturbed
  /\ UNCHANGED <<chainvars, watchvars, act, nodevars, rtable, sock, mainvars>>

(* ... or fail, as when another client's message has been cut on the shared
   connection; *)
SendOnFails(c) ==
  LET k == conns[c] IN
  /\ k.at # "closed" /\ Message(k.out) /\ HasNext(k.server)
  /\ hangs_up(c) /\ UNCHANGED puts

(* the bytes it has taken together are no message; *)
UnpackFails(c) ==
  /\ conns[c].at = "serving" /\ Unreadable(conns[c].out)
  /\ hangs_up(c) /\ UNCHANGED puts

(* or the answer finds no one who could read it. *)
Held(c) ==
  \/ \E f \in Fd : sock[f] = c
  \/ main \in {"read_length", "read_body"} /\ call.conn = c

AnswerFails(c) ==
  LET k == conns[c] IN
  /\ k.at # "closed" /\ Message(k.out) /\ ~ Held(c)
  /\ hangs_up(c) /\ does_put(k)
-----------------------------------------------------------------------------
(* handle_client_connection. *)
goes(a, at) == act' = [act EXCEPT ![a].at = at]

(* The watcher's thread takes the event; main's own call may not be over. *)
child_watcher ==
  /\ event /\ act["watch"].at = "idle"
  /\ event' = FALSE
  /\ goes("watch", "list")
  /\ disturbed' = IF act["main"].at = "idle" THEN disturbed
                  ELSE disturbed \cup {"overlap"}
  /\ UNCHANGED <<chainvars, watch, nodevars, rtable, sock, conns, mainvars, puts>>

ListChildren_NoWatch(a) ==
  /\ act[a].at = "list" /\ znodes # {}
  /\ watch' = (a = "main")
  /\ act' = [act EXCEPT ![a] =
       [at |-> "compare", min |-> Min(znodes), max |-> Max(znodes), to |-> 0]]
  /\ UNCHANGED <<chainvars, event, nodevars, rtable, sock, conns, mainvars,
                 disturbed, puts>>

ListChildren(a) ==
  /\ act[a].at = "list" /\ znodes # {}
  /\ watch' = TRUE
  /\ act' = [act EXCEPT ![a] =
       [at |-> "compare", min |-> Min(znodes), max |-> Max(znodes), to |-> 0]]
  /\ UNCHANGED <<chainvars, event, nodevars, rtable, sock, conns, mainvars,
                 disturbed, puts>>

(* data[0] of an empty list. *)
ListEmpty(a) == act[a].at = "list" /\ znodes = {} /\ Abort({"empty"})

Compare(a) ==
  /\ act[a].at = "compare"
  /\ changed' = {w \in Which : IF w = "head" THEN min_node # act[a].min
                               ELSE max_node # act[a].max}
  /\ min_node' = act[a].min /\ max_node' = act[a].max
  /\ goes(a, "leave_head")
  /\ UNCHANGED <<chainvars, watchvars, rtable, sock, conns, mainvars, disturbed, puts>>

leave(w) == IF w = "head" THEN "leave_head" ELSE "leave_tail"
join(w)  == IF w = "head" THEN "join_head" ELSE "join_tail"
advances(a, w) ==
  act' = [act EXCEPT ![a] = IF w = "head" THEN [@ EXCEPT !.at = "leave_tail"] ELSE Idle]

Unchanged(a, w) ==
  /\ act[a].at = leave(w) /\ w \notin changed
  /\ advances(a, w)
  /\ UNCHANGED <<chainvars, watchvars, nodevars, rtable, sock, conns, mainvars,
                 disturbed, puts>>

(* rtable_disconnect.  What it freed before it frees again, and the process is
   aborted. *)
disconnect_StaysOpen(w) ==
  /\ rtable[w].at # "freed"
  /\ rtable' = [rtable EXCEPT ![w] = IF @ = Null THEN Null ELSE Freed]
  /\ UNCHANGED sock

disconnect(w) ==
  /\ rtable[w].at # "freed"
  /\ rtable' = [rtable EXCEPT ![w] = IF @ = Null THEN Null ELSE Freed]
  /\ sock' = IF rtable[w] = Null THEN sock ELSE [sock EXCEPT ![rtable[w].fd] = 0]

(* zoo_get of the address, and rtable_disconnect. *)
Leave(a, w) ==
  LET n == IF w = "head" THEN act[a].min ELSE act[a].max IN
  /\ act[a].at = leave(w) /\ w \in changed
  /\ act' = [act EXCEPT ![a].at = join(w),
               ![a].to = IF n \in znodes /\ server[n] # "created" THEN n ELSE 0]
  /\ disconnect(w)
  /\ torn' = (torn \/ uses(w) \/ (Calling /\ CallSocket = Socket(w)))
  /\ UNCHANGED <<chainvars, watchvars, nodevars, conns, main, call, calls,
                 disturbed, puts>>

LeaveAgain(a, w) ==
  /\ act[a].at = leave(w) /\ w \in changed /\ rtable[w] = Freed
  /\ Abort({})

assigns(w, r) ==
  /\ rtable' = [rtable EXCEPT ![w] = r]
  /\ call' = IF uses(w) /\ rtable[w].at = "live"
             THEN [call EXCEPT !.leaked = rtable[w]] ELSE call

Unused == {f \in Fd : sock[f] = 0}

(* rtable_connect, with the lowest descriptor that is not in use.  When it fails
   handle_client_connection returns at once; min_node and max_node already have
   the new names. *)
Join(a, w) ==
  LET f == Min(Unused)
      s == act[a].to IN
  /\ act[a].at = join(w)
  /\ s # 0 /\ Alive(s) /\ Unused # {}
  /\ conns' = Append(conns, [server |-> s, at |-> "serving",
                               out |-> <<>>, in |-> <<>>])
  /\ sock' = [sock EXCEPT ![f] = Len(conns) + 1]
  /\ assigns(w, Live(f))
  /\ advances(a, w)
  /\ UNCHANGED <<chainvars, watchvars, nodevars, main, calls, torn, disturbed, puts>>

JoinFails(a, w) ==
  /\ act[a].at = join(w)
  /\ act[a].to # 0 /\ Unused # {} => ~ Alive(act[a].to)
  /\ assigns(w, Null)
  /\ act' = [act EXCEPT ![a] = Idle]
  /\ disturbed' = disturbed \cup {"connect"}
  /\ UNCHANGED <<chainvars, watchvars, nodevars, sock, conns, main, calls, torn, puts>>

handle_client_connection(a) ==
  \/ ListChildren(a) \/ ListEmpty(a) \/ Compare(a)
  \/ \E w \in Which : \/ Unchanged(a, w) \/ Leave(a, w) \/ LeaveAgain(a, w)
                      \/ Join(a, w) \/ JoinFails(a, w)
-----------------------------------------------------------------------------
(* main: the connections must be there, once. *)
Connected ==
  /\ main = "start" /\ act["main"].at = "idle"
  /\ IF \E w \in Which : rtable[w] = Null
     THEN Ends("stopped") /\ UNCHANGED disturbed
     ELSE /\ main' = "idle"
          /\ UNCHANGED <<chainvars, watchvars, act, nodevars, rtable, sock, conns,
                         call, calls, torn, disturbed, puts>>

request(part) == [n |-> calls, kind |-> call.kind, part |-> part]

steps(at) == main' = at /\ call' = call

ends == main' = "idle" /\ call' = NoCall

(* rtable_put and the others return -1 or NULL. *)
fails == main' = "no_answer" /\ call' = [NoCall EXCEPT !.kind = call.kind]

(* rtable_put and the others; without an rtable they return at once. *)
Request(w) ==
  /\ main = "idle" /\ calls < MaxCalls
  /\ calls' = calls + 1 /\ torn' = FALSE
  /\ main' = IF rtable[w] = Null THEN "no_answer" ELSE "length"
  /\ call' = [NoCall EXCEPT !.kind = w]
  /\ UNCHANGED <<chainvars, watchvars, act, nodevars, rtable, sock, conns,
                 disturbed, puts>>

next_part(p) == IF p = "length" THEN "body" ELSE "await_length"

(* network_send_receive: write_all to the server, be it another one than that
   of the piece before. *)
Send(p) ==
  LET c == CallSocket IN
  /\ main = p /\ c # 0 /\ conns[c].at # "closed"
  /\ conns' = [conns EXCEPT ![c].out = Append(@, request(p))]
  /\ steps(next_part(p))
  /\ UNCHANGED <<chainvars, watchvars, act, nodevars, rtable, sock, calls, torn,
                 disturbed, puts>>

(* To a connection that the server has closed: what is written is lost ... *)
SendLost(p) ==
  LET c == CallSocket IN
  /\ main = p /\ c # 0 /\ conns[c].at = "closed"
  /\ steps(next_part(p))
  /\ UNCHANGED <<chainvars, watchvars, act, nodevars, rtable, sock, conns, calls,
                 torn, disturbed, puts>>

(* ... or write_all fails, as it does without a descriptor.  After the body the
   descriptor is closed, and the rtable keeps its number. *)
closes(p) ==
  IF p = "body" /\ CallSocket # 0
  THEN /\ sock' = [sock EXCEPT ![given.fd] = 0]
       /\ disturbed' = disturbed \cup {"write"}
  ELSE UNCHANGED <<sock, disturbed>>

SendFails(p) ==
  LET c == CallSocket IN
  /\ main = p
  /\ c # 0 => conns[c].at = "closed"
  /\ closes(p)
  /\ fails
  /\ UNCHANGED <<chainvars, watchvars, act, nodevars, rtable, conns, calls, torn, puts>>

(* read_all begins, with the connection that the descriptor has then: closing
   the descriptor meanwhile does not wake it. *)
await(p) == IF p = "length" THEN "await_length" ELSE "await_body"
read(p)  == IF p = "length" THEN "read_length" ELSE "read_body"

Await_GivesUp(p) ==
  LET c == CallSocket IN
  /\ main = await(p)
  /\ \/ fails
     \/ c # 0 /\ main' = read(p) /\ call' = [call EXCEPT !.conn = c]
  /\ UNCHANGED <<chainvars, watchvars, act, nodevars, rtable, sock, conns, calls,
                 torn, disturbed, puts>>

Await(p) ==
  LET c == CallSocket IN
  /\ main = await(p)
  /\ IF c = 0 THEN fails
     ELSE main' = read(p) /\ call' = [call EXCEPT !.conn = c]
  /\ UNCHANGED <<chainvars, watchvars, act, nodevars, rtable, sock, conns, calls,
                 torn, disturbed, puts>>

Receive(p) ==
  LET in == conns[call.conn].in IN
  /\ main = read(p) /\ in # <<>>
  /\ conns' = [conns EXCEPT ![call.conn].in = Tail(@)]
  /\ IF p = "length" THEN steps("await_body") ELSE ends
  /\ UNCHANGED <<chainvars, watchvars, act, nodevars, rtable, sock, calls, torn,
                 disturbed, puts>>

ReceiveFails_Retries(p) ==
  /\ main = read(p) /\ conns[call.conn].in = <<>>
  /\ conns[call.conn].at = "closed"
  /\ UNCHANGED vars

ReceiveFails(p) ==
  /\ main = read(p) /\ conns[call.conn].in = <<>>
  /\ conns[call.conn].at = "closed"
  /\ fails
  /\ UNCHANGED <<chainvars, watchvars, act, nodevars, rtable, sock, conns, calls,
                 torn, disturbed, puts>>

network_send_receive(p) ==
  \/ Send(p) \/ SendLost(p) \/ SendFails(p)
  \/ Await(p) \/ Receive(p) \/ ReceiveFails(p)

(* main is told so and goes on; but "stats" reads what rtable_stats returned,
   NULL as it is. *)
NoAnswer ==
  /\ main = "no_answer"
  /\ ends
  /\ UNCHANGED <<chainvars, watchvars, act, nodevars, rtable, sock, conns, calls,
                 torn, disturbed, puts>>

StatsOfNull == main = "no_answer" /\ call.kind = "tail" /\ Abort({"stats"})
-----------------------------------------------------------------------------
(* quit: rtable_disconnect of the head, of the tail when that fails, and when
   that fails too zookeeper_close, after which the program goes on. *)
quits(at, w) == main = at /\ Socket(w) # 0 /\ Ends("stopped") /\ UNCHANGED disturbed

quit_fails(at, w, next) ==
  /\ main = at /\ Socket(w) = 0
  /\ disconnect(w)
  /\ main' = next
  /\ UNCHANGED <<chainvars, watchvars, act, nodevars, conns, call, calls, torn,
                 disturbed, puts>>

QuitHead == quits("idle", "head") \/ quit_fails("idle", "head", "quit_tail")
QuitTail == quits("quit_tail", "tail") \/ quit_fails("quit_tail", "tail", "quit_close")

(* The callback is disconnecting it, or an earlier quit did. *)
QuitAgain ==
  /\ \/ main = "idle" /\ rtable["head"] = Freed
     \/ main = "quit_tail" /\ rtable["tail"] = Freed
  /\ Abort({"quit"})

(* free(min_node), free(max_node), once; zookeeper_close waits for the thread
   of the callbacks, and none come after it. *)
QuitClose ==
  /\ main = "quit_close" /\ act["watch"].at = "idle"
  /\ main' = "idle"
  /\ watch' = FALSE /\ event' = FALSE
  /\ goes("watch", "closed")
  /\ UNCHANGED <<chainvars, nodevars, rtable, sock, conns, call, calls, torn,
                 disturbed, puts>>

QuitCloseAgain == main = "quit_close" /\ act["watch"].at = "closed" /\ Abort({})

Quit == QuitHead \/ QuitTail \/ QuitAgain \/ QuitClose \/ QuitCloseAgain
-----------------------------------------------------------------------------
Environment ==
  \/ \E s \in Server : Start(s) \/ Crash(s)
  \/ \E w \in Which : Request(w)
  \/ Quit \/ StatsOfNull
  \/ \E c \in DOMAIN conns : \/ SendOnBlocks(c) \/ SendOnFails(c)
                            \/ UnpackFails(c) \/ AnswerFails(c)
                            \/ (conns[c].at = "stuck" /\ Serve(c))

Progress ==
  \/ Connected \/ NoAnswer
  \/ \E p \in {"length", "body"} : network_send_receive(p)

Watcher == child_watcher \/ handle_client_connection("watch")

Servers ==
  \/ \E s \in Server : Publish(s) \/ Expire(s)
  \/ \E c \in DOMAIN conns : conns[c].at = "serving" /\ Serve(c)

Next ==
  Environment \/ Progress \/ Watcher \/ Servers \/ handle_client_connection("main")

Spec == Init /\ [][Next]_vars

(* The threads of the client run, ZooKeeper delivers its events, and the
   threads of the servers serve, but for one that is stuck: nothing says that
   the next server takes what it writes. *)
FairSpec ==
  /\ Spec
  /\ WF_vars(Progress) /\ WF_vars(Watcher) /\ WF_vars(Servers)
  /\ WF_vars(handle_client_connection("main"))
-----------------------------------------------------------------------------
Places ==
  {"start", "idle", "length", "body", "await_length", "read_length", "await_body",
   "read_body", "no_answer", "quit_tail", "quit_close", "stopped", "crashed"}

TypeOK ==
  /\ server \in [Server -> {"off", "created", "up", "gone"}]
  /\ znodes \subseteq Server
  /\ watch \in BOOLEAN /\ event \in BOOLEAN
  /\ {min_node, max_node} \subseteq Server \cup {NoNode}
  /\ changed \subseteq Which
  /\ main \in Places
  /\ call.conn \in 0 .. Len(conns)
  /\ \A w \in Which : rtable[w].at = "live" => rtable[w].fd \in Fd
  /\ \A f \in Fd : sock[f] \in 0 .. Len(conns)
  /\ disturbed = {} => \A f \in Fd \ Unused : \E w \in Which : rtable[w] = Live(f)
  /\ calls \in 0 .. MaxCalls

(* Nothing is under way, and every server of /chain lives. *)
Quiet ==
  /\ main = "idle"
  /\ ~ event /\ \A a \in Activation : act[a].at = "idle"
  /\ \A s \in znodes : server[s] = "up"
  /\ znodes # {}

ConnectedTo(w, s) ==
  /\ Socket(w) # 0
  /\ conns[Socket(w)].server = s /\ conns[Socket(w)].at # "closed"

Works ==
  /\ main # "crashed"
  /\ Quiet => ConnectedTo("head", Min(znodes)) /\ ConnectedTo("tail", Max(znodes))

(* Whatever changes of /chain the callbacks meet, and however they cut into
   requests, the program does not crash, and once all is quiet rtable_head and
   rtable_tail are connected to the head and to the tail.  Only seven things
   can spoil that: main's own handle_client_connection overlaps with a
   callback, a connection is refused, writing a body fails, a server closes a
   connection that is in use, the statistics are asked for in vain, the chain
   is empty, or quit meets an rtable that has been freed. *)
ConnectedUnlessDisturbed == disturbed = {} => Works

(* A put is done only by a server that has been the head, although the request
   is sent in two pieces, the connection may be replaced between them, and
   descriptors are used again; unless writing a body has failed, for then its
   descriptor is closed twice, and rtable_head may find there the tail. *)
PutsReachHeads ==
  "write" \notin disturbed => \A s \in puts : \A t \in 1 .. s - 1 : t \notin znodes

(* What is read as the answer to a request is the answer to that request, both
   of its pieces. *)
AnswersMatch ==
  [][\A p \in {"length", "body"} :
       Receive(p) => Head(conns[call.conn].in) =
                       [n |-> calls, kind |-> call.kind, part |-> p]]_vars

(* The thread of the server from which main awaits an answer sends on. *)
Stuck ==
  main \in {"read_length", "read_body"} /\ conns[call.conn].at = "stuck"

(* A request ends, whatever servers die under it and whatever connections they
   close, but for two cases.  Its connection was closed by a callback while it
   was under way: then it may wait for ever, for the answer to a message cut
   in two.  Or its server waits for ever for the next one. *)
CallsEnd == []<>(~ Calling) \/ <>[]torn \/ <>[]Stuck
-----------------------------------------------------------------------------
(* What the README says and the code does not do: the system tolerates
   faults, without downtime, and concurrency does not spoil shared data. *)

(* A connection that was refused is made later: as long as nothing else goes
   wrong, the client of a chain that lives is connected to it. *)
ReconnectsAfterRefusal == disturbed \subseteq {"connect"} => Works

(* So is a client whose connection a server has closed that lives. *)
ReconnectsAfterClose == disturbed \subseteq {"closed"} => Works

(* Two threads in handle_client_connection leave the connections right. *)
SurvivesOverlap == disturbed \subseteq {"overlap"} => Works

(* The loss of the answer to a request does not end the client. *)
SurvivesNoAnswer == disturbed \subseteq {"stats"} => Works
=============================================================================
