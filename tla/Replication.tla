---------------------------- MODULE Replication ----------------------------
(***************************************************************************)
(* How a write travels down a chain of servers whose membership does not   *)
(* change: clients write at server 1, every server sends each message it   *)
(* receives to its successor, applies it and answers (clientThread and     *)
(* network_send, source/server_network.c).  Applying a message is one      *)
(* step, which ServerThreads justifies.                                    *)
(*                                                                         *)
(* Server 1 has a thread for each client, every other server one thread    *)
(* for the connection of its predecessor; all threads of a server share    *)
(* the socket to the successor.  network_send writes a message in two      *)
(* parts, its length and its body.                                         *)
(***************************************************************************)
EXTENDS Naturals, Sequences, FiniteSets

CONSTANTS
  Client,     \* the clients that write
  Key,
  N,          \* the number of servers
  MaxWrites,  \* writes of one client in a behaviour
  LinkCap,    \* parts that the buffers of a connection hold
  UnreadCap   \* answers that fit into the buffers towards the predecessor

ASSUME ChainAssumption ==
  /\ N \in Nat \ {0} /\ Client \cap Nat = {}
  /\ MaxWrites \in Nat /\ LinkCap \in Nat \ {0} /\ UnreadCap \in Nat

Server == 1 .. N
Inner  == 2 .. N                \* a server, its connection and its thread
Thread == Client \cup Inner

Write == [by : Client, n : 1 .. MaxWrites, key : Key]

VARIABLES
  pc,       \* where each thread stands in clientThread
  msg,      \* mensagem, or the length just read, as the write it belongs to
  link,     \* what is on its way to each inner server
  up,       \* whether that connection is open
  unread,   \* answers the predecessor has not read: it never reads any
  log,      \* the writes each server has applied, in order
  sent,     \* history: the writes each client has sent
  acked     \* history: how many of them were answered

vars == <<pc, msg, link, up, unread, log, sent, acked>>

NoWrite == <<>>
Header(w) == [part |-> "header", of |-> w]
Body(w)   == [part |-> "body", of |-> w]

At(t)    == IF t \in Client THEN 1 ELSE t
(* Mutant: only the head propagates. *)
OnwardFromHead(t) == IF At(t) = 1 THEN "header" ELSE "apply"

(* A server without next_znode_id does not send. *)
Onward(t) == IF At(t) < N THEN "header" ELSE "apply"

goto(t, from, to) == pc[t] = from /\ pc' = [pc EXCEPT ![t] = to]
-----------------------------------------------------------------------------
Init ==
  /\ pc = [t \in Thread |-> "receive"]
  /\ msg = [t \in Thread |-> NoWrite]
  /\ link = [s \in Inner |-> <<>>]
  /\ up = [s \in Inner |-> TRUE]
  /\ unread = [s \in Inner |-> 0]
  /\ log = [s \in Server |-> <<>>]
  /\ sent = [c \in Client |-> <<>>]
  /\ acked = [c \in Client |-> 0]

(* rtable_put and rtable_del wait for each answer, so a client's write is
   there to be received whenever its thread receives. *)
ReceiveWrite(c) ==
  /\ c \in Client
  /\ goto(c, "receive", Onward(c))
  /\ Len(sent[c]) < MaxWrites
  /\ \E k \in Key :
       LET w == [by |-> c, n |-> Len(sent[c]) + 1, key |-> k] IN
       /\ msg' = [msg EXCEPT ![c] = w]
       /\ sent' = [sent EXCEPT ![c] = Append(@, w)]
  /\ UNCHANGED <<link, up, unread, log, acked>>

(* network_receive reads the length of the message ... *)
ReceiveHeader(s) ==
  /\ s \in Inner
  /\ goto(s, "receive", "read")
  /\ link[s] # <<>>
  /\ msg' = [msg EXCEPT ![s] = Head(link[s]).of]
  /\ link' = [link EXCEPT ![s] = Tail(@)]
  /\ UNCHANGED <<up, unread, log, sent, acked>>

(* ... and then that many bytes, *)
ReceiveBody(s) ==
  /\ s \in Inner
  /\ goto(s, "read", Onward(s))
  /\ link[s] # <<>> /\ Head(link[s]) = Body(msg[s])
  /\ link' = [link EXCEPT ![s] = Tail(@)]
  /\ UNCHANGED <<msg, up, unread, log, sent, acked>>

(* The thread leaves its loop and closes its connection. *)
LeaveFrom(t, places) ==
  /\ pc[t] \in places
  /\ pc' = [pc EXCEPT ![t] = "gone"]
  /\ msg' = [msg EXCEPT ![t] = NoWrite]
  /\ up' = [s \in Inner |-> up[s] /\ s # t]
  /\ link' = [s \in Inner |-> IF s = t THEN <<>> ELSE link[s]]
  /\ UNCHANGED <<unread, log, sent, acked>>

(* Mutant: the thread skips what it cannot unpack and goes on. *)
ReceiveTornSkips(s) ==
  /\ s \in Inner
  /\ goto(s, "read", "receive")
  /\ link[s] # <<>> /\ Head(link[s]) # Body(msg[s])
  /\ link' = [link EXCEPT ![s] = Tail(@)]
  /\ UNCHANGED <<msg, up, unread, log, sent, acked>>

(* which cannot be unpacked when another length got between the two. *)
ReceiveTorn(s) ==
  /\ s \in Inner
  /\ link[s] # <<>> /\ Head(link[s]) # Body(msg[s])
  /\ LeaveFrom(s, {"read"})
-----------------------------------------------------------------------------
(* Mutant: what does not fit into the buffers is not sent. *)
SendWhatFits(t, from, to, part) ==
  LET next == At(t) + 1 IN
  /\ goto(t, from, to)
  /\ up[next]
  /\ link' = [link EXCEPT ![next] =
       IF Len(@) < LinkCap THEN Append(@, part) ELSE @]
  /\ UNCHANGED <<msg, up, unread, log, sent, acked>>

(* network_send to next_znode_rtable, one write_all at a time; a write waits
   while the buffers are full, and no lock holds the two together. *)
Send(t, from, to, part) ==
  LET next == At(t) + 1 IN
  /\ goto(t, from, to)
  /\ up[next]
  /\ Len(link[next]) < LinkCap
  /\ link' = [link EXCEPT ![next] = Append(@, part)]
  /\ UNCHANGED <<msg, up, unread, log, sent, acked>>

SendHeader(t) == Send(t, "header", "body", Header(msg[t]))

(* Mutant: a message that was sent on is not applied here. *)
SendBodyOnly(t) == Send(t, "body", "reply", Body(msg[t]))

SendBody(t) == Send(t, "body", "apply", Body(msg[t]))

(* The successor has closed the connection: a write still succeeds until the
   reset is back, *)
SendLost(t) ==
  /\ \/ goto(t, "header", "body")
     \/ goto(t, "body", "apply")
  /\ ~ up[At(t) + 1]
  /\ UNCHANGED <<msg, link, up, unread, log, sent, acked>>

(* and fails after that: the thread drops its message, and its client. *)
SendFails(t) ==
  /\ LeaveFrom(t, {"header", "body"})
  /\ ~ up[At(t) + 1]
-----------------------------------------------------------------------------
(* invoke between comecaWrite and terminaWrite. *)
Apply(t) ==
  /\ goto(t, "apply", "reply")
  /\ log' = [log EXCEPT ![At(t)] = Append(@, msg[t])]
  /\ UNCHANGED <<msg, link, up, unread, sent, acked>>

(* The answer to a client. *)
ReplyClient(c) ==
  /\ c \in Client
  /\ goto(c, "reply", "receive")
  /\ acked' = [acked EXCEPT ![c] = @ + 1]
  /\ msg' = [msg EXCEPT ![c] = NoWrite]
  /\ UNCHANGED <<link, up, unread, log, sent>>

(* Mutant: the answer is sent without waiting for room. *)
ReplyServerAlways(s) ==
  /\ s \in Inner
  /\ goto(s, "reply", "receive")
  /\ unread' = [unread EXCEPT ![s] = @ + 1]
  /\ msg' = [msg EXCEPT ![s] = NoWrite]
  /\ UNCHANGED <<link, up, log, sent, acked>>

(* The answer to the predecessor, which only ever writes to this socket. *)
ReplyServer(s) ==
  /\ s \in Inner
  /\ goto(s, "reply", "receive")
  /\ unread[s] < UnreadCap
  /\ unread' = [unread EXCEPT ![s] = @ + 1]
  /\ msg' = [msg EXCEPT ![s] = NoWrite]
  /\ UNCHANGED <<link, up, log, sent, acked>>

(* The client quits, before a write or instead of taking the answer. *)
Quit(c) == c \in Client /\ LeaveFrom(c, {"receive", "reply"})

Work(t) ==
  \/ ReceiveHeader(t) \/ ReceiveBody(t) \/ ReceiveTorn(t)
  \/ SendHeader(t) \/ SendBody(t) \/ SendLost(t) \/ SendFails(t)
  \/ Apply(t) \/ ReplyClient(t) \/ ReplyServer(t)

Next == \E t \in Thread : ReceiveWrite(t) \/ Work(t) \/ Quit(t)

Spec == Init /\ [][Next]_vars

(* Every server runs its threads, and TCP delivers what was written. *)
FairSpec == Spec /\ \A t \in Thread : WF_vars(Work(t))
-----------------------------------------------------------------------------
Places == {"receive", "read", "header", "body", "apply", "reply", "gone"}
Part   == {Header(w) : w \in Write} \cup {Body(w) : w \in Write}

TypeOK ==
  /\ pc \in [Thread -> Places]
  /\ msg \in [Thread -> Write \cup {NoWrite}]
  /\ link \in [Inner -> Seq(Part)]
  /\ \A s \in Inner : Len(link[s]) <= LinkCap
  /\ up \in [Inner -> BOOLEAN]
  /\ unread \in [Inner -> 0 .. UnreadCap]
  /\ log \in [Server -> Seq(Write)]
  /\ sent \in [Client -> Seq(Write)]
  /\ acked \in [Client -> 0 .. MaxWrites]

In(w, seq) == \E i \in DOMAIN seq : seq[i] = w

(* Every server applies the writes of one client in the order in which the
   client made them, none twice and none left out, even when the threads of
   several clients share a socket and cut up each other's messages: what
   stands before a client's n-th write are its writes 1 to n - 1. *)
PerClientOrder ==
  \A s \in Server : \A i \in DOMAIN log[s] :
    LET w      == log[s][i]
        before == {j \in 1 .. i - 1 : log[s][j].by = w.by}
    IN  /\ w.n <= Len(sent[w.by]) /\ w = sent[w.by][w.n]
        /\ {log[s][j].n : j \in before} = 1 .. w.n - 1

(* The servers after the head agree on one order of all the writes: only the
   head, whose threads race from the socket to the lock, can differ. *)
InnerSameOrder ==
  \A s, r \in Inner :
    \A i \in DOMAIN log[s] \cap DOMAIN log[r] : log[s][i] = log[r][i]

(* A write that a server has applied is on its way to the successor or has
   been received there, unless their connection is broken. *)
NoOrphanWrites ==
  \A s \in Inner : up[s] =>
    \A i \in DOMAIN log[s - 1] :
      LET w == log[s - 1][i] IN
      In(w, log[s]) \/ In(Body(w), link[s]) \/ (msg[s] = w /\ pc[s] # "read")

(* With one client: a server never runs more than one write ahead of its
   predecessor, although it is sent each write before the predecessor
   applies it. *)
AtMostOneAhead ==
  \A s \in Inner : Len(log[s]) <= Len(log[s - 1]) + 1

RL == INSTANCE ReplicatedLog
        WITH history <- sent[CHOOSE c \in Client : TRUE], applied <- log

(* With one client: all servers apply its writes in their one order, whatever
   the buffers hold and wherever the client quits. *)
InOrder == RL!Spec

(* While the answers that nobody reads fit into the buffers, a write that
   one client made reaches the tail. *)
WritesReachTail ==
  \A c \in Client, n \in 1 .. MaxWrites :
    acked[c] >= n ~> Len(log[N]) >= n
-----------------------------------------------------------------------------
(* What the documentation says and the code does not do. *)

Content(s) ==
  [k \in Key |->
     LET of == {i \in DOMAIN log[s] : log[s][i].key = k}
     IN  IF of = {} THEN NoWrite
         ELSE log[s][CHOOSE i \in of : \A j \in of : j <= i]]

Quiet ==
  /\ \A t \in Thread : pc[t] = "receive"
  /\ \A s \in Inner : link[s] = <<>>

(* The replicas agree once every write has travelled the whole chain. *)
ReplicasAgree == Quiet => \A s, r \in Server : Content(s) = Content(r)

(* A client that waits for an answer gets one, or loses its connection. *)
ClientsAnswered ==
  \A c \in Client : pc[c] # "receive" ~> pc[c] \in {"receive", "gone"}
=============================================================================
