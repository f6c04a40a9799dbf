-------------------------------- MODULE Join --------------------------------
(***************************************************************************)
(* A server joins the chain: main (source/server_hashtable.c) finds its    *)
(* predecessor with get_previous_server, copies the predecessor's table    *)
(* with rtable_get_table and only then accepts connections, while writes   *)
(* go on, the predecessor connects to the new server whenever its callback *)
(* runs, and servers are killed.                                           *)
(*                                                                         *)
(* Membership has the steps of a callback and Replication those of a       *)
(* message; here a callback, the sending of a message and its handling are *)
(* one step each.  One client writes, to the head.                         *)
(***************************************************************************)
EXTENDS Naturals, Sequences, FiniteSets, FiniteSetsExt

CONSTANTS
  N,           \* the servers that may be started, in this order
  Key,
  MaxWrites,   \* writes in a behaviour
  FirstIds,    \* the numbers that the first znode may have
  Mortal,      \* the servers that may be killed
  LinkCap      \* messages that the buffers of a connection hold

Server   == 1 .. N
Client   == 0           \* as the peer of a connection
NoServer == 0
Nowhere  == <<0, 0>>

ASSUME JoinAssumption ==
  /\ N \in Nat \ {0} /\ MaxWrites \in Nat
  /\ FirstIds \subseteq Nat /\ Mortal \subseteq Server /\ LinkCap \in Nat \ {0}

(* Write n is the message n. *)
GetTable == 0
Message  == 0 .. MaxWrites

VARIABLES
  first,    \* ZooKeeper: the number of the first server's znode
  znodes,   \* ZooKeeper: the servers that have a znode
  event,    \* the servers whose watch has fired
  main,     \* where the main thread of each server stands
  prev,     \* previous_server
  next,     \* the connection of each server to its successor
  threads,  \* per server its connections, in the order they were made
  table,    \* per server the write that is the value of each key
  copy,     \* the answer to GetTable on its way to each server
  client,   \* the connection of the client
  busy,     \* the client waits for its answer
  keys,     \* history: the key of each write
  newest,   \* history: the newest write of each key that was sent to a server
  whole,    \* history: the servers whose copy no write went round
  copied    \* history: the servers that have copied a table

nodevars == <<main, prev>>
datavars == <<table, copy>>
clivars  == <<client, busy, keys>>
history  == <<newest, whole, copied>>
vars == <<first, znodes, event, nodevars, next, threads, datavars, clivars, history>>

Alive(s)   == main[s] \notin {"off", "gone"}
node_id(s) == first + s - 1
NoTable    == [k \in Key |-> 0]
NoCopy     == <<>>

Connection(from, queue) ==
  [from |-> from, queue |-> queue, open |-> TRUE, at |-> "receive", msg |-> 0]

(* A connection c is <<server, index>>. *)
Open(c) ==
  c # Nowhere /\ Alive(c[1]) /\ threads[c[1]][c[2]].at  # "dropped"

Closing(c, ths) ==
  IF c = Nowhere \/ ~ Alive(c[1]) THEN ths
  ELSE [ths EXCEPT ![c[1]][c[2]].open = FALSE]

(* The connections of t once s has closed its end of them. *)
Left(t, s) ==
  [i \in DOMAIN threads[t] |->
     [threads[t][i] EXCEPT !.open = @ /\ threads[t][i].from # s]]

(* The process ends, and with it its ends of all connections. *)
Stop(s) ==
  /\ main' = [main EXCEPT ![s] = "gone"]
  /\ prev' = [prev EXCEPT ![s] = NoServer]
  /\ event' = event \ {s}
  /\ next' = [next EXCEPT ![s] = Nowhere]
  /\ threads' = [t \in Server |-> IF t = s THEN <<>> ELSE Left(t, s)]
  /\ table' = [table EXCEPT ![s] = NoTable]
  /\ copy' = [copy EXCEPT ![s] = NoCopy]
  /\ newest' = [newest EXCEPT ![s] = NoTable]
  /\ whole' = whole \ {s}
  /\ UNCHANGED <<first, znodes, clivars, copied>>
-----------------------------------------------------------------------------
Init ==
  /\ first \in FirstIds
  /\ znodes = {} /\ event = {}
  /\ main = [s \in Server |-> "off"]
  /\ prev = [s \in Server |-> NoServer]
  /\ next = [s \in Server |-> Nowhere]
  /\ threads = [s \in Server |-> <<>>]
  /\ table = [s \in Server |-> NoTable]
  /\ copy = [s \in Server |-> NoCopy]
  /\ client = Nowhere /\ busy = FALSE /\ keys = <<>>
  /\ newest = [s \in Server |-> NoTable] /\ whole = {}
  /\ copied = {}

Watching == {t \in Server : Alive(t)}

(* server_network_init: the server listens, its znode has its address, and
   its watch is set. *)
Start(s) ==
  /\ main[s] = "off" /\ \A t \in Server : t < s => main[t] # "off"
  /\ main' = [main EXCEPT ![s] = "list"]
  /\ znodes' = znodes \cup {s}
  /\ event' = event \cup Watching
  /\ UNCHANGED <<first, prev, next, threads, datavars, clivars, history>>

ListPrevious_AboveFirst(s) ==
  LET before == {t \in znodes : t < s /\ node_id(t) > 1} IN
  /\ main[s] = "list"
  /\ IF before = {}
     THEN main' = [main EXCEPT ![s] = "serve"] /\ prev' = prev
     ELSE /\ main' = [main EXCEPT ![s] = "address"]
          /\ prev' = [prev EXCEPT ![s] = Max(before)]
  /\ UNCHANGED <<first, znodes, event, next, threads, datavars, clivars, history>>

(* get_previous_server lists the children.  It looks for a number above 0,
   the one it starts from, so the znode with number 0 is never found. *)
ListPrevious(s) ==
  LET before == {t \in znodes : t < s /\ node_id(t) > 0} IN
  /\ main[s] = "list"
  /\ IF before = {}
     THEN main' = [main EXCEPT ![s] = "serve"] /\ prev' = prev
     ELSE /\ main' = [main EXCEPT ![s] = "address"]
          /\ prev' = [prev EXCEPT ![s] = Max(before)]
  /\ UNCHANGED <<first, znodes, event, next, threads, datavars, clivars, history>>

(* The znode has gone meanwhile: "none", and the server starts empty. *)
GetPrevious(s) ==
  /\ main[s] = "address"
  /\ main' = [main EXCEPT ![s] = IF prev[s] \in znodes THEN "connect" ELSE "serve"]
  /\ UNCHANGED <<first, znodes, event, prev, next, threads, datavars, clivars, history>>

(* rtable_connect, and the request of rtable_get_table. *)
AskTable(s) ==
  /\ main[s] = "connect" /\ Alive(prev[s])
  /\ main' = [main EXCEPT ![s] = "copy"]
  /\ threads' = [threads EXCEPT ![prev[s]] =
                   Append(@, Connection(s, <<GetTable>>))]
  /\ UNCHANGED <<first, znodes, event, prev, next, datavars, clivars, history>>

(* Without a connection, or when it breaks before the answer, the entries are
   NULL and the loop over them reads entries[0]. *)
Lost(s) ==
  \A i \in DOMAIN threads[prev[s]] :
    LET c == threads[prev[s]][i] IN c.from = s => c.at = "dropped"

AskFails_Waits(s) ==
  /\ main[s] = "connect" /\ ~ Alive(prev[s])
  /\ Stop(s)

AskFails(s) ==
  /\ \/ main[s] = "connect" /\ ~ Alive(prev[s])
     \/ main[s] = "copy" /\ copy[s] = NoCopy /\ Lost(s)
  /\ Stop(s)

Put_NotAtAll(s) == table[s]
Put(s) == [k \in Key |-> IF copy[s][k] = 0 THEN table[s][k] ELSE copy[s][k]]

(* The loop of table_put into the new table, and rtable_disconnect. *)
CopyTable(s) ==
  /\ main[s] = "copy" /\ copy[s] # NoCopy
  /\ main' = [main EXCEPT ![s] = "serve"]
  /\ prev' = [prev EXCEPT ![s] = NoServer]
  /\ table' = [table EXCEPT ![s] = Put(s)]
  /\ newest' = [newest EXCEPT ![s] =
       [k \in Key |-> Max({@[k], copy[s][k]})]]
  /\ copy' = [copy EXCEPT ![s] = NoCopy]
  /\ threads' = [threads EXCEPT ![prev[s]] = Left(prev[s], s)]
  /\ copied' = copied \cup {s}
  /\ UNCHANGED <<first, znodes, event, next, clivars, whole>>

main_thread(s) ==
  ListPrevious(s) \/ GetPrevious(s) \/ AskTable(s) \/ AskFails(s) \/ CopyTable(s)
-----------------------------------------------------------------------------
Crash(s) ==
  /\ s \in Mortal /\ Alive(s)
  /\ Stop(s)

Expire(s) ==
  /\ main[s] = "gone" /\ s \in znodes
  /\ znodes' = znodes \ {s}
  /\ event' = event \cup Watching
  /\ UNCHANGED <<first, nodevars, next, threads, datavars, clivars, history>>

Later(s) == {t \in znodes : t > s}

(* child_watcher: also the same successor as before is given up and connected
   to again. *)
Rewire(s) ==
  /\ s \in event
  /\ event' = event \ {s}
  /\ IF Later(s) = {}
     THEN /\ next' = [next EXCEPT ![s] = Nowhere]
          /\ threads' = Closing(next[s], threads)
     ELSE LET t == Min(Later(s)) IN
          /\ Alive(t)
          /\ next' = [next EXCEPT ![s] = <<t, Len(threads[t]) + 1>>]
          /\ threads' = [Closing(next[s], threads) EXCEPT ![t] =
                           Append(@, Connection(s, <<>>))]
  /\ UNCHANGED <<first, znodes, nodevars, datavars, clivars, history>>

(* The successor is dead and still in /chain: exit. *)
RewireFails(s) ==
  /\ s \in event /\ Later(s) # {} /\ ~ Alive(Min(Later(s)))
  /\ Stop(s)

child_watcher(s) == Rewire(s) \/ RewireFails(s)
-----------------------------------------------------------------------------
in_main_loop_AcceptsEarly(s) == main[s] \in {"connect", "copy", "serve"}
in_main_loop(s) == main[s] = "serve"

(* clientThread, which only runs once main is in network_main_loop; until
   then connections wait in the backlog of the socket.  It takes a message and
   sends it on, a request for the table too: when it received it shows nowhere
   but in the order of what it sends.  When the peer has gone and there is
   nothing more to read it ends, which nothing here waits for. *)
takes(s, i, to) ==
  LET c == threads[s][i] IN
  /\ in_main_loop(s) /\ c.at = "receive" /\ c.queue # <<>>
  /\ threads' = [threads EXCEPT ![s][i] =
       [c EXCEPT !.at = to, !.msg = Head(c.queue), !.queue = Tail(c.queue)]]

Sent(t, m) ==
  newest' = IF m = GetTable THEN newest
            ELSE [newest EXCEPT ![t][keys[m]] = Max({@, m})]

Propagate(s, i) ==
  LET c == threads[s][i]
      t == next[s][1]
      j == next[s][2] IN
  /\ in_main_loop(s) /\ c.at = "receive" /\ c.queue # <<>>
  /\ Open(next[s]) /\ Len(threads[t][j].queue) < LinkCap
  /\ threads' = [threads EXCEPT
       ![s][i] = [c EXCEPT !.at = "apply", !.msg = Head(c.queue), !.queue = Tail(@)],
       ![t][j].queue = Append(@, Head(c.queue))]
  /\ Sent(t, Head(c.queue))
  /\ UNCHANGED <<first, znodes, event, nodevars, next, datavars, clivars, whole, copied>>

(* There is no successor, or what is written to it is lost ... *)
PropagateNowhere(s, i) ==
  /\ takes(s, i, "apply")
  /\ ~ Open(next[s])
  /\ UNCHANGED <<first, znodes, event, nodevars, next, datavars, clivars, history>>

(* ... or writing fails, and the thread ends with the message it had. *)
PropagateFails(s, i) ==
  /\ takes(s, i, "dropped")
  /\ next[s] # Nowhere /\ ~ Open(next[s])
  /\ UNCHANGED <<first, znodes, event, nodevars, next, datavars, clivars, history>>

(* invoke, and the answer: to the client, to the server that asked for the
   table, or to a predecessor that does not read it.  Answering a peer that
   has gone may fail, and then the thread ends whatever it still had to read. *)
answers(s, i) ==
  LET c == threads[s][i] IN
  /\ in_main_loop(s) /\ c.at = "apply"
  /\ \E to \in {"receive"} \cup (IF c.open THEN {} ELSE {"dropped"}) :
       threads' = [threads EXCEPT ![s][i] = [c EXCEPT !.at = to, !.msg = 0]]

ApplyWrite(s, i) ==
  LET c == threads[s][i] IN
  /\ answers(s, i)
  /\ c.msg # GetTable
  /\ table' = [table EXCEPT ![s][keys[c.msg]] = c.msg]
  /\ busy' = (busy /\ c.from # Client)
  /\ UNCHANGED <<first, znodes, event, nodevars, next, copy, client, keys, history>>

(* A server that asked is above s; a predecessor that sent its request on does
   not read the answer. *)
reads_answer_AnyPeer(s, c) == c.open /\ c.from # Client
reads_answer(s, c) == c.open /\ c.from > s

(* A write goes round the copy when it is sent on, or was taken, before the
   new server is the next of s, and applied after the table was read. *)
GoesRound(s, i) ==
  \/ next[s][1] # threads[s][i].from
  \/ \E j \in DOMAIN threads[s] \ {i} :
       threads[s][j].at = "apply" /\ threads[s][j].msg # GetTable

AnswerTable(s, i) ==
  LET c == threads[s][i] IN
  /\ answers(s, i)
  /\ c.msg = GetTable
  /\ copy' = IF reads_answer(s, c) THEN [copy EXCEPT ![c.from] = table[s]]
             ELSE copy
  /\ whole' = IF reads_answer(s, c) /\ ~ GoesRound(s, i) THEN whole \cup {c.from}
              ELSE whole
  /\ UNCHANGED <<first, znodes, event, nodevars, next, table, clivars, newest, copied>>

clientThread(s, i) ==
  \/ Propagate(s, i) \/ PropagateNowhere(s, i) \/ PropagateFails(s, i)
  \/ ApplyWrite(s, i) \/ AnswerTable(s, i)
-----------------------------------------------------------------------------
(* The client program connects to the lowest server, and to the next one when
   that is gone. *)
Connect ==
  LET h == Min(znodes) IN
  /\ znodes # {} /\ Alive(h)
  /\ client # Nowhere => ~ Alive(client[1])
  /\ client' = <<h, Len(threads[h]) + 1>>
  /\ threads' = [threads EXCEPT ![h] = Append(@, Connection(Client, <<>>))]
  /\ busy' = FALSE
  /\ UNCHANGED <<first, znodes, event, nodevars, next, datavars, keys, history>>

Write(k) ==
  LET n == Len(keys) + 1 IN
  /\ Open(client) /\ ~ busy /\ n <= MaxWrites
  /\ keys' = Append(keys, k)
  /\ busy' = TRUE
  /\ threads' = [threads EXCEPT ![client[1]][client[2]].queue = Append(@, n)]
  /\ newest' = [newest EXCEPT ![client[1]][k] = n]
  /\ UNCHANGED <<first, znodes, event, nodevars, next, datavars, client, whole, copied>>

Work(s) ==
  \/ main_thread(s) \/ child_watcher(s) \/ Expire(s)
  \/ \E i \in DOMAIN threads[s] : clientThread(s, i)

Next ==
  \/ \E s \in Server : Start(s) \/ Crash(s) \/ Work(s)
  \/ Connect
  \/ \E k \in Key : Write(k)

Spec == Init /\ [][Next]_vars

FairSpec == Spec /\ \A s \in Server : WF_vars(Work(s))
-----------------------------------------------------------------------------
Places == {"off", "list", "address", "connect", "copy", "serve", "gone"}

TypeOK ==
  /\ first \in FirstIds
  /\ znodes \subseteq Server /\ event \subseteq Server
  /\ main \in [Server -> Places]
  /\ prev \in [Server -> Server \cup {NoServer}]
  /\ \A s \in Server : next[s] # Nowhere => next[s][2] \in Nat
  /\ \A s \in Server : \A i \in DOMAIN threads[s] :
       /\ threads[s][i].msg \in Message
       /\ Len(threads[s][i].queue) <= LinkCap
  /\ table \in [Server -> [Key -> Message]]
  /\ \A s \in Server : copy[s] # NoCopy => main[s] = "copy"
  /\ busy \in BOOLEAN

Quiet ==
  /\ event = {}
  /\ \A s \in Server :
       /\ main[s] \in {"off", "serve", "gone"}
       /\ main[s] = "gone" => s \notin znodes
       /\ \A i \in DOMAIN threads[s] :
            /\ threads[s][i].queue = <<>>
            /\ threads[s][i].at \in {"receive", "dropped"}

Feeders(s) == {i \in DOMAIN threads[s] : threads[s][i].from < s}

InOrder(s) ==
  \A t \in 1 .. s :
    /\ main[t] = "serve"
    /\ Cardinality(Feeders(t)) <= 1
    /\ \A i \in DOMAIN threads[t] : threads[t][i].at # "dropped"

(* Once the chain is quiet, a server to which the writes came in order, over
   one connection each from server to server, has for each key the newest
   write that ever was on its way to it, be it in the copy or sent by its
   predecessor: the copy neither overwrites a newer write nor hides one,
   although the predecessor sends while the table is copied. *)
KeepsNewest ==
  Quiet => \A s \in Server : InOrder(s) => table[s] = newest[s]

(* The window in which a write goes round the copy is the only one: otherwise
   a server that joined holds, once the chain is quiet, what its predecessor
   holds, writes that came during the copy included. *)
JoinsWhole ==
  Quiet => \A s \in whole : InOrder(s) => table[s] = table[s - 1]

(* A server that starts with an empty table found none to copy from: of the
   servers before it, from the one on that it looked for, each has died but
   for the one with number 0.  So there are two cases in which it starts empty
   although one before it lives (EmptyOnlyAlone): that one has number 0, or
   comes before one that died while it looked. *)
StartsEmpty ==
  \A s \in Server : main[s] = "serve" /\ s \notin copied =>
    \A t \in 1 .. s - 1 :
      t >= prev[s] => main[t] = "gone" \/ node_id(t) = 0

Joined == \A s \in Server : main[s] \in {"off", "serve", "gone"}

(* A connection is full whose server does not accept connections yet. *)
Full ==
  \E s \in Server : /\ ~ in_main_loop(s)
                    /\ \E i \in DOMAIN threads[s] : Len(threads[s][i].queue) = LinkCap

(* In whatever order servers start and die, they do not wait for one another
   for ever while they join, but for one case: what the predecessor sends on
   fills the connection to the new server, so that the thread that has its
   request for the table cannot send that on, and does not answer. *)
JoinsEnd == []<>Joined \/ <>[]Full
-----------------------------------------------------------------------------
(* What the repository says and the code does not do. *)

(* No data are lost: a server that starts with an empty table, because it
   found none to copy from, leaves nothing behind in the table of one before
   it that lives. *)
EmptyOnlyAlone ==
  [][\A s \in Server :
       main[s] # "serve" /\ main'[s] = "serve" /\ s \notin copied'
         => \A t \in 1 .. s - 1 : table[t] = NoTable]_vars
=============================================================================
