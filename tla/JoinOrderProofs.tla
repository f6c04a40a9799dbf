-------------------------- MODULE JoinOrderProofs --------------------------
(***************************************************************************)
(* That a server which joins while writes go on misses none and brings     *)
(* none back, for a chain of any length, any number of writes and          *)
(* connections of any size: KeepsNewest and JoinsWhole of Join.            *)
(*                                                                         *)
(* As long as the servers 1 to t live, and each was fed over one           *)
(* connection that did not break (Fine), the writes on their way to t      *)
(* stand in the order of their numbers from the thread of t back to the    *)
(* client.  A server may hold, or copy, a write that is newer than some    *)
(* that are still to come; then that write is itself still to come.        *)
(***************************************************************************)
EXTENDS JoinProofs, FiniteSetTheorems

(* Every value is a write of its own key. *)
Labelled(v, ks) == \A k \in Key : v[k] # 0 => v[k] \in DOMAIN ks /\ ks[v[k]] = k

LabelInv ==
  /\ newest \in [Server -> [Key -> Message]]
  /\ whole \subseteq Server
  /\ \A s \in Server :
       /\ Labelled(newest[s], keys) /\ Labelled(table[s], keys)
       /\ copy[s] # NoCopy => Labelled(copy[s], keys)

Known(m, ks) == m # GetTable => m \in DOMAIN ks

(* A connection from further down carries no write, and a server that does not
   serve yet has applied none. *)
Carries(c, s, ks) ==
  /\ Known(c.msg, ks) /\ \A p \in DOMAIN c.queue : Known(c.queue[p], ks)
  /\ ~ (c.from < s) =>
       c.msg = GetTable /\ \A p \in DOMAIN c.queue : c.queue[p] = GetTable

CarryInv ==
  \A s \in Server : \A i \in DOMAIN threads[s] : Carries(threads[s][i], s, keys)

IdleInv ==
  \A s \in Server : main[s] # "serve" =>
    /\ table[s] = NoTable
    /\ \A i \in DOMAIN threads[s] : threads[s][i].at = "receive"

WriteInv == LabelInv /\ CarryInv /\ IdleInv

(* While no server up to t has died, each of them was fed by the one before
   it, and the first by the client. *)
Up(t) == \A u \in 1 .. t : main[u] # "gone"

ShapeInv ==
  /\ \A s \in znodes : main[s] # "off"
  /\ \A t \in Server : Up(t) =>
       /\ main[t] \in {"address", "connect", "copy"} => prev[t] = t - 1
       /\ t > 1 /\ next[t - 1] # Nowhere => next[t - 1][1] = t
       /\ client # Nowhere => client[1] = 1

Fine(t) ==
  \A u \in 1 .. t :
    /\ main[u] # "gone"
    /\ \A i \in Feeders(u), j \in Feeders(u) : i = j
    /\ \A i \in DOMAIN threads[u] : threads[u][i].at # "dropped"

(* The writes that wait for u, the one that its thread has at hand, and all
   those that may still reach t. *)
Writes == Message \ {GetTable}

Queued(u) ==
  {m \in Writes : \E i \in Feeders(u) :
     \E p \in DOMAIN threads[u][i].queue : threads[u][i].queue[p] = m}

Taken(u) ==
  {m \in Writes : \E i \in Feeders(u) :
     threads[u][i].at = "apply" /\ threads[u][i].msg = m}

Own(u)    == Taken(u) \cup Queued(u)
Above(t)  == UNION {Queued(u) : u \in 1 .. t}
Coming(t) == Taken(t) \cup Above(t)

Source(t) ==
  \A i \in Feeders(t) : IF t = 1 THEN client = <<1, i>> ELSE next[t - 1] = <<t, i>>

Rising(q) ==
  \A x \in DOMAIN q, y \in DOMAIN q :
    x < y /\ q[x] # GetTable /\ q[y] # GetTable => q[x] < q[y]

Sorted(u) == \A i \in Feeders(u) : Rising(threads[u][i].queue)

(* What is further up is newer; what t - 1 has at hand it has sent on, unless
   nothing is on its way from it to t. *)
Order(t) ==
  /\ Sorted(t)
  /\ \A u \in 1 .. t - 1 : \A m \in Queued(u), n \in Queued(t) : n < m
  /\ \A m \in Taken(t), n \in Above(t) : m < n
  /\ t > 1 => \A m \in Taken(t - 1), n \in Own(t) : n <= m /\ m \in Own(t)

(* Before u is fed, and before it serves, nothing passes it. *)
Dry(t) ==
  \A u \in 1 .. t :
    Feeders(u) = {} \/ (u < t /\ main[u] # "serve") => Own(t) = {}

(* With an older write than w, w itself is still to come. *)
Sound(t, w) == \A m \in Coming(t) : m < w => w \in Coming(t)

Holding(t) ==
  /\ \A u \in 1 .. t : Feeders(u) = {} => table[t] = newest[t]
  /\ \A m \in Own(t) : m <= newest[t][keys[m]]
  /\ \A k \in Key :
       /\ Sound(t, newest[t][k])
       /\ table[t][k] # newest[t][k] => newest[t][k] \in Coming(t)
       /\ table[t][k] <= newest[t][k]

Copying(t) ==
  t > 1 =>
    /\ \A k \in Key : Sound(t, table[t - 1][k]) /\ newest[t][k] <= newest[t - 1][k]
    /\ copy[t] # NoCopy =>
         \A k \in Key : Sound(t, copy[t][k]) /\ copy[t][k] <= newest[t - 1][k]

(* Nothing that t - 1 was sent goes round t. *)
Following(t) ==
  t \in whole =>
    /\ t > 1 /\ main[t - 1] = "serve" /\ Feeders(t) # {}
    /\ \A m \in Taken(t - 1) : m <= newest[t][keys[m]]
    /\ \A k \in Key :
         \/ /\ newest[t - 1][k] \in Above(t - 1)
            /\ \A u \in 1 .. t - 1 : Feeders(u) # {}
         \/ newest[t - 1][k] = newest[t][k]
         \/ copy[t] # NoCopy /\ newest[t - 1][k] = copy[t][k]

Flow(t) == Source(t) /\ Order(t) /\ Dry(t) /\ Holding(t) /\ Copying(t) /\ Following(t)

FlowInv == \A t \in Server : Fine(t) => Flow(t)

OrderInv == WriteInv /\ ShapeInv /\ FlowInv
-----------------------------------------------------------------------------
(* What an action leaves of a connection c. *)
Same(c, d)     == d.from = c.from /\ d.queue = c.queue /\ d.at = c.at /\ d.msg = c.msg
Given(c, d, m) == d.from = c.from /\ d.queue = Append(c.queue, m)
                  /\ d.at = c.at /\ d.msg = c.msg
Took(c, d, at) == /\ c.at = "receive" /\ c.queue # <<>>
                  /\ d.from = c.from /\ d.queue = Tail(c.queue)
                  /\ d.at = at /\ d.msg = Head(c.queue)
Did(c, d)      == /\ c.at = "apply"
                  /\ d.from = c.from /\ d.queue = c.queue
                  /\ d.at \in {"receive", "dropped"} /\ d.msg = 0

(* The connections of u stay as they are, but for new ones without a write. *)
Kept(u) ==
  /\ \A i \in DOMAIN threads[u] :
       i \in DOMAIN threads'[u] /\ Same(threads[u][i], threads'[u][i])
  /\ \A i \in DOMAIN threads'[u] \ DOMAIN threads[u] :
       LET d == threads'[u][i] IN
       /\ d.at = "receive" /\ d.msg = 0
       /\ d.queue = <<>> \/ (d.queue = <<GetTable>> /\ ~ (d.from < u))

(* The connection i of u alone changes. *)
Only(u, i) ==
  /\ DOMAIN threads'[u] = DOMAIN threads[u]
  /\ \A j \in DOMAIN threads[u] \ {i} : threads'[u][j] = threads[u][j]

LEMMA KeptSame ==
  ASSUME TypeInv, NEW u \in Server, threads'[u] = threads[u]
  PROVE  Kept(u)
  BY DEF Kept, Same

LEMMA ShutSame ==
  ASSUME TypeInv, NEW u \in Server, DOMAIN threads'[u] = DOMAIN threads[u],
         \A i \in DOMAIN threads[u] : Shut(threads[u][i], threads'[u][i])
  PROVE  Kept(u)
<1>1. \A i \in DOMAIN threads[u] : threads[u][i] \in Link
  BY DEF TypeInv, LinkTypes
<1>2. \A i \in DOMAIN threads[u] : Same(threads[u][i], threads'[u][i])
  BY <1>1, ShutLink DEF Same
<1> QED
  BY <1>2 DEF Kept

(* A new connection, be it from the client, a predecessor or a successor. *)
LEMMA KeptNew ==
  ASSUME NEW ths \in [Server -> Seq(Link)], NEW t \in Server, NEW from,
         NEW queue, Connection(from, queue) \in Link,
         queue = <<>> \/ (queue = <<GetTable>> /\ ~ (from < t)),
         threads' = [ths EXCEPT ![t] = Append(@, Connection(from, queue))],
         NEW u \in Server, DOMAIN ths[u] = DOMAIN threads[u],
         \A i \in DOMAIN threads[u] : Same(threads[u][i], ths[u][i])
  PROVE  Kept(u)
<1> DEFINE d == Connection(from, queue)
           n == Len(ths[t]) + 1
<1>1. d.from = from /\ d.queue = queue /\ d.at = "receive" /\ d.msg = 0
  BY DEF Connection
<1>2. d \in Link /\ threads' = [ths EXCEPT ![t] = Append(@, d)]
  OBVIOUS
<1> HIDE DEF d
<1>3. /\ \A v \in Server : v # t => threads'[v] = ths[v]
      /\ DOMAIN threads'[t] = DOMAIN ths[t] \cup {n}
      /\ n \notin DOMAIN ths[t]
      /\ threads'[t][n] = d
      /\ \A j \in DOMAIN ths[t] : threads'[t][j] = ths[t][j]
  BY <1>2, AddThread
<1>4. CASE u # t
  BY <1>3, <1>4 DEF Kept
<1>5. CASE u = t
  BY <1>1, <1>3, <1>5 DEF Kept
<1> QED
  BY <1>4, <1>5

(* The steps of main threads and callbacks, and of servers that end. *)
LEMMA MainKept ==
  ASSUME JoinInv, NEW s \in Server, NEW u \in Server,
         \/ Start(s) \/ ListPrevious(s) \/ GetPrevious(s) \/ Expire(s)
         \/ AskTable(s) \/ CopyTable(s) \/ Rewire(s)
         \/ Stop(s) /\ u # s
  PROVE  Kept(u)
<1>1. TypeInv /\ StartInv /\ threads \in [Server -> Seq(Link)]
  BY DEF JoinInv, TypeInv, LinkTypes
<1>2. \A v \in Server : \A i \in DOMAIN threads[v] : Same(threads[v][i], threads[v][i])
  BY DEF Same
<1>3. CASE Start(s) \/ ListPrevious(s) \/ GetPrevious(s) \/ Expire(s)
  <2>1. threads' = threads
    BY <1>3 DEF Start, ListPrevious, GetPrevious, Expire
  <2> QED
    BY <1>1, <2>1, KeptSame
<1>4. CASE AskTable(s)
  <2>1. prev[s] \in Server /\ prev[s] < s
    BY <1>1, <1>4 DEF StartInv, AskTable
  <2>2. ~ (s < prev[s])
    BY <2>1, JoinAssumption DEF Server
  <2>3. threads' = [threads EXCEPT ![prev[s]] = Append(@, Connection(s, <<GetTable>>))]
    BY <1>4 DEF AskTable
  <2> QED
    BY <1>1, <1>2, <2>1, <2>2, <2>3, NewLink, KeptNew
<1>5. CASE CopyTable(s)
  BY <1>1, <1>5, CopyLinks, ShutSame
<1>6. CASE Rewire(s)
  <2> DEFINE old == Closing(next[s], threads)
  <2>1. next[s] \in (Server \X Nat) \cup {Nowhere}
    BY <1>1 DEF TypeInv, LinkTypes
  <2>2. /\ old \in [Server -> Seq(Link)]
        /\ \A t \in Server : DOMAIN old[t] = DOMAIN threads[t]
        /\ \A t \in Server : \A i \in DOMAIN threads[t] :
             Shut(threads[t][i], old[t][i])
    BY <1>1, <2>1, ClosingLinks
  <2>3. \/ threads' = old
        \/ \E t \in Server : threads' = [old EXCEPT ![t] = Append(@, Connection(s, <<>>))]
    BY <1>1, <1>6, RewireLinks
  <2>4. \A i \in DOMAIN threads[u] : Same(threads[u][i], old[u][i])
    <3>1. \A i \in DOMAIN threads[u] : threads[u][i] \in Link
      BY <1>1
    <3> QED
      BY <2>2, <3>1, ShutLink DEF Same
  <2>5. Connection(s, <<>>) \in Link
    BY NewLink
  <2> HIDE DEF old
  <2>6. CASE threads' = old
    BY <1>1, <2>2, <2>6, ShutSame
  <2>7. ASSUME NEW t \in Server,
               threads' = [old EXCEPT ![t] = Append(@, Connection(s, <<>>))]
        PROVE  Kept(u)
    <3>1. DOMAIN old[u] = DOMAIN threads[u]
      BY <2>2
    <3> QED
      BY <2>2, <2>4, <2>5, <2>7, <3>1, KeptNew
  <2> QED
    BY <2>3, <2>6, <2>7
<1>7. CASE Stop(s) /\ u # s
  BY <1>1, <1>7, StopLinks, ShutSame
<1> QED
  BY <1>3, <1>4, <1>5, <1>6, <1>7

LEMMA ConnectKept ==
  ASSUME JoinInv, NEW u \in Server, Connect
  PROVE  Kept(u)
<1>1. TypeInv /\ threads \in [Server -> Seq(Link)]
  BY DEF JoinInv, TypeInv, LinkTypes
<1>2. PICK h \in Server :
        threads' = [threads EXCEPT ![h] = Append(@, Connection(Client, <<>>))]
  BY <1>1, ConnectLinks
<1>3. \A i \in DOMAIN threads[u] : Same(threads[u][i], threads[u][i])
  BY DEF Same
<1> QED
  BY <1>1, <1>2, <1>3, NewLink, KeptNew

(* The client writes at the end of its connection. *)
LEMMA WriteGives ==
  ASSUME JoinInv, NEW k \in Key, Write(k)
  PROVE  LET h == client[1]
             i == client[2] IN
         /\ h \in Server /\ i \in DOMAIN threads[h] /\ threads[h][i].from = Client
         /\ main[h] # "gone"
         /\ Only(h, i) /\ Given(threads[h][i], threads'[h][i], Len(keys) + 1)
         /\ \A u \in Server \ {h} : threads'[u] = threads[u]
         /\ Len(keys) + 1 \in Writes
<1> DEFINE h == client[1]
           i == client[2]
           n == Len(keys) + 1
           d == [threads[h][i] EXCEPT !.queue = Append(@, n)]
<1>1. client # Nowhere /\ Alive(h) /\ n <= MaxWrites
      /\ threads' = [threads EXCEPT ![h][i] = d]
  BY DEF Write, Open
<1>2. threads \in [Server -> Seq(Link)]
  BY DEF JoinInv, TypeInv, LinkTypes
<1>3. h \in Server
  BY <1>1 DEF JoinInv, TypeInv, LinkTypes
<1>4. i \in DOMAIN threads[h] /\ threads[h][i].from = Client
  BY <1>1 DEF JoinInv, LinkInv, EndInv, Holds, Alive
<1>5. n \in Writes
  <2>1. Len(keys) \in Nat
    BY DEF JoinInv, TypeInv, DataTypes
  <2> QED
    BY <1>1, <2>1, JoinAssumption DEF Writes, Message, GetTable
<1>6. n \in Message
  BY <1>5 DEF Writes
<1> HIDE DEF n
<1>7. threads[h][i] \in Link
  BY <1>2, <1>3, <1>4
<1>8. Append(threads[h][i].queue, n) \in Seq(Message)
  BY <1>6, <1>7 DEF Link
<1>9. d \in Link /\ Given(threads[h][i], d, n)
  BY <1>7, <1>8 DEF Link, Given
<1> HIDE DEF d, h, i
<1>10. /\ \A u \in Server : DOMAIN threads'[u] = DOMAIN threads[u]
       /\ \A u \in Server : \A j \in DOMAIN threads[u] :
            threads'[u][j] = IF u = h /\ j = i THEN d ELSE threads[u][j]
  BY <1>1, <1>2, <1>3, <1>9, SetThread
<1>11. Only(h, i) /\ threads'[h][i] = d
  BY <1>3, <1>4, <1>10 DEF Only
<1>12. \A u \in Server \ {h} : threads'[u] = threads[u]
  BY <1>1
<1> QED
  BY <1>1, <1>3, <1>4, <1>5, <1>9, <1>11, <1>12 DEF h, i, n, Alive

(* A thread takes a message ... *)
LEMMA TakenLink ==
  ASSUME NEW c \in Link, NEW at \in {"receive", "apply", "dropped"},
         c.at = "receive", c.queue # <<>>,
         NEW d, d = [c EXCEPT !.at = at, !.msg = Head(c.queue), !.queue = Tail(c.queue)]
  PROVE  Took(c, d, at) /\ d \in Link /\ Head(c.queue) \in Message
<1>1. d \in Link /\ Head(c.queue) \in Message
  BY ThreadLink
<1>2. /\ d.from = c.from /\ d.queue = Tail(c.queue)
      /\ d.at = at /\ d.msg = Head(c.queue)
  BY DEF Link
<1> QED
  BY <1>1, <1>2 DEF Took

LEMMA TakeGives ==
  ASSUME JoinInv, NEW s \in Server, NEW i \in DOMAIN threads[s],
         NEW at \in {"receive", "apply", "dropped"}, takes(s, i, at)
  PROVE  /\ Only(s, i) /\ Took(threads[s][i], threads'[s][i], at)
         /\ \A u \in Server \ {s} : threads'[u] = threads[u]
         /\ Head(threads[s][i].queue) \in Message
<1> DEFINE c == threads[s][i]
           d == [c EXCEPT !.at = at, !.msg = Head(c.queue), !.queue = Tail(c.queue)]
<1>1. threads \in [Server -> Seq(Link)]
  BY DEF JoinInv, TypeInv, LinkTypes
<1>2. c \in Link
  BY <1>1
<1>3. c.at = "receive" /\ c.queue # <<>> /\ threads' = [threads EXCEPT ![s][i] = d]
  BY DEF takes
<1>4. Took(c, d, at) /\ d \in Link /\ Head(c.queue) \in Message
  BY <1>2, <1>3, TakenLink
<1> HIDE DEF d
<1>5. /\ \A u \in Server : DOMAIN threads'[u] = DOMAIN threads[u]
      /\ \A u \in Server : \A j \in DOMAIN threads[u] :
           threads'[u][j] = IF u = s /\ j = i THEN d ELSE threads[u][j]
  BY <1>1, <1>3, <1>4, SetThread
<1>6. \A u \in Server \ {s} : threads'[u] = threads[u]
  BY <1>3
<1> QED
  BY <1>4, <1>5, <1>6 DEF Only

(* ... and sends it on ... *)
LEMMA PropagateGives ==
  ASSUME JoinInv, NEW s \in Server, NEW i \in DOMAIN threads[s], Propagate(s, i)
  PROVE  LET t == next[s][1]
             j == next[s][2]
             m == Head(threads[s][i].queue) IN
         /\ next[s] # Nowhere
         /\ t \in Server /\ s < t /\ main[t] # "gone"
         /\ j \in DOMAIN threads[t] /\ threads[t][j].from = s
         /\ Only(s, i) /\ Took(threads[s][i], threads'[s][i], "apply")
         /\ Only(t, j) /\ Given(threads[t][j], threads'[t][j], m)
         /\ \A u \in Server \ {s, t} : threads'[u] = threads[u]
         /\ m \in Message
<1> DEFINE c == threads[s][i]
           t == next[s][1]
           j == next[s][2]
           m == Head(c.queue)
           d == [c EXCEPT !.at = "apply", !.msg = m, !.queue = Tail(c.queue)]
           mid == [threads EXCEPT ![s][i] = d]
           e == [threads[t][j] EXCEPT !.queue = Append(@, m)]
<1>1. threads \in [Server -> Seq(Link)]
  BY DEF JoinInv, TypeInv, LinkTypes
<1>2. c \in Link
  BY <1>1
<1>3. /\ c.at = "receive" /\ c.queue # <<>> /\ next[s] # Nowhere /\ Alive(t)
      /\ threads' = [threads EXCEPT ![s][i] = d, ![t][j].queue = Append(@, m)]
  BY DEF Propagate, Open
<1>4. Took(c, d, "apply") /\ d \in Link /\ m \in Message
  BY <1>2, <1>3, TakenLink
<1>5. t \in Server
  BY <1>3 DEF JoinInv, TypeInv, LinkTypes
<1>6. s < t /\ j \in DOMAIN threads[t] /\ threads[t][j].from = s
  BY <1>3 DEF JoinInv, LinkInv, EndInv, Holds, Alive
<1>7. s # t
  BY <1>5, <1>6, JoinAssumption DEF Server
<1>8. threads[t][j] \in Link
  BY <1>1, <1>5, <1>6
<1>9. e \in Link /\ Given(threads[t][j], e, m)
  <2>1. Append(threads[t][j].queue, m) \in Seq(Message)
    BY <1>4, <1>8 DEF Link
  <2> QED
    BY <1>8, <2>1 DEF Link, Given
<1>10. mid[t] = threads[t] /\ mid[s] = [threads[s] EXCEPT ![i] = d]
  BY <1>1, <1>5, <1>7
<1>11. threads' = [mid EXCEPT ![t][j] = e]
  BY <1>3, <1>7, <1>10
<1>12. /\ mid \in [Server -> Seq(Link)]
       /\ \A u \in Server : DOMAIN mid[u] = DOMAIN threads[u]
       /\ \A u \in Server : \A k \in DOMAIN threads[u] :
            mid[u][k] = IF u = s /\ k = i THEN d ELSE threads[u][k]
  BY <1>1, <1>4, SetThread
<1> HIDE DEF mid, d, e, t, j, m
<1>13. /\ \A u \in Server : DOMAIN threads'[u] = DOMAIN mid[u]
       /\ \A u \in Server : \A k \in DOMAIN mid[u] :
            threads'[u][k] = IF u = t /\ k = j THEN e ELSE mid[u][k]
  BY <1>5, <1>9, <1>11, <1>12, SetThread
<1>14. Only(s, i) /\ threads'[s][i] = d
  BY <1>7, <1>12, <1>13 DEF Only
<1>15. Only(t, j) /\ threads'[t][j] = e
  BY <1>5, <1>6, <1>7, <1>12, <1>13 DEF Only
<1>16. \A u \in Server \ {s, t} : threads'[u] = threads[u]
  BY <1>1, <1>11 DEF mid
<1> QED
  BY <1>3, <1>4, <1>5, <1>6, <1>9, <1>14, <1>15, <1>16 DEF t, j, m, Alive

(* ... or applies the one that it has. *)
LEMMA AnswerGives ==
  ASSUME JoinInv, NEW s \in Server, NEW i \in DOMAIN threads[s], answers(s, i)
  PROVE  /\ Only(s, i) /\ Did(threads[s][i], threads'[s][i])
         /\ \A u \in Server \ {s} : threads'[u] = threads[u]
<1> DEFINE c == threads[s][i]
<1>1. threads \in [Server -> Seq(Link)]
  BY DEF JoinInv, TypeInv, LinkTypes
<1>2. c \in Link
  BY <1>1
<1>3. PICK to \in {"receive", "dropped"} :
        threads' = [threads EXCEPT ![s][i] = [c EXCEPT !.at = to, !.msg = 0]]
  BY DEF answers
<1> DEFINE d == [c EXCEPT !.at = to, !.msg = 0]
<1>4. d \in Link
  BY <1>2, ThreadLink
<1>5. Did(c, d)
  <2>1. d.from = c.from /\ d.queue = c.queue /\ d.at = to /\ d.msg = 0
    BY <1>2 DEF Link
  <2>2. c.at = "apply"
    BY DEF answers
  <2> QED
    BY <2>1, <2>2 DEF Did
<1>6. \A u \in Server \ {s} : threads'[u] = threads[u]
  BY <1>3
<1>7. threads' = [threads EXCEPT ![s][i] = d]
  BY <1>3
<1> HIDE DEF d
<1>8. /\ \A u \in Server : DOMAIN threads'[u] = DOMAIN threads[u]
      /\ \A u \in Server : \A j \in DOMAIN threads[u] :
           threads'[u][j] = IF u = s /\ j = i THEN d ELSE threads[u][j]
  BY <1>1, <1>4, <1>7, SetThread
<1> QED
  BY <1>5, <1>6, <1>8 DEF Only
-----------------------------------------------------------------------------
(* The labels of the writes. *)
LEMMA KeysGrow ==
  ASSUME JoinInv, [Next]_vars
  PROVE  /\ keys \in Seq(Key)
         /\ keys' = keys \/ \E k \in Key : Write(k) /\ keys' = Append(keys, k)
         /\ \A m \in DOMAIN keys : m \in DOMAIN keys' /\ keys'[m] = keys[m]
<1>1. keys \in Seq(Key)
  BY DEF JoinInv, TypeInv, DataTypes
<1>2. keys' = keys \/ \E k \in Key : Write(k) /\ keys' = Append(keys, k)
  <2>1. CASE UNCHANGED vars
    BY <2>1 DEF vars, clivars
  <2>2. ASSUME NEW s \in Server,
               \/ Start(s) \/ ListPrevious(s) \/ GetPrevious(s) \/ Expire(s)
               \/ AskTable(s) \/ CopyTable(s) \/ Rewire(s) \/ Stop(s)
               \/ \E i \in DOMAIN threads[s] : clientThread(s, i)
        PROVE  keys' = keys
    BY <2>2 DEF Start, ListPrevious, GetPrevious, Expire, AskTable, CopyTable,
       Rewire, Stop, clientThread, Propagate, PropagateNowhere, PropagateFails,
       ApplyWrite, AnswerTable, clivars
  <2>3. ASSUME NEW s \in Server, AskFails(s) \/ Crash(s) \/ RewireFails(s)
        PROVE  Stop(s)
    BY <2>3, Ends DEF JoinInv
  <2>4. CASE Connect
    BY <2>4 DEF Connect
  <2>5. ASSUME NEW k \in Key, Write(k)
        PROVE  keys' = Append(keys, k)
    BY <2>5 DEF Write
  <2> QED
    BY <2>1, <2>2, <2>3, <2>4, <2>5, Cases
<1>3. ASSUME NEW k \in Key, NEW m \in DOMAIN keys
      PROVE  m \in DOMAIN Append(keys, k) /\ Append(keys, k)[m] = keys[m]
  BY <1>1
<1> QED
  BY <1>1, <1>2, <1>3

LEMMA GreaterOf ==
  ASSUME NEW x \in Nat, NEW y \in Nat
  PROVE  Max({x, y}) = IF x >= y THEN x ELSE y
<1>1. \E z \in {x, y} : \A w \in {x, y} : z >= w
  <2>1. CASE x >= y
    BY <2>1
  <2>2. CASE ~ (x >= y)
    BY <2>2
  <2> QED
    BY <2>1, <2>2
<1>2. Max({x, y}) \in {x, y} /\ Max({x, y}) >= x /\ Max({x, y}) >= y
  BY <1>1 DEF Max
<1> QED
  BY <1>2

LEMMA NoLabel ==
  /\ NoTable \in [Key -> Message]
  /\ \A k \in Key : NoTable[k] = 0
  /\ \A ks : Labelled(NoTable, ks)
<1>1. NoTable \in [Key -> Message]
  BY JoinAssumption DEF NoTable, Message
<1>2. \A k \in Key : NoTable[k] = 0
  BY DEF NoTable
<1> QED
  BY <1>1, <1>2 DEF Labelled

LEMMA MoreLabelled ==
  ASSUME NEW v, NEW ks, NEW more, Labelled(v, ks),
         \A m \in DOMAIN ks : m \in DOMAIN more /\ more[m] = ks[m]
  PROVE  Labelled(v, more)
  BY DEF Labelled

(* What a server holds once it has copied a table into its empty one. *)
LEMMA CopyLabels ==
  ASSUME JoinInv, LabelInv, NEW s \in Server, CopyTable(s), table[s] = NoTable
  PROVE  /\ copy[s] \in [Key -> Message]
         /\ table' = [table EXCEPT ![s] = copy[s]]
         /\ newest' = [newest EXCEPT ![s] = newest'[s]]
         /\ newest'[s] \in [Key -> Message]
         /\ \A k \in Key :
              newest'[s][k] = IF newest[s][k] >= copy[s][k] THEN newest[s][k]
                              ELSE copy[s][k]
<1>1. copy[s] \in [Key -> Message]
  BY DEF CopyTable, JoinInv, TypeInv, DataTypes
<1>2. newest \in [Server -> [Key -> Message]]
  BY DEF LabelInv
<1>3. Put(s) = copy[s]
  <2>1. \A k \in Key : (IF copy[s][k] = 0 THEN table[s][k] ELSE copy[s][k]) = copy[s][k]
    BY NoLabel
  <2> QED
    BY <1>1, <2>1 DEF Put
<1>4. \A k \in Key : newest[s][k] \in Nat /\ copy[s][k] \in Nat
  BY <1>1, <1>2, JoinAssumption DEF Message
<1>5. \A k \in Key :
        Max({newest[s][k], copy[s][k]}) =
          IF newest[s][k] >= copy[s][k] THEN newest[s][k] ELSE copy[s][k]
  BY <1>4, GreaterOf
<1> DEFINE v == [k \in Key |-> Max({newest[s][k], copy[s][k]})]
<1>6. newest' = [newest EXCEPT ![s] = v] /\ table' = [table EXCEPT ![s] = Put(s)]
  BY DEF CopyTable
<1>7. \A k \in Key : v[k] = IF newest[s][k] >= copy[s][k] THEN newest[s][k]
                            ELSE copy[s][k]
  BY <1>5
<1>8. v \in [Key -> Message]
  BY <1>1, <1>2, <1>5
<1> HIDE DEF v
<1>9. newest'[s] = v
  BY <1>2, <1>6
<1> QED
  BY <1>1, <1>3, <1>6, <1>7, <1>8, <1>9

(* What is sent on is noted for the server that it is sent to. *)
LEMMA SentLabels ==
  ASSUME JoinInv, LabelInv, CarryInv, NEW s \in Server,
         NEW i \in DOMAIN threads[s], Propagate(s, i)
  PROVE  LET t == next[s][1]
             m == Head(threads[s][i].queue) IN
         /\ m = GetTable => newest' = newest
         /\ m # GetTable =>
              /\ m \in DOMAIN keys /\ keys[m] \in Key /\ m \in Writes
              /\ newest[t][keys[m]] \in Nat
              /\ newest' = [newest EXCEPT ![t] = newest'[t]]
              /\ newest'[t] = [newest[t] EXCEPT ![keys[m]] =
                                 IF @ >= m THEN @ ELSE m]
<1> DEFINE t == next[s][1]
           c == threads[s][i]
           m == Head(c.queue)
<1>1. t \in Server /\ m \in Message
  BY PropagateGives
<1>2. c \in Link /\ c.queue # <<>>
  <2>1. threads \in [Server -> Seq(Link)]
    BY DEF JoinInv, TypeInv, LinkTypes
  <2>2. c.queue # <<>>
    BY DEF Propagate
  <2> QED
    BY <2>1, <2>2
<1>3. 1 \in DOMAIN c.queue /\ m = c.queue[1]
  <2>1. c.queue \in Seq(Message)
    BY <1>2 DEF Link
  <2> QED
    BY <1>2, <2>1
<1>4. Known(m, keys)
  BY <1>3 DEF CarryInv, Carries
<1>5. newest' = IF m = GetTable THEN newest
                ELSE [newest EXCEPT ![t][keys[m]] = Max({@, m})]
  BY DEF Propagate, Sent
<1> HIDE DEF t, m
<1>6. ASSUME m # GetTable
      PROVE  /\ m \in DOMAIN keys /\ keys[m] \in Key /\ m \in Writes
             /\ newest[t][keys[m]] \in Nat
             /\ newest' = [newest EXCEPT ![t] = newest'[t]]
             /\ newest'[t] = [newest[t] EXCEPT ![keys[m]] =
                                IF @ >= m THEN @ ELSE m]
  <2>1. m \in DOMAIN keys /\ m \in Nat /\ m \in Writes
    BY <1>1, <1>4, <1>6, JoinAssumption DEF Known, Message, Writes
  <2>2. keys[m] \in Key
    <3>1. keys \in Seq(Key)
      BY DEF JoinInv, TypeInv, DataTypes
    <3> QED
      BY <2>1, <3>1
  <2>3. newest \in [Server -> [Key -> Message]]
    BY DEF LabelInv
  <2>4. newest[t][keys[m]] \in Nat
    BY <1>1, <2>2, <2>3, JoinAssumption DEF Message
  <2> DEFINE old == newest[t][keys[m]]
  <2>5. Max({old, m}) = IF old >= m THEN old ELSE m
    BY <2>1, <2>4, GreaterOf
  <2>6. newest' = [newest EXCEPT ![t] = [newest[t] EXCEPT ![keys[m]] = Max({old, m})]]
    BY <1>1, <1>5, <1>6, <2>3
  <2> QED
    BY <1>1, <2>1, <2>2, <2>3, <2>4, <2>5, <2>6
<1> QED
  BY <1>5, <1>6 DEF t, m

LEMMA SetLabel ==
  ASSUME NEW v \in [Key -> Message], NEW ks, Labelled(v, ks),
         NEW m \in DOMAIN ks, m \in Message, ks[m] \in Key
  PROVE  LET r == [v EXCEPT ![ks[m]] = m] IN
         r \in [Key -> Message] /\ Labelled(r, ks)
  BY DEF Labelled

LEMMA LabelStep ==
  ASSUME JoinInv, WriteInv, [Next]_vars
  PROVE  LabelInv'
<1>1. /\ LabelInv /\ CarryInv /\ IdleInv
      /\ newest \in [Server -> [Key -> Message]]
      /\ whole \subseteq Server
      /\ table \in [Server -> [Key -> Message]]
      /\ copy \in [Server -> [Key -> Message] \cup {NoCopy}]
  BY DEF WriteInv, LabelInv, JoinInv, TypeInv, DataTypes
<1>2. /\ keys \in Seq(Key)
      /\ \A m \in DOMAIN keys : m \in DOMAIN keys' /\ keys'[m] = keys[m]
  BY KeysGrow
<1>3. \A s \in Server :
        /\ Labelled(newest[s], keys') /\ Labelled(table[s], keys')
        /\ copy[s] # NoCopy => Labelled(copy[s], keys')
  BY <1>2, MoreLabelled DEF WriteInv, LabelInv
<1>4. ASSUME UNCHANGED <<newest, table, copy, whole>>
      PROVE  LabelInv'
  BY <1>1, <1>3, <1>4 DEF LabelInv
<1>5. CASE UNCHANGED vars
  BY <1>4, <1>5 DEF vars, datavars, history
<1>6. ASSUME NEW s \in Server,
             \/ Start(s) \/ ListPrevious(s) \/ GetPrevious(s) \/ Expire(s)
             \/ AskTable(s) \/ Rewire(s)
             \/ \E i \in DOMAIN threads[s] : PropagateNowhere(s, i) \/ PropagateFails(s, i)
      PROVE  LabelInv'
  BY <1>4, <1>6 DEF Start, ListPrevious, GetPrevious, Expire, AskTable, Rewire,
     PropagateNowhere, PropagateFails, datavars, history
<1>7. CASE Connect
  BY <1>4, <1>7 DEF Connect, datavars, history
<1>8. ASSUME NEW s \in Server, Stop(s)
      PROVE  LabelInv'
  BY <1>1, <1>3, <1>8, NoLabel DEF LabelInv, Stop
<1>9. ASSUME NEW s \in Server, CopyTable(s)
      PROVE  LabelInv'
  <2>1. main[s] = "copy" /\ copy[s] # NoCopy /\ whole' = whole
        /\ copy' = [copy EXCEPT ![s] = NoCopy]
    BY <1>9 DEF CopyTable
  <2>2. table[s] = NoTable
    BY <1>1, <2>1 DEF IdleInv
  <2>3. /\ copy[s] \in [Key -> Message]
        /\ table' = [table EXCEPT ![s] = copy[s]]
        /\ newest' = [newest EXCEPT ![s] = newest'[s]]
        /\ newest'[s] \in [Key -> Message]
        /\ \A k \in Key :
             newest'[s][k] = IF newest[s][k] >= copy[s][k] THEN newest[s][k]
                             ELSE copy[s][k]
    BY <1>1, <1>9, <2>2, CopyLabels
  <2>4. Labelled(copy[s], keys') /\ Labelled(newest[s], keys')
    BY <1>3, <2>1
  <2> DEFINE v == newest'[s]
  <2>5. Labelled(v, keys')
    BY <2>3, <2>4 DEF Labelled
  <2>6. newest' = [newest EXCEPT ![s] = v] /\ v \in [Key -> Message]
    BY <2>3
  <2> HIDE DEF v
  <2>7. newest' \in [Server -> [Key -> Message]]
    BY <1>1, <2>6
  <2>8. ASSUME NEW u \in Server
        PROVE  /\ Labelled(newest'[u], keys') /\ Labelled(table'[u], keys')
               /\ copy'[u] # NoCopy => Labelled(copy'[u], keys')
    BY <1>1, <1>3, <2>1, <2>3, <2>4, <2>5, <2>6
  <2> QED
    BY <1>1, <2>1, <2>7, <2>8 DEF LabelInv
<1>10. ASSUME NEW s \in Server, NEW i \in DOMAIN threads[s], Propagate(s, i)
       PROVE  LabelInv'
  <2> DEFINE t == next[s][1]
             m == Head(threads[s][i].queue)
             v == newest'[t]
  <2>1. UNCHANGED <<table, copy, whole, keys>>
    BY <1>10 DEF Propagate, datavars, clivars
  <2>2. CASE m = GetTable
    BY <1>1, <1>4, <1>10, <2>1, <2>2, SentLabels
  <2>3. CASE m # GetTable
    <3>1. /\ m \in DOMAIN keys /\ keys[m] \in Key /\ m \in Writes
          /\ newest' = [newest EXCEPT ![t] = v]
          /\ v = [newest[t] EXCEPT ![keys[m]] = IF @ >= m THEN @ ELSE m]
      BY <1>1, <1>10, <2>3, SentLabels
    <3>2. t \in Server
      BY <1>10, PropagateGives
    <3> HIDE DEF t, m, v
    <3>3. m \in Message
      BY <3>1 DEF Writes
    <3>4. Labelled(newest[t], keys) /\ newest[t] \in [Key -> Message]
      BY <1>1, <3>2 DEF LabelInv
    <3>5. v \in [Key -> Message] /\ Labelled(v, keys)
      <4>1. v = newest[t] \/ v = [newest[t] EXCEPT ![keys[m]] = m]
        BY <3>1, <3>4
      <4> QED
        BY <3>1, <3>3, <3>4, <4>1, SetLabel
    <3>6. newest' \in [Server -> [Key -> Message]]
          /\ \A u \in Server : Labelled(newest'[u], keys')
      BY <1>1, <1>3, <2>1, <3>1, <3>2, <3>5
    <3> QED
      BY <1>1, <1>3, <2>1, <3>6 DEF LabelInv
  <2> QED
    BY <2>2, <2>3
<1>11. ASSUME NEW s \in Server, NEW i \in DOMAIN threads[s], ApplyWrite(s, i)
       PROVE  LabelInv'
  <2> DEFINE m == threads[s][i].msg
  <2>1. /\ m # GetTable /\ table' = [table EXCEPT ![s][keys[m]] = m]
        /\ UNCHANGED <<newest, copy, whole, keys>>
    BY <1>11 DEF ApplyWrite, history
  <2>2. m \in DOMAIN keys
    BY <1>1, <2>1 DEF CarryInv, Carries, Known
  <2>3. m \in Message
    <3>1. threads[s][i] \in Link
      BY DEF JoinInv, TypeInv, LinkTypes
    <3> QED
      BY <3>1 DEF Link
  <2> HIDE DEF m
  <2>4. keys[m] \in Key
    BY <1>2, <2>2
  <2> DEFINE v == [table[s] EXCEPT ![keys[m]] = m]
  <2>5. Labelled(table[s], keys)
    BY <1>1 DEF LabelInv
  <2>6. v \in [Key -> Message] /\ Labelled(v, keys)
    BY <1>1, <2>2, <2>3, <2>4, <2>5, SetLabel
  <2>7. table' = [table EXCEPT ![s] = v]
    BY <1>1, <2>1
  <2> HIDE DEF v
  <2> QED
    BY <1>1, <1>3, <2>1, <2>6, <2>7 DEF LabelInv
<1>12. ASSUME NEW s \in Server, NEW i \in DOMAIN threads[s], AnswerTable(s, i)
       PROVE  LabelInv'
  <2> DEFINE c == threads[s][i]
  <2>1. UNCHANGED <<newest, table, keys>>
    BY <1>12 DEF AnswerTable, clivars
  <2>2. \/ copy' = copy /\ whole' = whole
        \/ /\ c.from > s /\ copy' = [copy EXCEPT ![c.from] = table[s]]
           /\ whole' = whole \/ whole' = whole \cup {c.from}
    BY <1>12 DEF AnswerTable, reads_answer
  <2>3. c.from > s => c.from \in Server
    <3>1. threads \in [Server -> Seq(Link)]
      BY DEF JoinInv, TypeInv, LinkTypes
    <3>2. c \in Link
      BY <3>1
    <3> QED
      BY <3>2, JoinAssumption DEF Link, Server, Client
  <2> HIDE DEF c
  <2> QED
    BY <1>1, <1>3, <2>1, <2>2, <2>3 DEF LabelInv
<1>13. ASSUME NEW k \in Key, Write(k)
       PROVE  LabelInv'
  <2> DEFINE n == Len(keys) + 1
             h == client[1]
  <2>1. /\ keys' = Append(keys, k) /\ UNCHANGED <<table, copy, whole>>
        /\ newest' = [newest EXCEPT ![h][k] = n]
    BY <1>13 DEF Write, datavars
  <2>2. h \in Server /\ n \in Writes
    BY <1>13, WriteGives
  <2>3. n \in DOMAIN keys' /\ keys'[n] = k
    BY <1>2, <2>1
  <2> HIDE DEF n, h
  <2> DEFINE v == [newest[h] EXCEPT ![keys'[n]] = n]
  <2>4. v \in [Key -> Message] /\ Labelled(v, keys')
    BY <1>1, <1>3, <2>2, <2>3, SetLabel DEF Writes
  <2>5. newest' = [newest EXCEPT ![h] = v]
    BY <1>1, <2>1, <2>2, <2>3
  <2> HIDE DEF v
  <2> QED
    BY <1>1, <1>3, <2>1, <2>2, <2>4, <2>5 DEF LabelInv
<1>14. ASSUME NEW s \in Server, AskFails(s) \/ Crash(s) \/ RewireFails(s)
       PROVE  LabelInv'
  BY <1>8, <1>14, Ends DEF JoinInv
<1> QED
  BY <1>5, <1>6, <1>7, <1>9, <1>10, <1>11, <1>12, <1>13, <1>14, Cases
     DEF clientThread

(* Whatever is taken from a connection was in it, and what is put into it is a
   write, or a request that was sent on. *)
LEMMA CarriesOn ==
  ASSUME NEW c \in Link, NEW d, NEW s, NEW ks, NEW more, Carries(c, s, ks),
         \A m \in DOMAIN ks : m \in DOMAIN more,
         \/ Same(c, d) \/ Did(c, d)
         \/ \E at : Took(c, d, at)
         \/ c.from < s /\ \E m \in Message : Known(m, more) /\ Given(c, d, m)
  PROVE  Carries(d, s, more)
<1>1. c.queue \in Seq(Message)
  BY DEF Link
<1>2. /\ Known(c.msg, more) /\ \A p \in DOMAIN c.queue : Known(c.queue[p], more)
      /\ Known(0, more)
  BY DEF Carries, Known, GetTable
<1>3. CASE Same(c, d)
  BY <1>2, <1>3 DEF Same, Carries
<1>4. CASE Did(c, d)
  BY <1>2, <1>4 DEF Did, Carries, GetTable
<1>5. ASSUME NEW at, Took(c, d, at)
      PROVE  Carries(d, s, more)
  <2>1. c.queue # <<>> /\ d.from = c.from /\ d.queue = Tail(c.queue) /\ d.msg = Head(c.queue)
    BY <1>5 DEF Took
  <2>2. /\ 1 \in DOMAIN c.queue /\ Head(c.queue) = c.queue[1]
        /\ \A p \in DOMAIN Tail(c.queue) :
             p + 1 \in DOMAIN c.queue /\ Tail(c.queue)[p] = c.queue[p + 1]
    BY <1>1, <2>1
  <2> QED
    BY <1>2, <2>1, <2>2 DEF Carries
<1>6. ASSUME c.from < s, NEW m \in Message, Known(m, more), Given(c, d, m)
      PROVE  Carries(d, s, more)
  <2>1. \A p \in DOMAIN Append(c.queue, m) :
          \/ p \in DOMAIN c.queue /\ Append(c.queue, m)[p] = c.queue[p]
          \/ Append(c.queue, m)[p] = m
    BY <1>1
  <2> QED
    BY <1>2, <1>6, <2>1 DEF Given, Carries
<1> QED
  BY <1>3, <1>4, <1>5, <1>6

LEMMA CarryStep ==
  ASSUME JoinInv, CarryInv, [Next]_vars
  PROVE  CarryInv'
<1>1. threads \in [Server -> Seq(Link)]
  BY DEF JoinInv, TypeInv, LinkTypes
<1>2. \A m \in DOMAIN keys : m \in DOMAIN keys'
  BY KeysGrow
<1>3. \A u \in Server : \A j \in DOMAIN threads[u] :
        threads[u][j] \in Link /\ Carries(threads[u][j], u, keys)
  BY <1>1 DEF CarryInv
<1>4. ASSUME NEW u \in Server, Kept(u)
      PROVE  \A j \in DOMAIN threads'[u] : Carries(threads'[u][j], u, keys')
  <2>1. ASSUME NEW j \in DOMAIN threads[u]
        PROVE  Carries(threads'[u][j], u, keys')
    <3>1. Same(threads[u][j], threads'[u][j])
      BY <1>4 DEF Kept
    <3> QED
      BY <1>2, <1>3, <3>1, CarriesOn
  <2>2. ASSUME NEW j \in DOMAIN threads'[u] \ DOMAIN threads[u]
        PROVE  Carries(threads'[u][j], u, keys')
    BY <1>4 DEF Kept, Carries, Known, GetTable
  <2> QED
    BY <2>1, <2>2
<1>5. ASSUME NEW u \in Server, DOMAIN threads'[u] = DOMAIN threads[u],
             \A j \in DOMAIN threads[u] :
               LET c == threads[u][j]
                   d == threads'[u][j] IN
               \/ d = c \/ Did(c, d) \/ \E at : Took(c, d, at)
               \/ c.from < u /\ \E m \in Message : Known(m, keys') /\ Given(c, d, m)
      PROVE  \A j \in DOMAIN threads'[u] : Carries(threads'[u][j], u, keys')
  <2>1. \A c : Same(c, c)
    BY DEF Same
  <2> QED
    BY <1>2, <1>3, <1>5, <2>1, CarriesOn
<1>6. ASSUME NEW s \in Server,
             \/ Start(s) \/ ListPrevious(s) \/ GetPrevious(s) \/ Expire(s)
             \/ AskTable(s) \/ CopyTable(s) \/ Rewire(s)
      PROVE  CarryInv'
  BY <1>4, <1>6, MainKept DEF CarryInv
<1>7. ASSUME NEW s \in Server, AskFails(s) \/ Crash(s) \/ RewireFails(s)
      PROVE  CarryInv'
  <2>1. Stop(s)
    BY <1>7, Ends DEF JoinInv
  <2>2. threads'[s] = <<>>
    BY <2>1, StopLinks DEF JoinInv
  <2>3. \A u \in Server \ {s} : \A j \in DOMAIN threads'[u] :
          Carries(threads'[u][j], u, keys')
    BY <1>4, <2>1, MainKept
  <2> QED
    BY <2>2, <2>3 DEF CarryInv
<1>8. CASE Connect
  BY <1>4, <1>8, ConnectKept DEF CarryInv
<1>9. ASSUME NEW k \in Key, Write(k)
      PROVE  CarryInv'
  <2> DEFINE h == client[1]
             i == client[2]
             n == Len(keys) + 1
  <2>1. /\ h \in Server /\ i \in DOMAIN threads[h] /\ threads[h][i].from = Client
        /\ Only(h, i) /\ Given(threads[h][i], threads'[h][i], n)
        /\ \A u \in Server \ {h} : threads'[u] = threads[u]
        /\ n \in Message
    BY <1>9, WriteGives DEF Writes
  <2>2. Known(n, keys')
    <3>1. keys' = Append(keys, k) /\ keys \in Seq(Key)
      BY <1>9, KeysGrow DEF Write
    <3> QED
      BY <3>1 DEF Known
  <2> HIDE DEF n, h, i
  <2>3. Client < h
    BY <2>1, JoinAssumption DEF Client, Server
  <2> QED
    BY <1>5, <2>1, <2>2, <2>3 DEF CarryInv, Only
<1>10. ASSUME NEW s \in Server, NEW i \in DOMAIN threads[s], Propagate(s, i)
       PROVE  CarryInv'
  <2> DEFINE t == next[s][1]
             j == next[s][2]
             c == threads[s][i]
             m == Head(c.queue)
  <2>1. /\ t \in Server /\ s < t /\ j \in DOMAIN threads[t] /\ threads[t][j].from = s
        /\ Only(s, i) /\ Took(c, threads'[s][i], "apply")
        /\ Only(t, j) /\ Given(threads[t][j], threads'[t][j], m)
        /\ \A u \in Server \ {s, t} : threads'[u] = threads[u]
        /\ m \in Message
    BY <1>10, PropagateGives
  <2>2. Known(m, keys')
    <3>1. c.queue # <<>> /\ c.queue \in Seq(Message)
      BY <1>3, <2>1 DEF Took, Link
    <3>2. 1 \in DOMAIN c.queue /\ m = c.queue[1]
      BY <3>1
    <3> QED
      BY <1>2, <1>3, <3>2 DEF Carries, Known
  <2> HIDE DEF t, j, c, m
  <2>3. \A u \in Server : DOMAIN threads'[u] = DOMAIN threads[u]
    BY <2>1 DEF Only
  <2>4. ASSUME NEW u \in Server, NEW y \in DOMAIN threads[u]
        PROVE  \/ threads'[u][y] = threads[u][y]
               \/ Took(threads[u][y], threads'[u][y], "apply")
               \/ /\ threads[u][y].from < u
                  /\ \E w \in Message : /\ Known(w, keys')
                                        /\ Given(threads[u][y], threads'[u][y], w)
    BY <2>1, <2>2 DEF Only, c
  <2> QED
    BY <1>5, <2>3, <2>4 DEF CarryInv
<1>11. ASSUME NEW s \in Server, NEW i \in DOMAIN threads[s],
              \/ PropagateNowhere(s, i) \/ PropagateFails(s, i)
              \/ ApplyWrite(s, i) \/ AnswerTable(s, i)
       PROVE  CarryInv'
  <2>1. /\ Only(s, i) /\ \A u \in Server \ {s} : threads'[u] = threads[u]
        /\ \/ \E at : Took(threads[s][i], threads'[s][i], at)
           \/ Did(threads[s][i], threads'[s][i])
    BY <1>11, TakeGives, AnswerGives
       DEF PropagateNowhere, PropagateFails, ApplyWrite, AnswerTable
  <2> QED
    BY <1>5, <2>1 DEF CarryInv, Only
<1>12. CASE UNCHANGED vars
  BY <1>12 DEF vars, clivars, CarryInv
<1> QED
  BY <1>6, <1>7, <1>8, <1>9, <1>10, <1>11, <1>12, Cases DEF clientThread

(* Only a server that serves applies messages. *)
LEMMA IdleStep ==
  ASSUME JoinInv, IdleInv, [Next]_vars
  PROVE  IdleInv'
<1>1. /\ threads \in [Server -> Seq(Link)] /\ main \in [Server -> Places]
      /\ table \in [Server -> [Key -> Message]]
  BY DEF JoinInv, TypeInv, LinkTypes, NodeTypes, DataTypes
<1>2. ASSUME NEW u \in Server, Kept(u), main[u] # "serve"
      PROVE  \A j \in DOMAIN threads'[u] : threads'[u][j].at = "receive"
  <2>1. \A j \in DOMAIN threads[u] : threads[u][j].at = "receive"
    BY <1>2 DEF IdleInv
  <2> QED
    BY <1>2, <2>1 DEF Kept, Same
<1>3. ASSUME NEW s \in Server,
             \/ Start(s) \/ ListPrevious(s) \/ GetPrevious(s) \/ Expire(s)
             \/ AskTable(s) \/ CopyTable(s) \/ Rewire(s)
      PROVE  IdleInv'
  <2>1. /\ main[s] = "serve" => main' = main
        /\ \A u \in Server \ {s} : main'[u] = main[u] /\ table'[u] = table[u]
        /\ table'[s] = table[s] \/ main'[s] = "serve"
    BY <1>1, <1>3 DEF Start, ListPrevious, GetPrevious, Expire, AskTable,
       CopyTable, Rewire, datavars, nodevars
  <2>2. \A u \in Server : main'[u] # "serve" => main[u] # "serve" /\ table'[u] = table[u]
    BY <2>1
  <2>3. \A u \in Server : Kept(u)
    BY <1>3, MainKept
  <2> QED
    BY <1>2, <2>2, <2>3 DEF IdleInv
<1>4. ASSUME NEW s \in Server, AskFails(s) \/ Crash(s) \/ RewireFails(s)
      PROVE  IdleInv'
  <2>1. Stop(s)
    BY <1>4, Ends DEF JoinInv
  <2>2. threads'[s] = <<>> /\ table'[s] = NoTable
    BY <1>1, <2>1, StopLinks DEF JoinInv, Stop
  <2>3. \A u \in Server \ {s} : Kept(u)
    BY <2>1, MainKept
  <2>4. \A u \in Server \ {s} : main'[u] = main[u] /\ table'[u] = table[u]
    BY <1>1, <2>1 DEF Stop
  <2> QED
    BY <1>2, <2>2, <2>3, <2>4 DEF IdleInv
<1>5. CASE Connect
  <2>1. UNCHANGED <<main, table>> /\ \A u \in Server : Kept(u)
    BY <1>5, ConnectKept DEF Connect, nodevars, datavars
  <2> QED
    BY <1>2, <2>1 DEF IdleInv
<1>6. ASSUME NEW k \in Key, Write(k)
      PROVE  IdleInv'
  <2> DEFINE h == client[1]
             i == client[2]
  <2>1. UNCHANGED <<main, table>>
    BY <1>6 DEF Write, nodevars, datavars
  <2>2. /\ h \in Server /\ i \in DOMAIN threads[h]
        /\ Only(h, i) /\ threads'[h][i].at = threads[h][i].at
        /\ \A u \in Server \ {h} : threads'[u] = threads[u]
    BY <1>6, WriteGives DEF Given
  <2> HIDE DEF h, i
  <2> QED
    BY <2>1, <2>2 DEF IdleInv, Only
<1>7. ASSUME NEW s \in Server, NEW i \in DOMAIN threads[s], Propagate(s, i)
      PROVE  IdleInv'
  <2> DEFINE t == next[s][1]
             j == next[s][2]
  <2>1. UNCHANGED <<main, table>> /\ main[s] = "serve"
    BY <1>7 DEF Propagate, in_main_loop, nodevars, datavars
  <2>2. /\ t \in Server /\ j \in DOMAIN threads[t]
        /\ Only(t, j) /\ threads'[t][j].at = threads[t][j].at
        /\ \A u \in Server \ {s, t} : threads'[u] = threads[u]
    BY <1>7, PropagateGives DEF Given
  <2> HIDE DEF t, j
  <2> QED
    BY <2>1, <2>2 DEF IdleInv, Only
<1>8. ASSUME NEW s \in Server, NEW i \in DOMAIN threads[s],
             \/ PropagateNowhere(s, i) \/ PropagateFails(s, i)
             \/ ApplyWrite(s, i) \/ AnswerTable(s, i)
      PROVE  IdleInv'
  <2>1. main' = main /\ main[s] = "serve"
    BY <1>8 DEF PropagateNowhere, PropagateFails, ApplyWrite, AnswerTable, takes,
       answers, in_main_loop, nodevars
  <2>2. \A u \in Server \ {s} : table'[u] = table[u]
    <3>1. CASE PropagateNowhere(s, i) \/ PropagateFails(s, i) \/ AnswerTable(s, i)
      BY <3>1 DEF PropagateNowhere, PropagateFails, AnswerTable, datavars
    <3>2. CASE ApplyWrite(s, i)
      BY <1>1, <3>2 DEF ApplyWrite
    <3> QED
      BY <1>8, <3>1, <3>2
  <2>3. \A u \in Server \ {s} : threads'[u] = threads[u]
    BY <1>8, TakeGives, AnswerGives
       DEF PropagateNowhere, PropagateFails, ApplyWrite, AnswerTable
  <2> QED
    BY <2>1, <2>2, <2>3 DEF IdleInv
<1>9. CASE UNCHANGED vars
  BY <1>9 DEF vars, nodevars, datavars, IdleInv
<1> QED
  BY <1>3, <1>4, <1>5, <1>6, <1>7, <1>8, <1>9, Cases DEF clientThread

LEMMA WriteStep ==
  ASSUME JoinInv, WriteInv, [Next]_vars
  PROVE  WriteInv'
  BY LabelStep, CarryStep, IdleStep DEF WriteInv
-----------------------------------------------------------------------------
(* Who feeds whom. *)
LEMMA LivesOn ==
  ASSUME JoinInv, [Next]_vars, NEW t \in Server, Up(t)'
  PROVE  Up(t)
<1>1. \A u \in Server : main[u] = "gone" => main'[u] = "gone"
  BY MainStep DEF JoinInv
<1>2. \A u \in 1 .. t : u \in Server
  BY JoinAssumption DEF Server
<1> QED
  BY <1>1, <1>2 DEF Up

(* Of a chain without dead servers every server that has started has a znode. *)
LEMMA UpZnodes ==
  ASSUME JoinInv, ShapeInv, NEW t \in Server, Up(t), NEW v \in Server,
         main[v] # "off", t <= v
  PROVE  \A u \in 1 .. t : u \in Server /\ u \in znodes /\ Alive(u)
<1> SUFFICES ASSUME NEW u \in 1 .. t
             PROVE  u \in Server /\ u \in znodes /\ Alive(u)
  OBVIOUS
<1>1. u \in Server /\ t \in Nat /\ v \in Nat /\ u \in Nat /\ u <= t
  BY JoinAssumption DEF Server
<1>2. main[u] # "off"
  <2>1. CASE u = v
    BY <2>1
  <2>2. CASE u # v
    <3>1. u < v
      BY <1>1, <2>2
    <3> QED
      BY <1>1, <3>1 DEF JoinInv, StartInv
  <2> QED
    BY <2>1, <2>2
<1>3. Alive(u)
  BY <1>2 DEF Alive, Up
<1> QED
  BY <1>1, <1>3 DEF JoinInv, StartInv

LEMMA LeastServer ==
  ASSUME NEW S \in SUBSET Server, S # {}
  PROVE  Min(S) \in S /\ \A m \in S : Min(S) <= m
<1>1. S \in SUBSET Nat
  BY DEF Server
<1>2. \E n \in S : \A m \in S : n =< m
  BY <1>1, LeastNatural
<1> QED
  BY <1>2 DEF Min

LEMMA GreatestServer ==
  ASSUME NEW S \in SUBSET Server, NEW n \in S, \A m \in S : m <= n
  PROVE  Max(S) = n
<1>1. \E x \in S : \A m \in S : x >= m
  BY JoinAssumption DEF Server
<1>2. Max(S) \in S /\ \A m \in S : Max(S) >= m
  BY <1>1 DEF Max
<1>3. n \in Nat /\ Max(S) \in Nat
  <2>1. S \in SUBSET Nat
    BY DEF Server
  <2> QED
    BY <1>2, <2>1
<1> QED
  BY <1>2, <1>3

(* The predecessor of a server is the one before it ... *)
LEMMA PreviousShape ==
  ASSUME JoinInv, ShapeInv, NEW t \in Server, Up(t), ListPrevious(t),
         main'[t] = "address"
  PROVE  prev'[t] = t - 1
<1> DEFINE before == {u \in znodes : u < t /\ node_id(u) > 0}
<1>1. main[t] = "list"
  BY DEF ListPrevious
<1>2. before \in SUBSET Server
  BY DEF JoinInv, TypeInv, NodeTypes
<1>3. main \in [Server -> Places] /\ prev \in [Server -> Server \cup {NoServer}]
  BY DEF JoinInv, TypeInv, NodeTypes
<1>4. /\ before = {} => main' = [main EXCEPT ![t] = "serve"]
      /\ before # {} => prev' = [prev EXCEPT ![t] = Max(before)]
  BY DEF ListPrevious
<1>5. PICK v \in before : TRUE
  BY <1>3, <1>4
<1>6. v \in Server /\ v < t /\ node_id(v) > 0
  BY <1>2, <1>5
<1>7. /\ t \in Nat /\ v \in Nat /\ v >= 1 /\ first \in Nat
      /\ t - 1 \in Server /\ t - 1 < t /\ t - 1 \in 1 .. t /\ v <= t - 1
  BY <1>6, JoinAssumption DEF Server, JoinInv, TypeInv, NodeTypes
<1>8. t - 1 \in znodes
  BY <1>1, <1>7, UpZnodes
<1>9. node_id(t - 1) > 0
  BY <1>6, <1>7 DEF node_id
<1>10. t - 1 \in before
  BY <1>7, <1>8, <1>9
<1>11. \A m \in before : m <= t - 1
  BY <1>2, JoinAssumption DEF Server
<1> HIDE DEF before
<1>12. Max(before) = t - 1
  BY <1>2, <1>10, <1>11, GreatestServer
<1> QED
  BY <1>3, <1>4, <1>5, <1>12

(* ... its successor the one after it ... *)
LEMMA NextShape ==
  ASSUME JoinInv, ShapeInv, NEW t \in Server, t > 1, Up(t), Rewire(t - 1)
  PROVE  \/ next'[t - 1] = Nowhere /\ main[t] = "off"
         \/ next'[t - 1] = <<t, Len(threads[t]) + 1>> /\ Alive(t)
            /\ threads' = [Closing(next[t - 1], threads) EXCEPT ![t] =
                             Append(@, Connection(t - 1, <<>>))]
<1> DEFINE s == t - 1
           later == Later(s)
<1>1. s \in Server /\ t \in Nat /\ s \in Nat
  BY JoinAssumption DEF Server
<1>2. later \in SUBSET Server /\ znodes \in SUBSET Server
  BY DEF Later, JoinInv, TypeInv, NodeTypes
<1>3. next \in [Server -> (Server \X Nat) \cup {Nowhere}]
  BY DEF JoinInv, TypeInv, LinkTypes
<1>4. CASE later = {}
  <2>1. next'[s] = Nowhere
    BY <1>1, <1>3, <1>4 DEF Rewire
  <2>2. t \notin znodes
    BY <1>1, <1>4 DEF Later
  <2>3. main[t] = "off"
    <3>1. ~ Alive(t)
      BY <2>2 DEF JoinInv, StartInv
    <3>2. main[t] # "gone"
      BY <1>1 DEF Up
    <3> QED
      BY <3>1, <3>2 DEF Alive
  <2> QED
    BY <2>1, <2>3
<1>5. CASE later # {}
  <2>1. PICK v \in later : TRUE
    BY <1>5
  <2>2. v \in Server /\ main[v] # "off" /\ t <= v
    BY <1>1, <1>2, <2>1, JoinAssumption DEF Later, ShapeInv, Server
  <2>3. t \in znodes /\ Alive(t)
    BY <1>1, <2>2, UpZnodes
  <2>4. t \in later
    BY <1>1, <2>3 DEF Later
  <2>5. Min(later) \in later /\ Min(later) <= t
    BY <1>2, <2>4, LeastServer
  <2>6. Min(later) > s /\ Min(later) \in Nat
    BY <1>2, <2>5 DEF Later, Server
  <2>7. Min(later) = t
    BY <1>1, <2>5, <2>6
  <2>8. /\ next' = [next EXCEPT ![s] = <<Min(later), Len(threads[Min(later)]) + 1>>]
        /\ threads' = [Closing(next[s], threads) EXCEPT ![Min(later)] =
                         Append(@, Connection(s, <<>>))]
    BY <1>5 DEF Rewire
  <2> HIDE DEF later, s
  <2>9. next'[s] = <<t, Len(threads[t]) + 1>>
    BY <1>1, <1>3, <2>7, <2>8
  <2> QED
    BY <2>3, <2>7, <2>8, <2>9 DEF s
<1> QED
  BY <1>4, <1>5

(* ... and the client writes to the first. *)
LEMMA HeadShape ==
  ASSUME JoinInv, ShapeInv, Up(1), Connect
  PROVE  /\ 1 \in Server /\ client' = <<1, Len(threads[1]) + 1>> /\ Alive(1)
         /\ threads' = [threads EXCEPT ![1] = Append(@, Connection(Client, <<>>))]
<1>1. 1 \in Server
  BY JoinAssumption DEF Server
<1>2. znodes \in SUBSET Server /\ znodes # {}
  BY DEF Connect, JoinInv, TypeInv, NodeTypes
<1>3. PICK v \in znodes : TRUE
  BY <1>2
<1>4. v \in Server /\ main[v] # "off" /\ 1 <= v
  BY <1>2, JoinAssumption DEF ShapeInv, Server
<1>5. 1 \in znodes /\ Alive(1)
  <2>1. 1 \in 1 .. 1
    OBVIOUS
  <2> QED
    BY <1>1, <1>4, <2>1, UpZnodes
<1>6. Min(znodes) \in znodes /\ Min(znodes) <= 1
  BY <1>2, <1>5, LeastServer
<1>7. Min(znodes) = 1
  <2>1. Min(znodes) \in Server
    BY <1>2, <1>6
  <2> QED
    BY <1>6, <2>1, JoinAssumption DEF Server
<1> QED
  BY <1>1, <1>5, <1>7 DEF Connect

LEMMA ShapeStep ==
  ASSUME JoinInv, ShapeInv, [Next]_vars
  PROVE  ShapeInv'
<1>1. /\ main \in [Server -> Places] /\ prev \in [Server -> Server \cup {NoServer}]
      /\ znodes \subseteq Server
      /\ next \in [Server -> (Server \X Nat) \cup {Nowhere}]
      /\ client \in (Server \X Nat) \cup {Nowhere}
  BY DEF JoinInv, TypeInv, NodeTypes, LinkTypes
<1>2. 1 \in Server /\ \A t \in Server : t \in Nat /\ (t > 1 => t - 1 \in Server)
  BY JoinAssumption DEF Server
<1>3. ASSUME NEW t \in Server, Up(t)'
      PROVE  /\ Up(t) /\ Up(1) /\ main'[t] # "gone"
             /\ main[t] \in {"address", "connect", "copy"} => prev[t] = t - 1
             /\ t > 1 /\ next[t - 1] # Nowhere => next[t - 1][1] = t
             /\ client # Nowhere => client[1] = 1
  <2>1. Up(t)
    BY <1>3, LivesOn
  <2>2. Up(1)
    BY <1>2, <2>1 DEF Up, Server
  <2>3. main'[t] # "gone"
    BY <1>2, <1>3 DEF Up, Server
  <2> QED
    BY <2>1, <2>2, <2>3 DEF ShapeInv
<1>4. ASSUME UNCHANGED <<main, prev, znodes>>
      PROVE  /\ \A s \in znodes' : main'[s] # "off"
             /\ \A t \in Server : Up(t)' =>
                  (main'[t] \in {"address", "connect", "copy"} => prev'[t] = t - 1)
  BY <1>3, <1>4 DEF ShapeInv
<1>5. ASSUME NEW s \in Server,
             \/ Start(s) \/ ListPrevious(s) \/ GetPrevious(s) \/ Expire(s)
             \/ AskTable(s) \/ CopyTable(s)
      PROVE  ShapeInv'
  <2>1. UNCHANGED <<next, client>>
    BY <1>5 DEF Start, ListPrevious, GetPrevious, Expire, AskTable, CopyTable, clivars
  <2>2. \A u \in znodes' : main'[u] # "off"
    BY <1>1, <1>5 DEF Start, ListPrevious, GetPrevious, Expire, AskTable, CopyTable,
       nodevars, ShapeInv
  <2>3. ASSUME NEW t \in Server, Up(t)', main'[t] \in {"address", "connect", "copy"}
        PROVE  prev'[t] = t - 1
    <3>1. CASE ListPrevious(s) /\ t = s
      <4>1. main'[t] = "address"
        BY <1>1, <2>3, <3>1 DEF ListPrevious
      <4> QED
        BY <1>3, <2>3, <3>1, <4>1, PreviousShape
    <3>2. CASE ~ (ListPrevious(s) /\ t = s)
      <4>1. main[t] \in {"address", "connect", "copy"} /\ prev'[t] = prev[t]
        BY <1>1, <1>5, <2>3, <3>2 DEF Start, ListPrevious, GetPrevious, Expire,
           AskTable, CopyTable, nodevars
      <4> QED
        BY <1>3, <2>3, <4>1
    <3> QED
      BY <3>1, <3>2
  <2> QED
    BY <1>3, <2>1, <2>2, <2>3 DEF ShapeInv
<1>6. ASSUME NEW s \in Server, AskFails(s) \/ Crash(s) \/ RewireFails(s)
      PROVE  ShapeInv'
  <2>1. /\ main' = [main EXCEPT ![s] = "gone"] /\ client' = client /\ znodes' = znodes
        /\ prev' = [prev EXCEPT ![s] = NoServer]
        /\ next' = [next EXCEPT ![s] = Nowhere]
    BY <1>6, Ends DEF JoinInv, Stop, clivars
  <2>2. ASSUME NEW t \in Server, Up(t)'
        PROVE  t # s
    BY <1>1, <1>3, <2>1, <2>2
  <2>3. \A u \in znodes' : main'[u] # "off"
    BY <1>1, <2>1 DEF ShapeInv
  <2> QED
    BY <1>1, <1>2, <1>3, <2>1, <2>2, <2>3 DEF ShapeInv
<1>7. ASSUME NEW s \in Server, Rewire(s)
      PROVE  ShapeInv'
  <2>1. UNCHANGED <<main, prev, znodes, client>>
    BY <1>7 DEF Rewire, nodevars, clivars
  <2>2. \A u \in Server \ {s} : next'[u] = next[u]
    BY <1>1, <1>7 DEF Rewire
  <2>3. ASSUME NEW t \in Server, Up(t)', t > 1, next'[t - 1] # Nowhere
        PROVE  next'[t - 1][1] = t
    <3>1. CASE s = t - 1
      BY <1>3, <1>7, <2>3, <3>1, NextShape
    <3>2. CASE s # t - 1
      BY <1>2, <1>3, <2>2, <2>3, <3>2
    <3> QED
      BY <3>1, <3>2
  <2> QED
    BY <1>3, <1>4, <2>1, <2>3 DEF ShapeInv
<1>8. CASE Connect
  <2>1. UNCHANGED <<main, prev, znodes, next>>
    BY <1>8 DEF Connect, nodevars
  <2>2. ASSUME NEW t \in Server, Up(t)'
        PROVE  client'[1] = 1
    BY <1>3, <1>8, <2>2, HeadShape
  <2> QED
    BY <1>3, <1>4, <2>1, <2>2 DEF ShapeInv
<1>9. ASSUME UNCHANGED <<main, prev, znodes, next, client>>
      PROVE  ShapeInv'
  BY <1>3, <1>4, <1>9 DEF ShapeInv
<1>10. ASSUME NEW k \in Key, Write(k)
       PROVE  ShapeInv'
  BY <1>9, <1>10 DEF Write, nodevars
<1>11. ASSUME NEW s \in Server, NEW i \in DOMAIN threads[s], clientThread(s, i)
       PROVE  ShapeInv'
  BY <1>9, <1>11 DEF clientThread, Propagate, PropagateNowhere, PropagateFails,
     ApplyWrite, AnswerTable, nodevars, clivars
<1>12. CASE UNCHANGED vars
  BY <1>9, <1>12 DEF vars, nodevars, clivars
<1> QED
  BY <1>5, <1>6, <1>7, <1>8, <1>10, <1>11, <1>12, Cases
-----------------------------------------------------------------------------
(* What becomes of the writes that wait for a server. *)
LEMMA KeptFlow ==
  ASSUME NEW u \in Server, Kept(u)
  PROVE  /\ Feeders(u) \subseteq Feeders(u)'
         /\ Queued(u)' = Queued(u) /\ Taken(u)' = Taken(u)
         /\ Sorted(u) => Sorted(u)'
<1>1. \A i \in DOMAIN threads[u] :
        /\ i \in DOMAIN threads'[u] /\ threads'[u][i].from = threads[u][i].from
        /\ threads'[u][i].queue = threads[u][i].queue
        /\ threads'[u][i].at = threads[u][i].at /\ threads'[u][i].msg = threads[u][i].msg
  BY DEF Kept, Same
<1>2. ASSUME NEW i \in Feeders(u)', i \notin DOMAIN threads[u]
      PROVE  threads'[u][i].at = "receive" /\ threads'[u][i].queue = <<>>
  BY <1>2 DEF Kept, Feeders
<1>3. \A i \in DOMAIN threads[u] : i \in Feeders(u) <=> i \in Feeders(u)'
  BY <1>1 DEF Feeders
<1>4. Feeders(u) \subseteq Feeders(u)'
  BY <1>3 DEF Feeders
<1>5. Queued(u)' = Queued(u)
  BY <1>1, <1>2, <1>3, <1>4 DEF Queued, Feeders
<1>6. Taken(u)' = Taken(u)
  BY <1>1, <1>2, <1>3, <1>4 DEF Taken, Feeders
<1>7. ASSUME Sorted(u), NEW i \in Feeders(u)'
      PROVE  Rising(threads'[u][i].queue)
  <2>1. CASE i \in DOMAIN threads[u]
    BY <1>1, <1>3, <1>7, <2>1 DEF Sorted
  <2>2. CASE i \notin DOMAIN threads[u]
    BY <1>2, <2>2 DEF Rising
  <2> QED
    BY <2>1, <2>2
<1> QED
  BY <1>4, <1>5, <1>6, <1>7 DEF Sorted

LEMMA OnlyFeeders ==
  ASSUME NEW u \in Server, NEW i \in DOMAIN threads[u], Only(u, i),
         threads'[u][i].from = threads[u][i].from
  PROVE  /\ Feeders(u)' = Feeders(u)
         /\ \A j \in Feeders(u) \ {i} : threads'[u][j] = threads[u][j]
  BY DEF Only, Feeders

(* The first of a queue of writes is the least. *)
LEMMA TailRising ==
  ASSUME NEW q \in Seq(Message), q # <<>>, Rising(q)
  PROVE  /\ Rising(Tail(q))
         /\ Head(q) # GetTable =>
              \A p \in DOMAIN Tail(q) : Tail(q)[p] # GetTable => Head(q) < Tail(q)[p]
         /\ \A p \in DOMAIN Tail(q) : \E x \in DOMAIN q : Tail(q)[p] = q[x]
         /\ \A x \in DOMAIN q :
              q[x] = Head(q) \/ \E p \in DOMAIN Tail(q) : Tail(q)[p] = q[x]
         /\ \E x \in DOMAIN q : q[x] = Head(q)
<1>1. /\ 1 \in DOMAIN q /\ Head(q) = q[1] /\ Len(q) \in Nat /\ DOMAIN q = 1 .. Len(q)
      /\ \A p \in DOMAIN Tail(q) :
           p \in Nat /\ p > 0 /\ p + 1 \in DOMAIN q /\ Tail(q)[p] = q[p + 1]
      /\ \A x \in DOMAIN q : x # 1 => x - 1 \in DOMAIN Tail(q) /\ Tail(q)[x - 1] = q[x]
  OBVIOUS
<1>2. \A p \in DOMAIN Tail(q) : 1 < p + 1
  BY <1>1
<1>3. Rising(Tail(q))
  <2> SUFFICES ASSUME NEW x \in DOMAIN Tail(q), NEW y \in DOMAIN Tail(q), x < y,
                      Tail(q)[x] # GetTable, Tail(q)[y] # GetTable
               PROVE  Tail(q)[x] < Tail(q)[y]
    BY DEF Rising
  <2>1. x + 1 < y + 1
    BY <1>1
  <2> QED
    BY <1>1, <2>1 DEF Rising
<1>4. Head(q) # GetTable =>
        \A p \in DOMAIN Tail(q) : Tail(q)[p] # GetTable => Head(q) < Tail(q)[p]
  BY <1>1, <1>2 DEF Rising
<1> QED
  BY <1>1, <1>3, <1>4

LEMMA AddRising ==
  ASSUME NEW q \in Seq(Message), NEW m \in Message, Rising(q),
         m # GetTable => \A x \in DOMAIN q : q[x] # GetTable => q[x] < m
  PROVE  Rising(Append(q, m))
<1> DEFINE r == Append(q, m)
<1>1. /\ Len(q) \in Nat /\ \A x \in DOMAIN q : x \in Nat /\ x <= Len(q) /\ r[x] = q[x]
      /\ DOMAIN r = DOMAIN q \cup {Len(q) + 1}
      /\ r[Len(q) + 1] = m
  OBVIOUS
<1> SUFFICES ASSUME NEW x \in DOMAIN r, NEW y \in DOMAIN r, x < y,
                    r[x] # GetTable, r[y] # GetTable
             PROVE  r[x] < r[y]
  BY DEF Rising
<1>2. x \in DOMAIN q /\ r[x] = q[x]
  <2>1. CASE x = Len(q) + 1
    BY <1>1, <2>1
  <2> QED
    BY <1>1, <2>1
<1>3. CASE y \in DOMAIN q /\ r[y] = q[y]
  BY <1>2, <1>3 DEF Rising
<1>4. CASE r[y] = m
  BY <1>2, <1>4
<1> QED
  BY <1>1, <1>3, <1>4

LEMMA FeederLink ==
  ASSUME TypeInv, NEW u \in Server, NEW i \in DOMAIN threads[u]
  PROVE  threads[u][i] \in Link /\ threads[u][i].queue \in Seq(Message)
<1>1. threads \in [Server -> Seq(Link)]
  BY DEF TypeInv, LinkTypes
<1>2. threads[u][i] \in Link
  BY <1>1
<1> QED
  BY <1>2 DEF Link

(* A thread takes a write, or a message that is none. *)
LEMMA TookFlow ==
  ASSUME TypeInv, NEW s \in Server, NEW i \in DOMAIN threads[s], Only(s, i),
         Took(threads[s][i], threads'[s][i], "apply"), Sorted(s)
  PROVE  LET m == Head(threads[s][i].queue) IN
         /\ Feeders(s)' = Feeders(s) /\ Sorted(s)'
         /\ i \notin Feeders(s) \/ m = GetTable =>
              Queued(s)' = Queued(s) /\ Taken(s)' = Taken(s)
         /\ i \in Feeders(s) /\ m # GetTable /\ Feeders(s) = {i} =>
              /\ m \in Queued(s) /\ Queued(s)' = Queued(s) \ {m}
              /\ Taken(s) = {} /\ Taken(s)' = {m}
              /\ \A n \in Queued(s)' : m < n
<1> DEFINE c == threads[s][i]
           d == threads'[s][i]
           m == Head(c.queue)
<1>1. /\ c.at = "receive" /\ c.queue # <<>>
      /\ d.from = c.from /\ d.queue = Tail(c.queue) /\ d.at = "apply" /\ d.msg = m
  BY DEF Took
<1>2. c.queue \in Seq(Message)
  BY FeederLink
<1>3. m \in Message
  BY <1>1, <1>2
<1>4. Feeders(s)' = Feeders(s) /\ \A j \in Feeders(s) \ {i} : threads'[s][j] = threads[s][j]
  BY <1>1, OnlyFeeders
<1>5. i \in Feeders(s) => Rising(c.queue)
  BY DEF Sorted
<1>6. i \in Feeders(s) =>
        /\ Rising(d.queue)
        /\ m # GetTable => \A p \in DOMAIN d.queue : d.queue[p] # GetTable => m < d.queue[p]
        /\ \A p \in DOMAIN d.queue : \E x \in DOMAIN c.queue : d.queue[p] = c.queue[x]
        /\ \A x \in DOMAIN c.queue :
             c.queue[x] = m \/ \E p \in DOMAIN d.queue : d.queue[p] = c.queue[x]
        /\ \E x \in DOMAIN c.queue : c.queue[x] = m
  <2>1. ASSUME i \in Feeders(s)
        PROVE  LET q == c.queue IN
               /\ Rising(Tail(q))
               /\ m # GetTable =>
                    \A p \in DOMAIN Tail(q) : Tail(q)[p] # GetTable => m < Tail(q)[p]
               /\ \A p \in DOMAIN Tail(q) : \E x \in DOMAIN q : Tail(q)[p] = q[x]
               /\ \A x \in DOMAIN q : q[x] = m \/ \E p \in DOMAIN Tail(q) : Tail(q)[p] = q[x]
               /\ \E x \in DOMAIN q : q[x] = m
    BY <1>1, <1>2, <1>5, <2>1, TailRising
  <2>2. d.queue = Tail(c.queue)
    BY <1>1
  <2> HIDE DEF c, d, m
  <2> QED
    BY <2>1, <2>2
<1>7. Sorted(s)'
  BY <1>4, <1>6 DEF Sorted
<1> HIDE DEF m, c, d
<1>8. ASSUME i \notin Feeders(s) \/ m = GetTable
      PROVE  Queued(s)' = Queued(s) /\ Taken(s)' = Taken(s)
  <2>1. CASE i \notin Feeders(s)
    BY <1>4, <2>1 DEF Queued, Taken
  <2>2. CASE i \in Feeders(s) /\ m = GetTable
    <3>1. Taken(s)' = Taken(s)
      BY <1>1, <1>4, <2>2 DEF Taken, Writes, c, d
    <3>2. Queued(s)' \subseteq Queued(s)
      BY <1>4, <1>6, <2>2 DEF Queued, c, d
    <3>3. Queued(s) \subseteq Queued(s)'
      BY <1>4, <1>6, <2>2 DEF Queued, Writes, c, d
    <3> QED
      BY <3>1, <3>2, <3>3
  <2> QED
    BY <1>8, <2>1, <2>2
<1>9. ASSUME i \in Feeders(s), m # GetTable, Feeders(s) = {i}
      PROVE  /\ m \in Queued(s) /\ Queued(s)' = Queued(s) \ {m}
             /\ Taken(s) = {} /\ Taken(s)' = {m}
             /\ \A n \in Queued(s)' : m < n
  <2>1. m \in Writes
    BY <1>3, <1>9 DEF Writes
  <2>2. m \in Queued(s)
    BY <1>6, <1>9, <2>1 DEF Queued, c
  <2>3. Taken(s) = {} /\ Taken(s)' = {m}
    BY <1>1, <1>4, <1>9, <2>1 DEF Taken, c, d
  <2>4. \A n \in Queued(s)' : m < n
    BY <1>4, <1>6, <1>9 DEF Queued, Writes, d
  <2>5. Queued(s)' \subseteq Queued(s)
    BY <1>4, <1>6, <1>9 DEF Queued, c, d
  <2>6. Queued(s) \subseteq Queued(s)' \cup {m}
    BY <1>4, <1>6, <1>9 DEF Queued, c, d
  <2>7. m \notin Queued(s)'
    BY <2>1, <2>4, JoinAssumption DEF Writes, Message
  <2> QED
    BY <2>2, <2>3, <2>4, <2>5, <2>6, <2>7
<1> QED
  BY <1>4, <1>7, <1>8, <1>9 DEF m, c

(* A thread has applied its message. *)
LEMMA DidFlow ==
  ASSUME TypeInv, NEW s \in Server, NEW i \in DOMAIN threads[s], Only(s, i),
         Did(threads[s][i], threads'[s][i])
  PROVE  LET m == threads[s][i].msg IN
         /\ Feeders(s)' = Feeders(s) /\ (Sorted(s) => Sorted(s)')
         /\ Queued(s)' = Queued(s)
         /\ i \notin Feeders(s) \/ m = GetTable => Taken(s)' = Taken(s)
         /\ i \in Feeders(s) /\ m # GetTable /\ Feeders(s) = {i} =>
              Taken(s) = {m} /\ Taken(s)' = {}
<1> DEFINE c == threads[s][i]
           d == threads'[s][i]
<1>1. /\ c.at = "apply" /\ d.at # "apply" /\ d.from = c.from /\ d.queue = c.queue
  BY DEF Did
<1>2. c.msg \in Message
  BY FeederLink DEF Link
<1>3. Feeders(s)' = Feeders(s) /\ \A j \in Feeders(s) \ {i} : threads'[s][j] = threads[s][j]
  BY <1>1, OnlyFeeders
<1>4. \A j \in Feeders(s) : threads'[s][j].queue = threads[s][j].queue
  BY <1>1, <1>3
<1>5. (Sorted(s) => Sorted(s)') /\ Queued(s)' = Queued(s)
  BY <1>3, <1>4 DEF Sorted, Queued
<1>6. ASSUME i \notin Feeders(s) \/ c.msg = GetTable
      PROVE  Taken(s)' = Taken(s)
  BY <1>1, <1>3, <1>6 DEF Taken, Writes
<1>7. ASSUME i \in Feeders(s), c.msg # GetTable, Feeders(s) = {i}
      PROVE  Taken(s) = {c.msg} /\ Taken(s)' = {}
  BY <1>1, <1>2, <1>3, <1>7 DEF Taken, Writes
<1> QED
  BY <1>3, <1>5, <1>6, <1>7

(* A feeder is given a message. *)
LEMMA GivenFlow ==
  ASSUME TypeInv, NEW t \in Server, NEW j \in Feeders(t), Only(t, j),
         NEW m \in Message, Given(threads[t][j], threads'[t][j], m),
         Sorted(t), m # GetTable => \A n \in Queued(t) : n < m
  PROVE  /\ Feeders(t)' = Feeders(t) /\ Sorted(t)' /\ Taken(t)' = Taken(t)
         /\ m = GetTable => Queued(t)' = Queued(t)
         /\ m # GetTable => Queued(t)' = Queued(t) \cup {m}
<1> DEFINE c == threads[t][j]
           d == threads'[t][j]
<1>1. /\ d.from = c.from /\ d.at = c.at /\ d.msg = c.msg /\ d.queue = Append(c.queue, m)
  BY DEF Given
<1>2. j \in DOMAIN threads[t] /\ c.queue \in Seq(Message)
  BY FeederLink DEF Feeders
<1>3. Feeders(t)' = Feeders(t) /\ \A i \in Feeders(t) \ {j} : threads'[t][i] = threads[t][i]
  BY <1>1, <1>2, OnlyFeeders
<1>4. Taken(t)' = Taken(t)
  BY <1>1, <1>3 DEF Taken
<1>5. /\ \A p \in DOMAIN d.queue : d.queue[p] = m \/ \E x \in DOMAIN c.queue : d.queue[p] = c.queue[x]
      /\ \A x \in DOMAIN c.queue : x \in DOMAIN d.queue /\ d.queue[x] = c.queue[x]
      /\ \E p \in DOMAIN d.queue : d.queue[p] = m
  <2>1. /\ DOMAIN d.queue = DOMAIN c.queue \cup {Len(c.queue) + 1}
        /\ d.queue[Len(c.queue) + 1] = m
        /\ \A x \in DOMAIN c.queue : d.queue[x] = c.queue[x]
    BY <1>1, <1>2, SMTT(30)
  <2> QED
    BY <2>1
<1>6. \A x \in DOMAIN c.queue : c.queue[x] # GetTable => c.queue[x] \in Queued(t)
  BY <1>2 DEF Queued, Writes
<1>7. Sorted(t)'
  <2>1. Rising(c.queue)
    BY DEF Sorted
  <2>2. Rising(d.queue)
    BY <1>1, <1>2, <1>6, <2>1, AddRising
  <2> QED
    BY <1>3, <2>2 DEF Sorted
<1> HIDE DEF c, d
<1>8. Queued(t) \subseteq Queued(t)'
  BY <1>3, <1>5 DEF Queued, c, d
<1>9. Queued(t)' \subseteq Queued(t) \cup {m}
  BY <1>3, <1>5 DEF Queued, c, d
<1>10. m # GetTable => m \in Queued(t)'
  BY <1>3, <1>5 DEF Queued, Writes, d
<1>11. m = GetTable => m \notin Queued(t)'
  BY DEF Queued, Writes
<1> QED
  BY <1>3, <1>4, <1>7, <1>8, <1>9, <1>10, <1>11
-----------------------------------------------------------------------------
(* A chain that is fed in order was so before. *)
LEMMA LinkPersists ==
  ASSUME JoinInv, [Next]_vars, NEW u \in Server, main'[u] # "gone",
         NEW i \in DOMAIN threads[u]
  PROVE  /\ i \in DOMAIN threads'[u] /\ threads'[u][i].from = threads[u][i].from
         /\ threads[u][i].at = "dropped" => threads'[u][i].at = "dropped"
<1>1. /\ Kept(u) \/ threads'[u] = threads[u]
      => /\ i \in DOMAIN threads'[u] /\ threads'[u][i].from = threads[u][i].from
         /\ threads[u][i].at = "dropped" => threads'[u][i].at = "dropped"
  BY DEF Kept, Same
<1>2. ASSUME NEW j \in DOMAIN threads[u], Only(u, j),
             \/ \E m : Given(threads[u][j], threads'[u][j], m)
             \/ \E at : Took(threads[u][j], threads'[u][j], at)
             \/ Did(threads[u][j], threads'[u][j])
      PROVE  /\ i \in DOMAIN threads'[u] /\ threads'[u][i].from = threads[u][i].from
             /\ threads[u][i].at = "dropped" => threads'[u][i].at = "dropped"
  <2>1. CASE i = j
    BY <1>2, <2>1 DEF Only, Given, Took, Did
  <2>2. CASE i # j
    BY <1>2, <2>2 DEF Only
  <2> QED
    BY <2>1, <2>2
<1>3. ASSUME NEW s \in Server,
             \/ Start(s) \/ ListPrevious(s) \/ GetPrevious(s) \/ Expire(s)
             \/ AskTable(s) \/ CopyTable(s) \/ Rewire(s)
      PROVE  Kept(u)
  BY <1>3, MainKept
<1>4. ASSUME NEW s \in Server, AskFails(s) \/ Crash(s) \/ RewireFails(s)
      PROVE  Kept(u)
  <2>1. Stop(s)
    BY <1>4, Ends DEF JoinInv
  <2>2. s # u
    BY <2>1 DEF Stop, JoinInv, TypeInv, NodeTypes
  <2> QED
    BY <2>1, <2>2, MainKept
<1>5. CASE Connect
  BY <1>1, <1>5, ConnectKept
<1>6. ASSUME NEW k \in Key, Write(k)
      PROVE  \/ threads'[u] = threads[u]
             \/ \E j \in DOMAIN threads[u] :
                  Only(u, j) /\ \E m : Given(threads[u][j], threads'[u][j], m)
  BY <1>6, WriteGives
<1>7. ASSUME NEW s \in Server, NEW k \in DOMAIN threads[s], clientThread(s, k)
      PROVE  \/ threads'[u] = threads[u]
             \/ \E j \in DOMAIN threads[u] :
                  /\ Only(u, j)
                  /\ \/ \E m : Given(threads[u][j], threads'[u][j], m)
                     \/ \E at : Took(threads[u][j], threads'[u][j], at)
                     \/ Did(threads[u][j], threads'[u][j])
  <2>1. CASE Propagate(s, k)
    <3> DEFINE t == next[s][1]
               e == next[s][2]
    <3>1. /\ t \in Server /\ e \in DOMAIN threads[t]
          /\ Only(s, k) /\ Took(threads[s][k], threads'[s][k], "apply")
          /\ Only(t, e) /\ \E m : Given(threads[t][e], threads'[t][e], m)
          /\ \A v \in Server \ {s, t} : threads'[v] = threads[v]
      BY <2>1, PropagateGives
    <3> HIDE DEF t, e
    <3> QED
      BY <3>1
  <2>2. CASE PropagateNowhere(s, k) \/ PropagateFails(s, k)
    BY <2>2, TakeGives DEF PropagateNowhere, PropagateFails
  <2>3. CASE ApplyWrite(s, k) \/ AnswerTable(s, k)
    BY <2>3, AnswerGives DEF ApplyWrite, AnswerTable
  <2> QED
    BY <1>7, <2>1, <2>2, <2>3 DEF clientThread
<1>8. CASE UNCHANGED vars
  BY <1>1, <1>8 DEF vars
<1> QED
  BY <1>1, <1>2, <1>3, <1>4, <1>5, <1>6, <1>7, <1>8, Cases

LEMMA Below ==
  ASSUME NEW t \in Server
  PROVE  /\ t \in 1 .. t /\ t \in Nat /\ t >= 1
         /\ \A u \in 1 .. t : u \in Server /\ u \in Nat /\ u >= 1 /\ u <= t
         /\ t > 1 => t - 1 \in 1 .. t /\ t - 1 \in Server /\ t - 1 < t /\ t - 1 # t
  BY JoinAssumption DEF Server

LEMMA FineBelow ==
  ASSUME NEW t \in Server, Fine(t), NEW u \in 1 .. t
  PROVE  Fine(u)
<1>1. \A v \in 1 .. u : v \in 1 .. t
  BY Below
<1> QED
  BY <1>1 DEF Fine

LEMMA FineBefore ==
  ASSUME JoinInv, [Next]_vars, NEW t \in Server, Fine(t)'
  PROVE  Fine(t) /\ Up(t) /\ Up(t)'
<1>1. Up(t)'
  BY DEF Fine, Up
<1>2. Up(t)
  BY <1>1, LivesOn
<1>3. ASSUME NEW u \in 1 .. t
      PROVE  /\ \A i \in Feeders(u), j \in Feeders(u) : i = j
             /\ \A i \in DOMAIN threads[u] : threads[u][i].at # "dropped"
  <2>1. u \in Server /\ main'[u] # "gone"
    BY <1>1, Below DEF Up
  <2>2. \A i \in DOMAIN threads[u] :
          /\ i \in DOMAIN threads'[u] /\ threads'[u][i].from = threads[u][i].from
          /\ threads[u][i].at = "dropped" => threads'[u][i].at = "dropped"
    BY <2>1, LinkPersists
  <2>3. /\ \A i \in Feeders(u)', j \in Feeders(u)' : i = j
        /\ \A i \in DOMAIN threads'[u] : threads'[u][i].at # "dropped"
    BY DEF Fine
  <2>4. Feeders(u) \subseteq Feeders(u)'
    BY <2>2 DEF Feeders
  <2> QED
    BY <2>2, <2>3, <2>4
<1>4. Fine(t)
  BY <1>2, <1>3 DEF Fine, Up
<1> QED
  BY <1>1, <1>2, <1>4

LEMMA OneFeeder ==
  ASSUME NEW t \in Server, Fine(t), NEW u \in 1 .. t, NEW i \in Feeders(u)
  PROVE  Feeders(u) = {i}
  BY DEF Fine

(* InOrder counts the feeders. *)
LEMMA InOrderFine ==
  ASSUME TypeInv, NEW t \in Server, InOrder(t)
  PROVE  Fine(t)
<1> SUFFICES ASSUME NEW u \in 1 .. t
             PROVE  \A i \in Feeders(u), j \in Feeders(u) : i = j
  BY DEF InOrder, Fine
<1>1. u \in Server
  BY Below
<1>2. threads[u] \in Seq(Link)
  BY <1>1 DEF TypeInv, LinkTypes
<1>3. DOMAIN threads[u] = 1 .. Len(threads[u]) /\ Len(threads[u]) \in Nat
  BY <1>2
<1>4. IsFiniteSet(Feeders(u))
  <2>1. IsFiniteSet(1 .. Len(threads[u]))
    BY <1>3, FS_Interval
  <2>2. Feeders(u) \subseteq 1 .. Len(threads[u])
    BY <1>3 DEF Feeders
  <2> QED
    BY <2>1, <2>2, FS_Subset
<1>5. Cardinality(Feeders(u)) <= 1
  BY DEF InOrder
<1> SUFFICES ASSUME NEW i \in Feeders(u), NEW j \in Feeders(u), i # j
             PROVE  FALSE
  OBVIOUS
<1>6. Cardinality({i, j}) <= Cardinality(Feeders(u)) /\ IsFiniteSet({i, j})
  BY <1>4, FS_Subset
<1>7. Cardinality({i, j}) = 2
  <2>1. IsFiniteSet({i}) /\ Cardinality({i}) = 1
    BY FS_Singleton
  <2>2. {i, j} = {i} \cup {j} /\ j \notin {i}
    OBVIOUS
  <2>3. Cardinality({i} \cup {j}) = 2
    BY <2>1, <2>2, FS_AddElement
  <2> QED
    BY <2>2, <2>3
<1>8. Cardinality(Feeders(u)) \in Nat
  BY <1>4, FS_CardinalityType
<1> QED
  BY <1>5, <1>6, <1>7, <1>8

LEMMA MoreFeeders ==
  ASSUME JoinInv, [Next]_vars, NEW u \in Server, main'[u] # "gone"
  PROVE  Feeders(u) \subseteq Feeders(u)'
  BY LinkPersists DEF Feeders

(* Nothing but a callback or the client's program feeds a server. *)
LEMMA FeedersSame ==
  ASSUME JoinInv, NEW u \in Server, main'[u] # "gone",
         \/ \E s \in Server :
              \/ Start(s) \/ ListPrevious(s) \/ GetPrevious(s) \/ Expire(s)
              \/ AskTable(s) \/ CopyTable(s)
              \/ AskFails(s) \/ Crash(s) \/ RewireFails(s)
              \/ \E i \in DOMAIN threads[s] : clientThread(s, i)
         \/ \E k \in Key : Write(k)
  PROVE  Feeders(u)' = Feeders(u)
<1>1. TypeInv /\ StartInv /\ EndInv /\ threads \in [Server -> Seq(Link)]
  BY DEF JoinInv, LinkInv, TypeInv, LinkTypes
<1>2. ASSUME DOMAIN threads'[u] = DOMAIN threads[u],
             \A i \in DOMAIN threads[u] : threads'[u][i].from = threads[u][i].from
      PROVE  Feeders(u)' = Feeders(u)
  BY <1>2 DEF Feeders
<1>3. ASSUME NEW s \in Server,
             Start(s) \/ ListPrevious(s) \/ GetPrevious(s) \/ Expire(s)
      PROVE  Feeders(u)' = Feeders(u)
  BY <1>2, <1>3 DEF Start, ListPrevious, GetPrevious, Expire
<1>4. ASSUME NEW s \in Server, AskTable(s)
      PROVE  Feeders(u)' = Feeders(u)
  <2>1. prev[s] \in Server /\ prev[s] < s
    BY <1>1, <1>4 DEF StartInv, AskTable
  <2>2. ~ (s < prev[s])
    BY <2>1, JoinAssumption DEF Server
  <2> DEFINE d == Connection(s, <<GetTable>>)
             n == Len(threads[prev[s]]) + 1
  <2>3. threads' = [threads EXCEPT ![prev[s]] = Append(@, d)]
    BY <1>4 DEF AskTable
  <2>4. d \in Link /\ d.from = s
    BY NewLink DEF Connection
  <2> HIDE DEF d
  <2>5. /\ \A v \in Server : v # prev[s] => threads'[v] = threads[v]
        /\ DOMAIN threads'[prev[s]] = DOMAIN threads[prev[s]] \cup {n}
        /\ threads'[prev[s]][n] = d
        /\ \A j \in DOMAIN threads[prev[s]] : threads'[prev[s]][j] = threads[prev[s]][j]
    BY <1>1, <2>1, <2>3, <2>4, AddThread
  <2>6. CASE u = prev[s]
    BY <2>2, <2>4, <2>5, <2>6 DEF Feeders
  <2>7. CASE u # prev[s]
    BY <2>5, <2>7 DEF Feeders
  <2> QED
    BY <2>6, <2>7
<1>5. ASSUME NEW s \in Server, CopyTable(s)
      PROVE  Feeders(u)' = Feeders(u)
  <2>1. /\ DOMAIN threads'[u] = DOMAIN threads[u]
        /\ \A i \in DOMAIN threads[u] : Shut(threads[u][i], threads'[u][i])
    BY <1>1, <1>5, CopyLinks
  <2> QED
    BY <1>1, <1>2, <2>1, ShutLink, FeederLink
<1>6. ASSUME NEW s \in Server, AskFails(s) \/ Crash(s) \/ RewireFails(s)
      PROVE  Feeders(u)' = Feeders(u)
  <2>1. Stop(s)
    BY <1>1, <1>6, Ends
  <2>2. s # u
    BY <2>1 DEF Stop, JoinInv, TypeInv, NodeTypes
  <2>3. /\ DOMAIN threads'[u] = DOMAIN threads[u]
        /\ \A i \in DOMAIN threads[u] : Shut(threads[u][i], threads'[u][i])
    BY <1>1, <2>1, <2>2, StopLinks
  <2> QED
    BY <1>1, <1>2, <2>3, ShutLink, FeederLink
<1>7. ASSUME NEW s \in Server, NEW i \in DOMAIN threads[s], clientThread(s, i)
      PROVE  Feeders(u)' = Feeders(u)
  BY <1>1, <1>2, <1>7, ThreadSame
<1>8. ASSUME NEW k \in Key, Write(k)
      PROVE  Feeders(u)' = Feeders(u)
  <2>1. threads'[u] = threads[u] \/ \E j \in DOMAIN threads[u] :
          Only(u, j) /\ threads'[u][j].from = threads[u][j].from
    BY <1>8, WriteGives DEF Given
  <2> QED
    BY <2>1, OnlyFeeders DEF Feeders
<1> QED
  BY <1>3, <1>4, <1>5, <1>6, <1>7, <1>8

(* A server is fed anew by the one before it, or by the client. *)
LEMMA FeedersAdded ==
  ASSUME NEW ths \in [Server -> Seq(Link)], NEW t \in Server, NEW from, from < t,
         Connection(from, <<>>) \in Link,
         threads' = [ths EXCEPT ![t] = Append(@, Connection(from, <<>>))]
  PROVE  /\ Len(ths[t]) + 1 \in Feeders(t)'
         /\ \A u \in Server \ {t} : threads'[u] = ths[u]
<1> DEFINE d == Connection(from, <<>>)
           n == Len(ths[t]) + 1
<1>1. d.from = from
  BY DEF Connection
<1>2. d \in Link /\ threads' = [ths EXCEPT ![t] = Append(@, d)]
  OBVIOUS
<1> HIDE DEF d
<1>3. /\ \A v \in Server : v # t => threads'[v] = ths[v]
      /\ n \in DOMAIN threads'[t] /\ threads'[t][n] = d
  BY <1>2, AddThread
<1> QED
  BY <1>1, <1>3 DEF Feeders

LEMMA SourceRewire ==
  ASSUME JoinInv, JoinInv', ShapeInv, [Next]_vars, NEW t \in Server, Fine(t)', Source(t),
         NEW s \in Server, Rewire(s)
  PROVE  Source(t)'
<1>1. /\ TypeInv /\ threads \in [Server -> Seq(Link)]
      /\ next \in [Server -> (Server \X Nat) \cup {Nowhere}]
      /\ main' = main /\ client' = client
      /\ Up(t) /\ \A u \in Server : ~ Alive(u) => threads'[u] = <<>>
  BY FineBefore DEF JoinInv, TypeInv, LinkTypes, LinkInv, EndInv, Rewire, nodevars,
     clivars, Alive
<1>2. s \in Nat /\ t \in Nat /\ s >= 1 /\ t >= 1
  BY Below
<1>3. \A u \in Server \ {s} : next'[u] = next[u]
  BY <1>1 DEF Rewire
<1>4. /\ Closing(next[s], threads) \in [Server -> Seq(Link)]
      /\ \A u \in Server : DOMAIN Closing(next[s], threads)[u] = DOMAIN threads[u]
      /\ \A u \in Server : \A i \in DOMAIN threads[u] :
           Closing(next[s], threads)[u][i].from = threads[u][i].from
  <2>1. next[s] \in (Server \X Nat) \cup {Nowhere}
    BY <1>1
  <2>2. /\ Closing(next[s], threads) \in [Server -> Seq(Link)]
        /\ \A u \in Server : DOMAIN Closing(next[s], threads)[u] = DOMAIN threads[u]
        /\ \A u \in Server : \A i \in DOMAIN threads[u] :
             Shut(threads[u][i], Closing(next[s], threads)[u][i])
    BY <1>1, <2>1, ClosingLinks
  <2> QED
    BY <1>1, <2>2, ShutLink, FeederLink
<1> DEFINE old == Closing(next[s], threads)
<1> HIDE DEF old
<1>5. ASSUME threads'[t] = old[t], t # s + 1
      PROVE  Source(t)'
  <2>1. Feeders(t)' = Feeders(t)
    BY <1>4, <1>5 DEF Feeders, old
  <2>2. t > 1 => t - 1 \in Server \ {s}
    BY <1>2, <1>5, Below
  <2>3. t > 1 => next'[t - 1] = next[t - 1]
    BY <1>3, <2>2
  <2>4. t # 1 => t > 1
    BY <1>2
  <2> QED
    BY <1>1, <2>1, <2>3, <2>4 DEF Source
<1>6. CASE t = s + 1
  <2>1. t > 1 /\ s = t - 1
    BY <1>2, <1>6
  <2>2. \/ main[t] = "off"
        \/ /\ next'[t - 1] = <<t, Len(threads[t]) + 1>>
           /\ threads' = [old EXCEPT ![t] = Append(@, Connection(t - 1, <<>>))]
    BY <1>1, <2>1, NextShape DEF old
  <2>3. CASE main[t] = "off"
    <3>1. threads'[t] = <<>>
      BY <1>1, <2>3 DEF Alive
    <3> QED
      BY <3>1 DEF Source, Feeders
  <2>4. CASE /\ next'[t - 1] = <<t, Len(threads[t]) + 1>>
             /\ threads' = [old EXCEPT ![t] = Append(@, Connection(t - 1, <<>>))]
    <3>1. Len(old[t]) = Len(threads[t])
      <4>1. old[t] \in Seq(Link) /\ threads[t] \in Seq(Link)
            /\ DOMAIN old[t] = DOMAIN threads[t]
        BY <1>1, <1>4 DEF old
      <4> QED
        BY <4>1
    <3>2. t - 1 < t /\ t - 1 \in Server
      BY <2>1, Below
    <3>3. Len(old[t]) + 1 \in Feeders(t)'
      BY <1>4, <2>4, <3>2, NewLink, FeedersAdded DEF old
    <3>4. \A i \in Feeders(t)' : i = Len(threads[t]) + 1
      <4>1. t \in 1 .. t
        BY Below
      <4> QED
        BY <3>1, <3>3, <4>1 DEF Fine
    <3> QED
      BY <2>1, <2>4, <3>4 DEF Source
  <2> QED
    BY <2>2, <2>3, <2>4
<1>7. CASE t > s + 1
  <2>1. s + 1 \in Server /\ s + 1 > 1 /\ (s + 1) - 1 = s /\ s + 1 # t /\ s + 1 < t
    BY <1>2, <1>7, JoinAssumption DEF Server
  <2>2. Up(s + 1)
    BY <1>1, <1>2, <1>7 DEF Up
  <2>3. \/ main[s + 1] = "off"
        \/ threads' = [old EXCEPT ![s + 1] = Append(@, Connection(s, <<>>))]
    <3>1. ASSUME NEW r \in Server, r > 1, Up(r), r - 1 = s
          PROVE  \/ main[r] = "off"
                 \/ threads' = [old EXCEPT ![r] = Append(@, Connection(s, <<>>))]
      BY <3>1, NextShape DEF old
    <3> QED
      BY <2>1, <2>2, <3>1
  <2>4. CASE main[s + 1] = "off"
    <3>1. main[t] = "off"
      BY <2>1, <2>4 DEF JoinInv, StartInv
    <3>2. threads'[t] = <<>>
      BY <1>1, <3>1 DEF Alive
    <3> QED
      BY <3>2 DEF Source, Feeders
  <2>5. CASE threads' = [old EXCEPT ![s + 1] = Append(@, Connection(s, <<>>))]
    <3>1. threads'[t] = old[t]
      BY <1>4, <2>1, <2>5 DEF old
    <3> QED
      BY <1>5, <1>7, <2>1, <3>1
  <2> QED
    BY <2>3, <2>4, <2>5
<1>8. CASE t <= s
  <2>1. \/ threads' = old
        \/ \E v \in Server : /\ s < v
                             /\ threads' = [old EXCEPT ![v] = Append(@, Connection(s, <<>>))]
    BY <1>1, RewireLinks DEF old
  <2>2. threads'[t] = old[t]
    <3>1. ASSUME NEW v \in Server, s < v
          PROVE  v # t
      BY <1>2, <1>8, <3>1, Below
    <3> QED
      BY <1>4, <2>1, <3>1 DEF old
  <2> QED
    BY <1>2, <1>5, <1>8, <2>2
<1> QED
  BY <1>2, <1>6, <1>7, <1>8

LEMMA SourceStep ==
  ASSUME JoinInv, JoinInv', ShapeInv, [Next]_vars, NEW t \in Server, Fine(t)', Source(t)
  PROVE  Source(t)'
<1>1. /\ TypeInv /\ threads \in [Server -> Seq(Link)] /\ Up(t) /\ main'[t] # "gone"
      /\ next \in [Server -> (Server \X Nat) \cup {Nowhere}]
  BY FineBefore, Below DEF JoinInv, TypeInv, LinkTypes, Fine
<1>2. ASSUME Feeders(t)' = Feeders(t), client' = client, t > 1 => next'[t - 1] = next[t - 1]
      PROVE  Source(t)'
  <2>1. t # 1 => t > 1
    BY Below
  <2> QED
    BY <1>2, <2>1 DEF Source
<1>3. ASSUME NEW s \in Server,
             \/ Start(s) \/ ListPrevious(s) \/ GetPrevious(s) \/ Expire(s)
             \/ AskTable(s) \/ CopyTable(s)
             \/ \E i \in DOMAIN threads[s] : clientThread(s, i)
      PROVE  Source(t)'
  <2>1. next' = next /\ client' = client
    BY <1>3 DEF Start, ListPrevious, GetPrevious, Expire, AskTable, CopyTable,
       clientThread, Propagate, PropagateNowhere, PropagateFails, ApplyWrite,
       AnswerTable, clivars
  <2>2. Feeders(t)' = Feeders(t)
    BY <1>1, <1>3, FeedersSame
  <2> QED
    BY <1>2, <2>1, <2>2
<1>4. ASSUME NEW s \in Server, AskFails(s) \/ Crash(s) \/ RewireFails(s)
      PROVE  Source(t)'
  <2>1. Stop(s)
    BY <1>1, <1>4, Ends
  <2>2. main'[s] = "gone"
    BY <2>1 DEF Stop, JoinInv, TypeInv, NodeTypes
  <2>3. t > 1 => t - 1 # s /\ t - 1 \in Server
    BY <2>2, Below DEF Fine
  <2>4. client' = client /\ (t > 1 => next'[t - 1] = next[t - 1])
    BY <1>1, <2>1, <2>3 DEF Stop, clivars
  <2>5. Feeders(t)' = Feeders(t)
    BY <1>1, <1>4, FeedersSame
  <2> QED
    BY <1>2, <2>4, <2>5
<1>5. ASSUME NEW k \in Key, Write(k)
      PROVE  Source(t)'
  <2>1. next' = next /\ client' = client
    BY <1>5 DEF Write
  <2>2. Feeders(t)' = Feeders(t)
    BY <1>1, <1>5, FeedersSame
  <2> QED
    BY <1>2, <2>1, <2>2
<1>6. CASE Connect
  <2>1. Up(1)
    <3>1. \A u \in 1 .. 1 : u \in 1 .. t
      BY Below
    <3> QED
      BY <1>1, <3>1 DEF Up
  <2>2. /\ 1 \in Server /\ client' = <<1, Len(threads[1]) + 1>>
        /\ threads' = [threads EXCEPT ![1] = Append(@, Connection(Client, <<>>))]
    BY <1>6, <2>1, HeadShape
  <2>3. Client < 1
    BY DEF Client
  <2>4. /\ Len(threads[1]) + 1 \in Feeders(1)'
        /\ \A u \in Server \ {1} : threads'[u] = threads[u]
    BY <1>1, <2>2, <2>3, NewLink, FeedersAdded
  <2>5. CASE t = 1
    <3>1. \A i \in Feeders(1)' : i = Len(threads[1]) + 1
      BY <2>4, <2>5, Below DEF Fine
    <3> QED
      BY <2>2, <2>5, <3>1 DEF Source
  <2>6. CASE t # 1
    <3>1. Feeders(t)' = Feeders(t) /\ next' = next
      BY <1>6, <2>4, <2>6 DEF Feeders, Connect
    <3> QED
      BY <2>6, <3>1 DEF Source
  <2> QED
    BY <2>5, <2>6
<1>7. CASE UNCHANGED vars
  BY <1>2, <1>7 DEF vars, clivars, Feeders
<1> QED
  BY <1>3, <1>4, <1>5, <1>6, <1>7, Cases, SourceRewire
-----------------------------------------------------------------------------
(* How a step moves writes towards t: not at all; one is taken by s, and sent
   on; one is applied by s; the client writes one. *)
SameFlow(u) ==
  Queued(u)' = Queued(u) /\ Taken(u)' = Taken(u) /\ (Sorted(u) => Sorted(u)')

Still(t) == \A u \in 1 .. t : SameFlow(u)

Moves(t, s, m) ==
  /\ s \in 1 .. t /\ main[s] = "serve"
  /\ m \in Queued(s) /\ Queued(s)' = Queued(s) \ {m} /\ \A n \in Queued(s)' : m < n
  /\ Taken(s) = {} /\ Taken(s)' = {m}
  /\ Sorted(s)'
  /\ \A u \in 1 .. t : u # s /\ u # s + 1 => SameFlow(u)
  /\ \A u \in 1 .. t : u = s + 1 =>
       /\ Taken(u)' = Taken(u) /\ Sorted(u)'
       /\ Queued(u)' = IF Feeders(u) = {} THEN Queued(u) ELSE Queued(u) \cup {m}

Clears(t, s, m) ==
  /\ s \in 1 .. t
  /\ Taken(s) = {m} /\ Taken(s)' = {} /\ Queued(s)' = Queued(s)
  /\ Sorted(s)'
  /\ \A u \in 1 .. t : u # s => SameFlow(u)

Enters(t, n) ==
  /\ n \in Writes /\ n = Len(keys) + 1
  /\ Taken(1)' = Taken(1) /\ Queued(1)' = Queued(1) \cup {n}
  /\ Sorted(1)' /\ Feeders(1) # {}
  /\ \A u \in 1 .. t : u # 1 => SameFlow(u)

(* A step after which t is still fed in order. *)
Going(t) ==
  JoinInv /\ JoinInv' /\ OrderInv /\ WriteInv' /\ [Next]_vars /\ Fine(t)'

LEMMA GoingBelow ==
  ASSUME NEW t \in Server, Going(t), NEW u \in 1 .. t
  PROVE  /\ u \in Server /\ Going(u) /\ Fine(u) /\ Fine(u)' /\ Up(u) /\ Flow(u)
         /\ main[u] # "gone" /\ main'[u] # "gone"
         /\ Feeders(u) \subseteq Feeders(u)'
<1>1. u \in Server /\ u \in 1 .. u
  BY Below
<1>2. Fine(u)'
  <2>1. \A v \in 1 .. u : v \in 1 .. t
    BY Below
  <2> QED
    BY <2>1 DEF Going, Fine
<1>3. Going(u)
  BY <1>2 DEF Going
<1>4. Fine(u) /\ Up(u) /\ Up(u)'
  BY <1>1, <1>2, FineBefore DEF Going
<1>5. main[u] # "gone" /\ main'[u] # "gone"
  BY <1>1, <1>4 DEF Up
<1>6. Feeders(u) \subseteq Feeders(u)'
  BY <1>1, <1>5, MoreFeeders DEF Going
<1>7. Flow(u)
  BY <1>1, <1>4 DEF Going, OrderInv, FlowInv
<1> QED
  BY <1>1, <1>2, <1>3, <1>4, <1>5, <1>6, <1>7

(* What is on its way is a write, and the client has made it. *)
LEMMA OwnKnown ==
  ASSUME JoinInv, WriteInv, NEW u \in Server, NEW m \in Own(u)
  PROVE  m \in Writes /\ m \in Nat /\ m # 0 /\ m \in DOMAIN keys /\ keys[m] \in Key
<1>1. m \in Writes /\ m \in DOMAIN keys
  BY DEF Own, Taken, Queued, Feeders, WriteInv, CarryInv, Carries, Known, Writes
<1>2. keys \in Seq(Key)
  BY DEF JoinInv, TypeInv, DataTypes
<1> QED
  BY <1>1, <1>2, JoinAssumption DEF Writes, Message, GetTable

LEMMA ComingKnown ==
  ASSUME JoinInv, WriteInv, NEW t \in Server, NEW m \in Coming(t)
  PROVE  m \in Writes /\ m \in Nat /\ m # 0 /\ m \in DOMAIN keys /\ keys[m] \in Key
<1>1. \E u \in 1 .. t : m \in Own(u)
  BY Below DEF Coming, Above, Own
<1> QED
  BY <1>1, Below, OwnKnown

(* Whoever brings a write feeds the server. *)
LEMMA BringsFeeds ==
  ASSUME JoinInv, WriteInv, NEW s \in Server, NEW i \in DOMAIN threads[s],
         \/ threads[s][i].msg # GetTable
         \/ threads[s][i].queue # <<>> /\ Head(threads[s][i].queue) # GetTable
  PROVE  i \in Feeders(s)
<1>1. Carries(threads[s][i], s, keys)
  BY DEF WriteInv, CarryInv
<1>2. threads[s][i].queue \in Seq(Message)
  BY FeederLink DEF JoinInv
<1>3. threads[s][i].queue # <<>> =>
        1 \in DOMAIN threads[s][i].queue /\ Head(threads[s][i].queue) = threads[s][i].queue[1]
  BY <1>2
<1> QED
  BY <1>1, <1>3 DEF Carries, Feeders

LEMMA SameStill ==
  ASSUME NEW u \in Server, threads'[u] = threads[u]
  PROVE  SameFlow(u) /\ Feeders(u)' = Feeders(u)
<1>1. Feeders(u)' = Feeders(u)
  BY DEF Feeders
<1> QED
  BY <1>1 DEF SameFlow, Queued, Taken, Sorted

(* The steps that move no write. *)
LEMMA OtherStill ==
  ASSUME NEW t \in Server, Going(t),
         \/ \E s \in Server :
              \/ Start(s) \/ ListPrevious(s) \/ GetPrevious(s) \/ Expire(s)
              \/ AskTable(s) \/ CopyTable(s) \/ Rewire(s)
              \/ AskFails(s) \/ Crash(s) \/ RewireFails(s)
              \/ \E i \in DOMAIN threads[s] : AnswerTable(s, i)
         \/ Connect \/ UNCHANGED vars
  PROVE  Still(t)
<1> SUFFICES ASSUME NEW u \in 1 .. t
             PROVE  SameFlow(u)
  BY DEF Still
<1>1. u \in Server /\ main[u] # "gone" /\ main'[u] # "gone" /\ JoinInv
  BY GoingBelow DEF Going
<1>2. Kept(u) => SameFlow(u)
  BY <1>1, KeptFlow DEF SameFlow
<1>3. ASSUME NEW s \in Server,
             \/ Start(s) \/ ListPrevious(s) \/ GetPrevious(s) \/ Expire(s)
             \/ AskTable(s) \/ CopyTable(s) \/ Rewire(s)
      PROVE  Kept(u)
  BY <1>1, <1>3, MainKept
<1>4. ASSUME NEW s \in Server, AskFails(s) \/ Crash(s) \/ RewireFails(s)
      PROVE  Kept(u)
  <2>1. Stop(s)
    BY <1>1, <1>4, Ends DEF JoinInv
  <2>2. s # u
    BY <1>1, <2>1 DEF Stop, JoinInv, TypeInv, NodeTypes
  <2> QED
    BY <1>1, <2>1, <2>2, MainKept
<1>5. ASSUME NEW s \in Server, NEW i \in DOMAIN threads[s], AnswerTable(s, i)
      PROVE  SameFlow(u)
  <2>1. /\ Only(s, i) /\ Did(threads[s][i], threads'[s][i])
        /\ \A v \in Server \ {s} : threads'[v] = threads[v]
        /\ threads[s][i].msg = GetTable
    BY <1>1, <1>5, AnswerGives DEF AnswerTable
  <2>2. CASE u = s
    BY <1>1, <2>1, <2>2, DidFlow DEF SameFlow, JoinInv
  <2>3. CASE u # s
    BY <1>1, <2>1, <2>3, SameStill
  <2> QED
    BY <2>2, <2>3
<1>6. CASE Connect
  BY <1>1, <1>2, <1>6, ConnectKept
<1>7. CASE UNCHANGED vars
  BY <1>1, <1>7, SameStill DEF vars
<1> QED
  BY <1>2, <1>3, <1>4, <1>5, <1>6, <1>7

LEMMA ApplyClears ==
  ASSUME NEW t \in Server, Going(t), NEW s \in Server, NEW i \in DOMAIN threads[s],
         ApplyWrite(s, i)
  PROVE  /\ i \in Feeders(s)
         /\ s > t => Still(t)
         /\ s <= t => Clears(t, s, threads[s][i].msg)
<1>1. JoinInv /\ WriteInv /\ \A u \in 1 .. t : u \in Server /\ Flow(u) /\ Fine(u)
  BY GoingBelow DEF Going, OrderInv
<1>2. /\ Only(s, i) /\ Did(threads[s][i], threads'[s][i])
      /\ \A v \in Server \ {s} : threads'[v] = threads[v]
      /\ threads[s][i].msg # GetTable
  BY <1>1, AnswerGives DEF ApplyWrite
<1>3. i \in Feeders(s)
  BY <1>1, <1>2, BringsFeeds
<1>4. \A u \in 1 .. t : u # s => SameFlow(u)
  BY <1>1, <1>2, SameStill
<1>5. s \in Nat /\ t \in Nat /\ s >= 1 /\ s \in 1 .. s
  BY Below
<1>6. ASSUME s <= t
      PROVE  Clears(t, s, threads[s][i].msg)
  <2>1. s \in 1 .. t
    BY <1>5, <1>6
  <2>2. Feeders(s) = {i} /\ Sorted(s)
    BY <1>1, <1>3, <1>5, <2>1, OneFeeder DEF Flow, Order
  <2>3. /\ Sorted(s)' /\ Queued(s)' = Queued(s)
        /\ Taken(s) = {threads[s][i].msg} /\ Taken(s)' = {}
    BY <1>1, <1>2, <1>3, <2>2, DidFlow DEF JoinInv
  <2> QED
    BY <1>4, <2>1, <2>3 DEF Clears
<1>7. ASSUME s > t
      PROVE  Still(t)
  <2>1. \A u \in 1 .. t : u # s
    BY <1>5, <1>7
  <2> QED
    BY <1>4, <2>1 DEF Still
<1> QED
  BY <1>3, <1>6, <1>7

(* A message goes from one server to the one after it. *)
LEMMA TakeMoves ==
  ASSUME NEW t \in Server, Going(t), NEW s \in Server, NEW i \in DOMAIN threads[s],
         Propagate(s, i) \/ PropagateNowhere(s, i) \/ PropagateFails(s, i)
  PROVE  LET m == Head(threads[s][i].queue) IN
         /\ s > t \/ m = GetTable => Still(t)
         /\ s <= t /\ m # GetTable =>
              /\ Moves(t, s, m)
              /\ \A u \in 1 .. t : u = s + 1 /\ Feeders(u) # {} => Propagate(s, i)
<1> DEFINE m == Head(threads[s][i].queue)
           e == next[s][1]
           j == next[s][2]
<1>1. /\ JoinInv /\ WriteInv /\ TypeInv
      /\ \A u \in 1 .. t :
           u \in Server /\ Flow(u) /\ Fine(u) /\ Fine(u)' /\ Up(u) /\ main[u] # "gone"
  BY GoingBelow DEF Going, OrderInv, JoinInv
<1>2. s \in Nat /\ t \in Nat /\ s >= 1 /\ s \in 1 .. s
  BY Below
<1>3. /\ Only(s, i) /\ m \in Message /\ main[s] = "serve"
      /\ \E at : Took(threads[s][i], threads'[s][i], at)
      /\ \/ \A u \in Server \ {s} : threads'[u] = threads[u]
         \/ /\ e \in Server /\ s < e /\ j \in DOMAIN threads[e] /\ threads[e][j].from = s
            /\ Only(e, j) /\ Given(threads[e][j], threads'[e][j], m)
            /\ \A u \in Server \ {s, e} : threads'[u] = threads[u]
  BY <1>1, PropagateGives, TakeGives
     DEF Propagate, PropagateNowhere, PropagateFails, takes, in_main_loop
<1>4. ASSUME s <= t
      PROVE  Took(threads[s][i], threads'[s][i], "apply") /\ ~ PropagateFails(s, i)
  <2>1. s \in 1 .. t
    BY <1>2, <1>4
  <2>2. i \in DOMAIN threads'[s]
    BY <1>3 DEF Only
  <2>3. threads'[s][i].at # "dropped"
    BY <1>1, <1>2, <2>1, <2>2 DEF Fine
  <2>4. PropagateFails(s, i) => Took(threads[s][i], threads'[s][i], "dropped")
    BY <1>1, TakeGives DEF PropagateFails
  <2>5. PropagateNowhere(s, i) => Took(threads[s][i], threads'[s][i], "apply")
    BY <1>1, TakeGives DEF PropagateNowhere
  <2>6. Propagate(s, i) => Took(threads[s][i], threads'[s][i], "apply")
    BY <1>1, PropagateGives
  <2> QED
    BY <2>3, <2>4, <2>5, <2>6 DEF Took
<1>5. ASSUME NEW u \in 1 .. t, u = e, next[s] # Nowhere, s < u
      PROVE  u = s + 1
  <2>1. s + 1 \in Server /\ s + 1 \in 1 .. t /\ s + 1 > 1 /\ (s + 1) - 1 = s
    BY <1>2, <1>5, Below, JoinAssumption DEF Server
  <2>2. Up(s + 1)
    BY <1>1, <2>1
  <2>3. \A r \in Server : r > 1 /\ Up(r) /\ next[r - 1] # Nowhere => next[r - 1][1] = r
    BY DEF Going, OrderInv, ShapeInv
  <2>4. next[s][1] = s + 1
    BY <1>5, <2>1, <2>2, <2>3
  <2> QED
    BY <1>5, <2>4
<1> HIDE DEF m, e, j
<1>6. \A u \in Server : threads'[u] = threads[u] => SameFlow(u)
  BY SameStill
(* What the receiver, which is fed by s, is given. *)
<1>7. ASSUME NEW u \in 1 .. t, u = e, j \in DOMAIN threads[u], threads[u][j].from = s,
             Only(u, j), Given(threads[u][j], threads'[u][j], m), u = s + 1
      PROVE  /\ j \in Feeders(u) /\ Taken(u)' = Taken(u) /\ Sorted(u)'
             /\ m = GetTable => SameFlow(u)
             /\ m # GetTable => Queued(u)' = Queued(u) \cup {m}
  <2>1. j \in Feeders(u)
    BY <1>2, <1>7 DEF Feeders
  <2>2. Sorted(u) /\ u \in Server /\ u \in Nat
    BY <1>1, <1>2, <1>7 DEF Flow, Order
  <2>3. ASSUME m # GetTable
        PROVE  \A n \in Queued(u) : n < m
    <3>1. m \in Queued(s)
      <4>1. i \in Feeders(s) /\ threads[s][i].queue # <<>>
        BY <1>1, <1>3, <2>3, BringsFeeds DEF m, Took
      <4>2. threads[s][i].queue \in Seq(Message)
        BY <1>1, FeederLink
      <4>3. 1 \in DOMAIN threads[s][i].queue /\ threads[s][i].queue[1] = m
        BY <4>1, <4>2 DEF m
      <4> QED
        BY <1>3, <2>3, <4>1, <4>3 DEF Queued, Writes
    <3>2. s \in 1 .. u - 1
      BY <1>2, <1>7, <2>2
    <3>3. Order(u)
      BY <1>1 DEF Flow
    <3> QED
      BY <3>1, <3>2, <3>3 DEF Order
  <2>4. /\ Sorted(u)' /\ Taken(u)' = Taken(u)
        /\ m = GetTable => Queued(u)' = Queued(u)
        /\ m # GetTable => Queued(u)' = Queued(u) \cup {m}
    BY <1>1, <1>3, <1>7, <2>1, <2>2, <2>3, GivenFlow
  <2> QED
    BY <2>1, <2>4 DEF SameFlow
<1>8. ASSUME NEW u \in 1 .. t, u # s
      PROVE  /\ u # s + 1 => SameFlow(u)
             /\ m = GetTable => SameFlow(u)
             /\ u = s + 1 => /\ Taken(u)' = Taken(u) /\ Sorted(u)'
                             /\ \/ Queued(u)' = Queued(u) /\ threads'[u] = threads[u]
                                \/ /\ Feeders(u) # {}
                                   /\ m # GetTable => Queued(u)' = Queued(u) \cup {m}
                                   /\ m = GetTable => Queued(u)' = Queued(u)
  <2>1. CASE threads'[u] = threads[u]
    <3>1. SameFlow(u) /\ Sorted(u)
      BY <1>1, <1>6, <2>1 DEF Flow, Order
    <3> QED
      BY <2>1, <3>1 DEF SameFlow
  <2>2. CASE threads'[u] # threads[u]
    <3>1. /\ u = e /\ s < u /\ j \in DOMAIN threads[u] /\ threads[u][j].from = s
          /\ Only(u, j) /\ Given(threads[u][j], threads'[u][j], m)
      BY <1>1, <1>3, <1>8, <2>2
    <3>2. next[s] # Nowhere
      BY <1>2, <3>1 DEF e, Nowhere
    <3>3. u = s + 1
      BY <1>5, <3>1, <3>2
    <3>4. /\ j \in Feeders(u) /\ Taken(u)' = Taken(u) /\ Sorted(u)'
          /\ m = GetTable => SameFlow(u)
          /\ m # GetTable => Queued(u)' = Queued(u) \cup {m}
      BY <1>7, <3>1, <3>3
    <3> QED
      BY <3>3, <3>4 DEF SameFlow
  <2> QED
    BY <2>1, <2>2
(* And when it is fed it is given what s sends. *)
<1>9. ASSUME NEW u \in 1 .. t, u = s + 1, Feeders(u) # {}, s <= t
      PROVE  Propagate(s, i) /\ threads'[u] # threads[u]
  <2>1. u \in Server /\ Source(u) /\ u # 1 /\ u - 1 = s /\ main[u] # "gone" /\ Fine(u)
    BY <1>1, <1>2, <1>9 DEF Flow
  <2>2. PICK f \in Feeders(u) : TRUE
    BY <1>9
  <2>3. next[s] = <<u, f>> /\ f \in DOMAIN threads[u]
    BY <2>1, <2>2 DEF Source, Feeders
  <2>4. Alive(u)
    <3>1. threads[u] # <<>>
      <4>1. threads[u] \in Seq(Link)
        BY <2>1, <1>1 DEF TypeInv, LinkTypes
      <4> QED
        BY <2>3, <4>1
    <3> QED
      BY <1>1, <2>1, <3>1 DEF JoinInv, LinkInv, EndInv
  <2>5. Open(next[s])
    <3>1. threads[u][f].at # "dropped"
      BY <2>1, <2>3, Below DEF Fine
    <3>2. next[s] # Nowhere
      BY <2>1, <2>3, JoinAssumption DEF Nowhere, Server
    <3> QED
      BY <2>3, <2>4, <3>1, <3>2 DEF Open
  <2>6. Propagate(s, i)
    BY <1>4, <1>9, <2>5 DEF PropagateNowhere
  <2>7. Given(threads[u][f], threads'[u][f], m)
    BY <1>1, <2>3, <2>6, PropagateGives DEF m
  <2>8. threads[u][f].queue \in Seq(Message) /\ m \in Message
    BY <1>1, <1>3, <2>1, <2>3, FeederLink
  <2>9. threads'[u][f].queue # threads[u][f].queue
    BY <2>7, <2>8 DEF Given
  <2> QED
    BY <2>6, <2>9
<1>10. ASSUME s <= t
       PROVE  /\ Sorted(s)'
              /\ m = GetTable => SameFlow(s)
              /\ m # GetTable =>
                   /\ m \in Queued(s) /\ Queued(s)' = Queued(s) \ {m}
                   /\ Taken(s) = {} /\ Taken(s)' = {m}
                   /\ \A n \in Queued(s)' : m < n
  <2>1. s \in 1 .. t
    BY <1>2, <1>10
  <2>2. Fine(s) /\ Sorted(s)
    BY <1>1, <2>1 DEF Flow, Order
  <2>3. m # GetTable => i \in Feeders(s)
    BY <1>1, <1>3, BringsFeeds DEF m, Took
  <2>4. i \in Feeders(s) => Feeders(s) = {i}
    BY <1>2, <2>2, OneFeeder
  <2>5. /\ Sorted(s)'
        /\ i \notin Feeders(s) \/ m = GetTable =>
             Queued(s)' = Queued(s) /\ Taken(s)' = Taken(s)
        /\ i \in Feeders(s) /\ m # GetTable /\ Feeders(s) = {i} =>
             /\ m \in Queued(s) /\ Queued(s)' = Queued(s) \ {m}
             /\ Taken(s) = {} /\ Taken(s)' = {m}
             /\ \A n \in Queued(s)' : m < n
    BY <1>1, <1>3, <1>4, <1>10, <2>2, TookFlow DEF m
  <2> QED
    BY <2>3, <2>4, <2>5 DEF SameFlow
<1>11. ASSUME s > t \/ m = GetTable
       PROVE  Still(t)
  <2> SUFFICES ASSUME NEW u \in 1 .. t
               PROVE  SameFlow(u)
    BY DEF Still
  <2>1. u \in Nat /\ u <= t
    BY Below
  <2>2. CASE u = s
    BY <1>2, <1>10, <1>11, <2>1, <2>2
  <2>3. CASE u # s /\ m = GetTable
    BY <1>8, <2>3
  <2>4. CASE u # s /\ s > t
    <3>1. u # s + 1
      BY <1>2, <2>1, <2>4
    <3> QED
      BY <1>8, <2>4, <3>1
  <2> QED
    BY <1>11, <2>2, <2>3, <2>4
<1>12. ASSUME s <= t, m # GetTable
       PROVE  Moves(t, s, m)
  <2>1. s \in 1 .. t
    BY <1>2, <1>12
  <2>2. ASSUME NEW u \in 1 .. t, u = s + 1
        PROVE  /\ Taken(u)' = Taken(u) /\ Sorted(u)'
               /\ Queued(u)' = IF Feeders(u) = {} THEN Queued(u) ELSE Queued(u) \cup {m}
    <3>1. u # s
      BY <1>2, <2>2
    <3>2. Feeders(u) # {} => threads'[u] # threads[u]
      BY <1>9, <1>12, <2>2
    <3> QED
      BY <1>8, <1>12, <2>2, <3>1, <3>2
  <2>3. \A u \in 1 .. t : u # s /\ u # s + 1 => SameFlow(u)
    BY <1>8
  <2>4. /\ Sorted(s)' /\ m \in Queued(s) /\ Queued(s)' = Queued(s) \ {m}
        /\ Taken(s) = {} /\ Taken(s)' = {m}
        /\ \A n \in Queued(s)' : m < n
    BY <1>10, <1>12
  <2> QED
    BY <1>3, <2>1, <2>2, <2>3, <2>4 DEF Moves
<1> QED
  BY <1>9, <1>11, <1>12 DEF m

LEMMA WriteEnters ==
  ASSUME NEW t \in Server, Going(t), NEW k \in Key, Write(k)
  PROVE  /\ client[1] = 1 /\ Enters(t, Len(keys) + 1)
         /\ \A m \in Coming(t) : m < Len(keys) + 1
<1> DEFINE n == Len(keys) + 1
           i == client[2]
<1>1. /\ JoinInv /\ WriteInv /\ TypeInv /\ ShapeInv
      /\ \A u \in 1 .. t : u \in Server /\ Flow(u) /\ Fine(u) /\ Up(u)
  BY GoingBelow DEF Going, OrderInv, JoinInv
<1>2. t \in 1 .. t /\ 1 \in 1 .. t
  BY Below
<1>3. client[1] = 1
  BY <1>1, <1>2 DEF ShapeInv, Write, Open
<1>4. /\ i \in DOMAIN threads[1] /\ threads[1][i].from = Client
      /\ Only(1, i) /\ Given(threads[1][i], threads'[1][i], n)
      /\ \A u \in Server \ {1} : threads'[u] = threads[u]
      /\ n \in Writes
  BY <1>1, <1>3, WriteGives
<1>5. \A u \in 1 .. t : \A m \in Coming(u) : m < n
  <2>1. keys \in Seq(Key)
    BY <1>1 DEF TypeInv, DataTypes
  <2>2. \A m \in DOMAIN keys : m < n
    BY <2>1
  <2> QED
    BY <1>1, <2>2, ComingKnown
<1>6. i \in Feeders(1)
  BY <1>4 DEF Feeders, Client
<1>7. \A m \in Queued(1) : m < n
  <2>1. 1 \in 1 .. 1
    OBVIOUS
  <2> QED
    BY <1>2, <1>5, <2>1 DEF Coming, Above
<1>8. n \in Message /\ n # GetTable /\ Sorted(1)
  BY <1>1, <1>2, <1>4 DEF Writes, Flow, Order
<1> HIDE DEF n, i
<1>9. /\ Sorted(1)' /\ Taken(1)' = Taken(1) /\ Queued(1)' = Queued(1) \cup {n}
  BY <1>1, <1>2, <1>4, <1>6, <1>7, <1>8, GivenFlow
<1>10. \A u \in 1 .. t : u # 1 => SameFlow(u)
  BY <1>1, <1>4, SameStill
<1>11. Enters(t, n)
  BY <1>4, <1>6, <1>9, <1>10 DEF Enters, n
<1> QED
  BY <1>2, <1>3, <1>5, <1>11 DEF n

LEMMA FlowCases ==
  ASSUME NEW t \in Server, Going(t)
  PROVE  \/ Still(t)
         \/ \E s, m : Moves(t, s, m) \/ Clears(t, s, m)
         \/ \E n : Enters(t, n) /\ \A m \in Coming(t) : m < n
<1>1. t \in Nat /\ [Next]_vars /\ \A s \in Server : s \in Nat
  BY Below DEF Going
<1>2. ASSUME NEW s \in Server, NEW i \in DOMAIN threads[s], clientThread(s, i)
      PROVE  Still(t) \/ \E u, m : Moves(t, u, m) \/ Clears(t, u, m)
  <2>1. s > t \/ s <= t
    BY <1>1
  <2>2. CASE Propagate(s, i) \/ PropagateNowhere(s, i) \/ PropagateFails(s, i)
    BY <2>1, <2>2, TakeMoves
  <2>3. CASE ApplyWrite(s, i)
    BY <2>1, <2>3, ApplyClears
  <2>4. CASE AnswerTable(s, i)
    BY <2>4, OtherStill
  <2> QED
    BY <1>2, <2>2, <2>3, <2>4 DEF clientThread
<1>3. ASSUME NEW k \in Key, Write(k)
      PROVE  \E n : Enters(t, n) /\ \A m \in Coming(t) : m < n
  BY <1>3, WriteEnters
<1> QED
  BY <1>1, <1>2, <1>3, OtherStill, Cases

(* The writes of the servers before u stay in the order in which they were. *)
LEMMA OrderStep ==
  ASSUME NEW t \in Server, Going(t)
  PROVE  Order(t)'
<1>1. /\ JoinInv /\ WriteInv
      /\ \A u \in 1 .. t :
           /\ u \in Server /\ Flow(u) /\ Order(u) /\ Dry(u)
           /\ Feeders(u) \subseteq Feeders(u)'
  BY GoingBelow DEF Going, OrderInv, Flow
<1>2. /\ t \in 1 .. t /\ t \in Nat /\ t >= 1
      /\ \A u \in 1 .. t : u \in Nat /\ u >= 1 /\ u <= t
      /\ t > 1 => t - 1 \in 1 .. t /\ t - 1 # t
      /\ 1 \in 1 .. t
  BY Below
<1>3. \A u \in 1 .. t : \A m \in Own(u) : m \in Nat
  BY <1>1, OwnKnown
<1>4. \A u \in 1 .. t : \A m \in Queued(u) \cup Taken(u) : m \in Nat
  BY <1>3 DEF Own
<1>5. Order(t) /\ Sorted(t) /\ Dry(t)
  BY <1>1, <1>2 DEF Order
<1>6. CASE Still(t)
  <2>1. \A u \in 1 .. t : Queued(u)' = Queued(u) /\ Taken(u)' = Taken(u)
    BY <1>6 DEF Still, SameFlow
  <2>2. Sorted(t)'
    BY <1>2, <1>5, <1>6 DEF Still, SameFlow
  <2>3. Above(t)' = Above(t)
    BY <2>1 DEF Above
  <2>4. Own(t)' = Own(t)
    BY <1>2, <2>1 DEF Own
  <2>5. \A u \in 1 .. t - 1 : u \in 1 .. t
    BY <1>2
  <2> QED
    BY <1>2, <1>5, <2>1, <2>2, <2>3, <2>4, <2>5 DEF Order
<1>7. ASSUME NEW s, NEW m, Clears(t, s, m)
      PROVE  Order(t)'
  <2>1. s \in 1 .. t /\ \A u \in 1 .. t : Queued(u)' = Queued(u)
    BY <1>7 DEF Clears, SameFlow
  <2>2. Sorted(t)'
    BY <1>2, <1>5, <1>7 DEF Clears, SameFlow
  <2>3. Above(t)' = Above(t)
    BY <2>1 DEF Above
  <2>4. \A u \in 1 .. t : Taken(u)' = IF u = s THEN {} ELSE Taken(u)
    BY <1>7 DEF Clears, SameFlow
  <2>5. \A u \in 1 .. t - 1 : u \in 1 .. t
    BY <1>2
  <2>6. ASSUME t > 1, NEW x \in Taken(t - 1)', NEW n \in Own(t)'
        PROVE  n <= x /\ x \in Own(t)'
    <3>1. x \in Taken(t - 1) /\ n \in Own(t)
      BY <1>2, <2>1, <2>4, <2>6 DEF Own
    <3>2. n <= x /\ x \in Own(t)
      BY <1>5, <2>6, <3>1 DEF Order
    <3>3. CASE s = t
      <4>1. n \in Queued(t) /\ Taken(t) = {m} /\ Queued(t)' = Queued(t)
        BY <1>2, <1>7, <2>1, <2>4, <3>3 DEF Own, Clears
      <4>2. n \in Above(t) /\ m \in Taken(t)
        BY <1>2, <4>1 DEF Above
      <4>3. m < n
        BY <1>5, <4>2 DEF Order
      <4>4. m \in Nat /\ n \in Nat /\ x \in Nat
        BY <1>2, <1>3, <1>4, <3>1, <3>2, <4>2
      <4>5. x # m
        BY <3>2, <4>3, <4>4
      <4> QED
        BY <3>2, <4>1, <4>5 DEF Own
    <3>4. CASE s # t
      BY <1>2, <2>1, <2>4, <3>2, <3>4 DEF Own
    <3> QED
      BY <3>3, <3>4
  <2>7. \A x \in Taken(t)', n \in Above(t)' : x < n
    BY <1>2, <1>5, <2>3, <2>4 DEF Order
  <2> QED
    BY <1>2, <1>5, <2>1, <2>2, <2>5, <2>6, <2>7 DEF Order
<1>8. ASSUME NEW n, Enters(t, n), \A x \in Coming(t) : x < n
      PROVE  Order(t)'
  <2>1. /\ \A u \in 1 .. t : Taken(u)' = Taken(u)
        /\ \A u \in 1 .. t : Queued(u)' = IF u = 1 THEN Queued(u) \cup {n} ELSE Queued(u)
    BY <1>8 DEF Enters, SameFlow
  <2>2. Sorted(t)'
    BY <1>2, <1>5, <1>8 DEF Enters, SameFlow
  <2>3. Above(t)' \subseteq Above(t) \cup {n}
    BY <2>1 DEF Above
  <2>4. \A x \in Taken(t)', y \in Above(t)' : x < y
    BY <1>2, <1>5, <1>8, <2>1, <2>3 DEF Order, Coming
  <2>5. t > 1 => Own(t)' = Own(t) /\ Queued(t)' = Queued(t)
    BY <1>2, <2>1 DEF Own
  <2>6. ASSUME NEW u \in 1 .. t - 1, NEW x \in Queued(u)', NEW y \in Queued(t)'
        PROVE  y < x
    <3>1. t > 1 /\ u \in 1 .. t
      BY <1>2
    <3>2. y \in Queued(t) /\ y \in Coming(t) /\ (x \in Queued(u) \/ x = n)
      BY <1>2, <2>1, <2>5, <3>1 DEF Coming, Above
    <3> QED
      BY <1>5, <1>8, <3>2 DEF Order
  <2> QED
    BY <1>2, <1>5, <2>1, <2>2, <2>4, <2>5, <2>6 DEF Order
<1>9. ASSUME NEW s, NEW m, Moves(t, s, m)
      PROVE  Order(t)'
  <2>1. /\ s \in 1 .. t /\ m \in Queued(s) /\ Queued(s)' = Queued(s) \ {m}
        /\ \A n \in Queued(s)' : m < n
        /\ Taken(s) = {} /\ Taken(s)' = {m}
        /\ \A u \in 1 .. t : u # s => Taken(u)' = Taken(u)
        /\ \A u \in 1 .. t : u # s /\ u # s + 1 => Queued(u)' = Queued(u)
        /\ \A u \in 1 .. t : u = s + 1 =>
             Queued(u)' = IF Feeders(u) = {} THEN Queued(u) ELSE Queued(u) \cup {m}
    BY <1>9 DEF Moves, SameFlow
  <2>2. Sorted(t)'
    BY <1>2, <1>5, <1>9 DEF Moves, SameFlow
  <2>3. s \in Nat /\ m \in Nat /\ m \in Above(t) /\ \A u \in 1 .. t : s # s + 1
    BY <1>2, <1>4, <2>1 DEF Above
  <2>4. \A u \in 1 .. t : Queued(u)' \subseteq Queued(u) \cup {m}
    BY <1>2, <2>1
  <2>5. Above(t)' \subseteq Above(t)
    BY <2>3, <2>4 DEF Above
  (* What is further up than s is newer than m. *)
  <2>6. \A u \in 1 .. s - 1 : \A x \in Queued(u) : m < x
    BY <1>1, <2>1 DEF Order
  <2>7. CASE s = t
    <3>1. \A u \in 1 .. t - 1 : u \in 1 .. t /\ u # s /\ u # s + 1
      BY <1>2, <2>7
    <3>2. \A u \in 1 .. t - 1 : Queued(u)' = Queued(u)
      BY <2>1, <3>1
    <3>3. Own(t)' = Own(t)
      BY <2>1, <2>7 DEF Own
    <3>4. t > 1 => Taken(t - 1)' = Taken(t - 1)
      BY <1>2, <2>1, <2>7
    <3>5. ASSUME NEW x \in Above(t)'
          PROVE  m < x
      <4>1. PICK u \in 1 .. t : x \in Queued(u)'
        BY DEF Above
      <4>2. CASE u = t
        BY <2>1, <2>7, <4>1, <4>2
      <4>3. CASE u # t
        <5>1. u \in 1 .. t - 1
          BY <1>2, <4>3
        <5> QED
          BY <2>6, <2>7, <3>2, <4>1, <5>1
      <4> QED
        BY <4>2, <4>3
    <3>6. \A u \in 1 .. t - 1 : \A x \in Queued(u)', n \in Queued(t)' : n < x
      BY <1>5, <2>1, <2>7, <3>2 DEF Order
    <3> QED
      BY <1>5, <2>1, <2>2, <2>7, <3>3, <3>4, <3>5, <3>6 DEF Order
  <2>8. CASE s # t
    <3>1. s < t /\ t > 1 /\ s \in 1 .. t - 1 /\ Taken(t)' = Taken(t)
      BY <1>2, <2>1, <2>3, <2>8
    <3>2. \A x \in Taken(t)', n \in Above(t)' : x < n
      BY <1>5, <2>5, <3>1 DEF Order
    <3>3. \A n \in Queued(t) : n < m
      BY <1>5, <2>1, <3>1 DEF Order
    <3>4. \A u \in 1 .. t - 1 : u \in 1 .. t
      BY <1>2
    <3>5. CASE t # s + 1
      <4>1. Queued(t)' = Queued(t) /\ Own(t)' = Own(t) /\ Taken(t - 1)' = Taken(t - 1)
        BY <1>2, <2>1, <2>3, <2>8, <3>1, <3>5 DEF Own
      <4>2. \A u \in 1 .. t - 1 : \A x \in Queued(u)', n \in Queued(t)' : n < x
        BY <1>5, <2>4, <3>3, <3>4, <4>1 DEF Order
      <4> QED
        BY <1>5, <2>2, <3>2, <4>1, <4>2 DEF Order
    <3>6. CASE t = s + 1 /\ Feeders(t) = {}
      <4>1. Own(t)' = {} /\ Own(t) = {}
        BY <1>2, <1>5, <2>1, <3>1, <3>6 DEF Own, Dry
      <4>2. Queued(t)' = {}
        BY <4>1 DEF Own
      <4> QED
        BY <2>2, <3>2, <4>1, <4>2 DEF Order
    <3>7. CASE t = s + 1 /\ Feeders(t) # {}
      <4>1. Queued(t)' = Queued(t) \cup {m} /\ t - 1 = s /\ Taken(t - 1)' = {m}
        BY <1>2, <2>1, <2>3, <3>7
      <4>2. ASSUME NEW u \in 1 .. t - 1, NEW x \in Queued(u)'
            PROVE  m < x /\ \A n \in Queued(t) : n < x
        <5>1. m < x
          <6>1. CASE u = s
            BY <2>1, <4>2, <6>1
          <6>2. CASE u # s
            <7>1. u \in 1 .. s - 1 /\ u # s + 1 /\ u \in 1 .. t
              BY <1>2, <2>3, <3>4, <4>1, <6>2
            <7> QED
              BY <2>1, <2>6, <4>2, <6>2, <7>1
          <6> QED
            BY <6>1, <6>2
        <5>2. x \in Queued(u)
          <6>1. x \in Nat
            BY <1>4, <2>3, <2>4, <3>4, <4>2
          <6> QED
            BY <2>3, <2>4, <3>4, <4>2, <5>1, <6>1
        <5> QED
          BY <1>5, <5>1, <5>2 DEF Order
      <4>3. \A n \in Own(t)' : n <= m
        <5>1. \A n \in Taken(t) : n < m
          BY <1>5, <2>3 DEF Order
        <5>2. \A n \in Own(t)' : n \in Taken(t) \/ n \in Queued(t) \/ n = m
          BY <3>1, <4>1 DEF Own
        <5> QED
          BY <1>2, <1>4, <2>3, <3>3, <5>1, <5>2
      <4>4. m \in Own(t)'
        BY <4>1 DEF Own
      <4> QED
        BY <2>2, <3>2, <4>1, <4>2, <4>3, <4>4 DEF Order
    <3> QED
      BY <3>5, <3>6, <3>7
  <2> QED
    BY <2>7, <2>8
<1> QED
  BY <1>6, <1>7, <1>8, <1>9, FlowCases

LEMMA ServesOn ==
  ASSUME NEW t \in Server, Going(t), NEW u \in 1 .. t, main[u] = "serve"
  PROVE  main'[u] = "serve"
<1>1. /\ JoinInv /\ main \in [Server -> Places] /\ u \in Server /\ main'[u] # "gone"
      /\ [Next]_vars
  BY GoingBelow DEF Going, JoinInv, TypeInv, NodeTypes
<1>2. ASSUME NEW s \in Server,
             \/ Start(s) \/ ListPrevious(s) \/ GetPrevious(s) \/ Expire(s)
             \/ AskTable(s) \/ CopyTable(s) \/ Rewire(s)
      PROVE  main'[u] = "serve"
  BY <1>1, <1>2 DEF Start, ListPrevious, GetPrevious, Expire, AskTable, CopyTable,
     Rewire, nodevars
<1>3. ASSUME NEW s \in Server, AskFails(s) \/ Crash(s) \/ RewireFails(s)
      PROVE  main'[u] = "serve"
  BY <1>1, <1>3, Ends DEF Stop, JoinInv
<1>4. ASSUME NEW s \in Server, NEW i \in DOMAIN threads[s], clientThread(s, i)
      PROVE  main'[u] = "serve"
  BY <1>4 DEF clientThread, Propagate, PropagateNowhere, PropagateFails, ApplyWrite,
     AnswerTable, nodevars
<1>5. CASE Connect \/ (\E k \in Key : Write(k)) \/ UNCHANGED vars
  BY <1>5 DEF Connect, Write, vars, nodevars
<1> QED
  BY <1>1, <1>2, <1>3, <1>4, <1>5, Cases

(* Nothing passes a server that is not fed or does not serve. *)
LEMMA DryStep ==
  ASSUME NEW t \in Server, Going(t)
  PROVE  Dry(t)'
<1>1. /\ \A u \in 1 .. t :
           /\ Dry(u) /\ Feeders(u) \subseteq Feeders(u)'
           /\ main[u] = "serve" => main'[u] = "serve"
  BY GoingBelow, ServesOn DEF Flow
<1>2. /\ t \in 1 .. t /\ t \in Nat /\ t >= 1
      /\ \A u \in 1 .. t : u \in Nat /\ u >= 1 /\ u <= t
  BY Below
<1> SUFFICES ASSUME NEW u \in 1 .. t,
                    Feeders(u)' = {} \/ (u < t /\ main'[u] # "serve")
             PROVE  Own(t)' = {}
  BY DEF Dry
<1>3. Feeders(u) = {} \/ (u < t /\ main[u] # "serve")
  BY <1>1
<1>4. Own(t) = {} /\ Queued(t) = {} /\ Taken(t) = {}
  BY <1>1, <1>2, <1>3 DEF Dry, Own
<1>5. CASE Still(t)
  BY <1>2, <1>4, <1>5 DEF Still, SameFlow, Own
<1>6. ASSUME NEW s, NEW m, Clears(t, s, m)
      PROVE  Own(t)' = {}
  BY <1>2, <1>4, <1>6 DEF Clears, SameFlow, Own
<1>7. ASSUME NEW n, Enters(t, n)
      PROVE  Own(t)' = {}
  <2>1. t # 1
    <3>1. ASSUME t = 1
          PROVE  FALSE
      <4>1. u = 1 /\ ~ (u < t)
        BY <1>2, <3>1
      <4> QED
        BY <1>3, <1>7, <4>1 DEF Enters
    <3> QED
      BY <3>1
  <2> QED
    BY <1>2, <1>4, <1>7, <2>1 DEF Enters, SameFlow, Own
<1>8. ASSUME NEW s, NEW m, Moves(t, s, m)
      PROVE  Own(t)' = {}
  <2>1. s \in 1 .. t /\ m \in Queued(s) /\ main[s] = "serve" /\ Own(s) # {}
    BY <1>8 DEF Moves, Own
  <2>2. s # t
    BY <1>4, <2>1
  <2>3. s < t
    BY <1>2, <2>1, <2>2
  <2>4. CASE t = s + 1
    <3>1. Feeders(t) = {}
      <4>1. ASSUME u # t, u # s
            PROVE  FALSE
        <5>1. u \in 1 .. s /\ u < s
          BY <1>2, <2>1, <2>4, <4>1
        <5>2. Own(s) = {}
          BY <1>1, <1>3, <2>1, <5>1 DEF Dry
        <5> QED
          BY <2>1, <5>2
      <4>2. ASSUME u = s
            PROVE  FALSE
        <5>1. s \in 1 .. s /\ Feeders(s) = {}
          BY <1>2, <1>3, <2>1, <4>2
        <5>2. Own(s) = {}
          BY <1>1, <2>1, <5>1 DEF Dry
        <5> QED
          BY <2>1, <5>2
      <4>3. u = t
        BY <4>1, <4>2
      <4> QED
        BY <1>2, <1>3, <4>3
    <3>2. Queued(t)' = Queued(t) /\ Taken(t)' = Taken(t)
      BY <1>2, <1>8, <2>4, <3>1 DEF Moves
    <3> QED
      BY <1>4, <3>2 DEF Own
  <2>5. CASE t # s + 1
    BY <1>2, <1>4, <1>8, <2>2, <2>5 DEF Moves, SameFlow, Own
  <2> QED
    BY <2>4, <2>5
<1> QED
  BY <1>5, <1>6, <1>7, <1>8, FlowCases

(* The writes on their way to t stay, but that the oldest arrives, or passes a
   server that does not send on to t, and that the client writes another. *)
LEMMA ComingStep ==
  ASSUME NEW t \in Server, Going(t)
  PROVE  \/ Coming(t)' = Coming(t)
         \/ \E m \in Coming(t) :
              /\ Coming(t)' = Coming(t) \ {m} /\ \A x \in Coming(t) : m <= x
              /\ Clears(t, t, m) \/ \E u \in 1 .. t : Feeders(u) = {}
         \/ \E n : /\ Enters(t, n) /\ Coming(t)' = Coming(t) \cup {n}
                   /\ \A x \in Coming(t) : x < n
<1>1. /\ JoinInv /\ WriteInv
      /\ \A u \in 1 .. t : u \in Server /\ Dry(u) /\ Order(u)
  BY GoingBelow DEF Going, OrderInv, Flow
<1>2. /\ t \in 1 .. t /\ 1 \in 1 .. t /\ t \in Nat /\ t >= 1
      /\ \A u \in 1 .. t : u \in Nat /\ u >= 1 /\ u <= t
  BY Below
<1>3. \A m \in Coming(t) : m \in Nat
  BY <1>1, ComingKnown
<1>4. CASE Still(t)
  <2>1. \A u \in 1 .. t : Queued(u)' = Queued(u) /\ Taken(u)' = Taken(u)
    BY <1>4 DEF Still, SameFlow
  <2> QED
    BY <1>2, <2>1 DEF Coming, Above
<1>5. ASSUME NEW s, NEW m, Clears(t, s, m)
      PROVE  \/ Coming(t)' = Coming(t)
             \/ /\ m \in Coming(t) /\ Coming(t)' = Coming(t) \ {m}
                /\ \A x \in Coming(t) : m <= x
                /\ Clears(t, t, m)
  <2>1. \A u \in 1 .. t : Queued(u)' = Queued(u)
    BY <1>5 DEF Clears, SameFlow
  <2>2. Above(t)' = Above(t)
    BY <2>1 DEF Above
  <2>3. CASE s = t
    <3>1. Taken(t) = {m} /\ Taken(t)' = {}
      BY <1>5, <2>3 DEF Clears
    <3>2. \A x \in Above(t) : m < x
      BY <1>1, <1>2, <3>1 DEF Order
    <3>3. m \in Coming(t) /\ m \in Nat
      BY <1>3, <3>1 DEF Coming
    <3>4. m \notin Above(t)
      BY <3>2, <3>3
    <3>5. \A x \in Coming(t) : m <= x
      BY <1>3, <3>1, <3>2, <3>3 DEF Coming
    <3> QED
      BY <1>5, <2>2, <2>3, <3>1, <3>3, <3>4, <3>5 DEF Coming
  <2>4. CASE s # t
    <3>1. Taken(t)' = Taken(t)
      BY <1>2, <1>5, <2>4 DEF Clears, SameFlow
    <3> QED
      BY <2>2, <3>1 DEF Coming
  <2> QED
    BY <2>3, <2>4
<1>6. ASSUME NEW n, Enters(t, n)
      PROVE  Coming(t)' = Coming(t) \cup {n}
  <2>1. \A u \in 1 .. t :
          /\ Taken(u)' = Taken(u)
          /\ Queued(u)' = IF u = 1 THEN Queued(u) \cup {n} ELSE Queued(u)
    BY <1>6 DEF Enters, SameFlow
  <2>2. Above(t)' = Above(t) \cup {n}
    BY <1>2, <2>1 DEF Above
  <2> QED
    BY <1>2, <2>1, <2>2 DEF Coming
<1>7. ASSUME NEW s, NEW m, Moves(t, s, m)
      PROVE  \/ Coming(t)' = Coming(t)
             \/ /\ m \in Coming(t) /\ Coming(t)' = Coming(t) \ {m}
                /\ \A x \in Coming(t) : m <= x
                /\ \E u \in 1 .. t : Feeders(u) = {}
  <2>1. /\ s \in 1 .. t /\ m \in Queued(s) /\ Queued(s)' = Queued(s) \ {m}
        /\ \A n \in Queued(s)' : m < n
        /\ Taken(s) = {} /\ Taken(s)' = {m}
        /\ \A u \in 1 .. t : u # s => Taken(u)' = Taken(u)
        /\ \A u \in 1 .. t : u # s /\ u # s + 1 => Queued(u)' = Queued(u)
        /\ \A u \in 1 .. t : u = s + 1 =>
             Queued(u)' = IF Feeders(u) = {} THEN Queued(u) ELSE Queued(u) \cup {m}
    BY <1>7 DEF Moves, SameFlow
  <2>2. s \in Nat /\ s # s + 1 /\ m \in Above(t) /\ m \in Nat
    BY <1>2, <1>3, <2>1 DEF Coming, Above
  <2>3. \A u \in 1 .. t : Queued(u)' \subseteq Queued(u) \cup {m}
    BY <1>2, <2>1
  <2>4. \A u \in 1 .. t : Queued(u) \subseteq Queued(u)' \cup {m}
    BY <1>2, <2>1
  <2>5. Above(t)' \subseteq Above(t) /\ Above(t) \subseteq Above(t)' \cup {m}
    BY <2>2, <2>3, <2>4 DEF Above
  <2>6. CASE s = t
    <3>1. Taken(t)' = {m} /\ Taken(t) = {}
      BY <2>1, <2>6
    <3> QED
      BY <2>2, <2>5, <3>1 DEF Coming
  <2>7. CASE s # t
    <3>1. s + 1 \in 1 .. t /\ Taken(t)' = Taken(t)
      BY <1>2, <2>1, <2>2, <2>7
    <3>2. CASE Feeders(s + 1) # {}
      <4>1. m \in Queued(s + 1)'
        BY <2>1, <3>1, <3>2
      <4>2. m \in Above(t)'
        BY <3>1, <4>1 DEF Above
      <4> QED
        BY <2>2, <2>5, <3>1, <4>2 DEF Coming
    <3>3. CASE Feeders(s + 1) = {}
      <4>1. \A u \in s + 1 .. t : Own(u) = {}
        <5>1. ASSUME NEW u \in s + 1 .. t
              PROVE  Own(u) = {}
          <6>1. u \in 1 .. t /\ s + 1 \in 1 .. u
            BY <1>2, <2>2, <3>1
          <6> QED
            BY <1>1, <3>3, <6>1 DEF Dry
        <5> QED
          BY <5>1
      <4>2. Taken(t) = {} /\ \A u \in s + 1 .. t : Queued(u) = {}
        <5>1. t \in s + 1 .. t
          BY <1>2, <2>2, <3>1
        <5> QED
          BY <4>1, <5>1 DEF Own
      <4>3. ASSUME NEW u \in 1 .. t, NEW x \in Queued(u)
            PROVE  m < x \/ (x = m /\ u = s)
        <5>1. CASE u = s
          BY <2>1, <4>3, <5>1
        <5>2. CASE u # s
          <6>1. u \in 1 .. s - 1 \/ u \in s + 1 .. t
            BY <1>2, <2>2, <5>2
          <6> QED
            BY <1>1, <2>1, <4>2, <4>3, <6>1 DEF Order
        <5> QED
          BY <5>1, <5>2
      <4>4. m \notin Above(t)'
        <5>1. ASSUME NEW u \in 1 .. t
              PROVE  m \notin Queued(u)'
          <6>1. CASE u = s
            BY <2>1, <6>1
          <6>2. CASE u # s
            <7>1. Queued(u)' = Queued(u)
              BY <2>1, <3>3, <6>2
            <7> QED
              BY <2>2, <4>3, <6>2, <7>1
          <6> QED
            BY <6>1, <6>2
        <5> QED
          BY <5>1 DEF Above
      <4>5. \A x \in Coming(t) : m <= x
        <5>1. \A x \in Above(t) : m < x \/ x = m
          BY <4>3 DEF Above
        <5> QED
          BY <1>3, <2>2, <4>2, <5>1 DEF Coming
      <4> QED
        BY <2>2, <2>5, <3>1, <3>3, <4>2, <4>4, <4>5 DEF Coming
    <3> QED
      BY <3>2, <3>3
  <2> QED
    BY <2>6, <2>7
<1> QED
  BY <1>4, <1>5, <1>6, <1>7, FlowCases
-----------------------------------------------------------------------------
(* What the servers hold, and what they were sent. *)
LEMMA Values ==
  ASSUME NEW t \in Server, Going(t)
  PROVE  /\ newest[t] \in [Key -> Message] /\ newest'[t] \in [Key -> Message]
         /\ table[t] \in [Key -> Message] /\ table'[t] \in [Key -> Message]
         /\ copy[t] \in [Key -> Message] \cup {NoCopy}
         /\ \A m \in Message : m \in Nat
         /\ \A k \in Key :
              /\ newest[t][k] # 0 => newest[t][k] \in DOMAIN keys /\ keys[newest[t][k]] = k
              /\ newest'[t][k] # 0 => newest'[t][k] \in DOMAIN keys' /\ keys'[newest'[t][k]] = k
              /\ table[t][k] # 0 => table[t][k] \in DOMAIN keys /\ keys[table[t][k]] = k
              /\ copy[t] # NoCopy /\ copy[t][k] # 0 =>
                   copy[t][k] \in DOMAIN keys /\ keys[copy[t][k]] = k
<1>1. JoinInv /\ JoinInv' /\ LabelInv /\ LabelInv'
  BY DEF Going, OrderInv, WriteInv
<1>2. /\ newest[t] \in [Key -> Message] /\ table[t] \in [Key -> Message]
      /\ copy[t] \in [Key -> Message] \cup {NoCopy}
  BY <1>1 DEF LabelInv, JoinInv, TypeInv, DataTypes
<1>3. newest'[t] \in [Key -> Message] /\ table'[t] \in [Key -> Message]
  BY <1>1 DEF LabelInv, JoinInv, TypeInv, DataTypes
<1>4. \A m \in Message : m \in Nat
  BY JoinAssumption DEF Message
<1>5. /\ Labelled(newest[t], keys) /\ Labelled(table[t], keys)
      /\ copy[t] # NoCopy => Labelled(copy[t], keys)
      /\ Labelled(newest'[t], keys')
  BY <1>1 DEF LabelInv
<1> QED
  BY <1>2, <1>3, <1>4, <1>5 DEF Labelled

LEMMA SoundOn ==
  ASSUME NEW t \in Server, Going(t), NEW w \in Nat, w # 0 => w \in DOMAIN keys,
         Sound(t, w)
  PROVE  Sound(t, w)'
<1>1. JoinInv /\ WriteInv /\ keys \in Seq(Key)
  BY DEF Going, OrderInv, JoinInv, TypeInv, DataTypes
<1>2. \A x \in Coming(t) : x \in Nat
  BY <1>1, ComingKnown
<1>3. CASE Coming(t)' = Coming(t)
  BY <1>3 DEF Sound
<1>4. ASSUME NEW m \in Coming(t), Coming(t)' = Coming(t) \ {m},
             \A x \in Coming(t) : m <= x
      PROVE  Sound(t, w)'
  BY <1>2, <1>4 DEF Sound
<1>5. ASSUME NEW n, Enters(t, n), Coming(t)' = Coming(t) \cup {n}
      PROVE  Sound(t, w)'
  <2>1. n = Len(keys) + 1
    BY <1>5 DEF Enters
  <2>2. ~ (n < w)
    BY <1>1, <2>1
  <2> QED
    BY <1>5, <2>2 DEF Sound
<1> QED
  BY <1>3, <1>4, <1>5, ComingStep

(* What a server has been sent grows, and what is new of it waits there. *)
LEMMA NewestStep ==
  ASSUME NEW t \in Server, Going(t), ~ CopyTable(t)
  PROVE  /\ \A k \in Key :
              \/ newest'[t][k] = newest[t][k]
              \/ /\ newest'[t][k] \in Queued(t)' /\ newest'[t][k] >= newest[t][k]
                 /\ t > 1 => newest'[t][k] \in Queued(t - 1)
         /\ \A m \in Own(t)' \ Own(t) : m <= newest'[t][keys'[m]]
<1>1. /\ JoinInv /\ WriteInv /\ LabelInv /\ CarryInv /\ [Next]_vars /\ t \in 1 .. t /\ t \in Nat
      /\ newest \in [Server -> [Key -> Message]]
      /\ main'[t] # "gone"
  BY GoingBelow, Below DEF Going, OrderInv, WriteInv, LabelInv
<1>2. ASSUME newest'[t] = newest[t], Still(t)
      PROVE  /\ \A k \in Key : newest'[t][k] = newest[t][k]
             /\ Own(t)' = Own(t)
  BY <1>1, <1>2 DEF Still, SameFlow, Own
<1>3. ASSUME NEW s \in Server,
             \/ Start(s) \/ ListPrevious(s) \/ GetPrevious(s) \/ Expire(s)
             \/ AskTable(s) \/ CopyTable(s) \/ Rewire(s)
      PROVE  newest'[t] = newest[t] /\ Still(t)
  <2>1. newest'[t] = newest[t]
    BY <1>1, <1>3 DEF Start, ListPrevious, GetPrevious, Expire, AskTable, CopyTable,
       Rewire, history
  <2> QED
    BY <1>3, <2>1, OtherStill
<1>4. ASSUME NEW s \in Server, AskFails(s) \/ Crash(s) \/ RewireFails(s)
      PROVE  newest'[t] = newest[t] /\ Still(t)
  <2>1. Stop(s)
    BY <1>1, <1>4, Ends DEF JoinInv
  <2>2. newest'[t] = newest[t]
    BY <1>1, <2>1 DEF Stop, JoinInv, TypeInv, NodeTypes
  <2> QED
    BY <1>4, <2>2, OtherStill
<1>5. CASE Connect \/ UNCHANGED vars
  <2>1. newest'[t] = newest[t]
    BY <1>5 DEF Connect, vars, history
  <2> QED
    BY <1>2, <1>5, <2>1, OtherStill
<1>6. ASSUME NEW s \in Server, NEW i \in DOMAIN threads[s], AnswerTable(s, i)
      PROVE  newest'[t] = newest[t] /\ Still(t)
  BY <1>6, OtherStill DEF AnswerTable
<1>7. ASSUME NEW s \in Server, NEW i \in DOMAIN threads[s], ApplyWrite(s, i)
      PROVE  newest'[t] = newest[t] /\ Own(t)' \subseteq Own(t)
  <2>1. newest' = newest
    BY <1>7 DEF ApplyWrite, history
  <2>2. Still(t) \/ \E m : Clears(t, s, m)
    <3>1. s \in Nat
      BY Below
    <3>2. s > t \/ s <= t
      BY <1>1, <3>1
    <3> QED
      BY <1>7, <3>2, ApplyClears
  <2>3. Own(t)' \subseteq Own(t)
    BY <1>1, <2>2 DEF Still, Clears, SameFlow, Own
  <2> QED
    BY <2>1, <2>3
<1>8. ASSUME NEW k \in Key, Write(k)
      PROVE  /\ \A l \in Key :
                  \/ newest'[t][l] = newest[t][l]
                  \/ /\ newest'[t][l] \in Queued(t)' /\ newest'[t][l] >= newest[t][l]
                     /\ t > 1 => newest'[t][l] \in Queued(t - 1)
             /\ \A m \in Own(t)' \ Own(t) : m <= newest'[t][keys'[m]]
  <2> DEFINE n == Len(keys) + 1
  <2>1. client[1] = 1 /\ Enters(t, n)
    BY <1>8, WriteEnters
  <2>2. keys' = Append(keys, k) /\ newest' = [newest EXCEPT ![client[1]][k] = n]
    BY <1>8 DEF Write
  <2>3. keys \in Seq(Key) /\ n \in Nat
    BY <1>1 DEF JoinInv, TypeInv, DataTypes
  <2>4. keys'[n] = k
    BY <2>2, <2>3
  <2>5. \A l \in Key : newest[t][l] \in Nat /\ newest[t][l] <= n
    <3>1. ASSUME NEW l \in Key
          PROVE  newest[t][l] \in Nat /\ newest[t][l] <= n
      <4>1. newest[t][l] \in Nat /\ (newest[t][l] # 0 => newest[t][l] \in DOMAIN keys)
        BY Values
      <4> QED
        BY <2>3, <4>1
    <3> QED
      BY <3>1
  <2> HIDE DEF n
  <2>6. CASE t = 1
    <3>1. newest'[1] = [newest[1] EXCEPT ![k] = n]
      BY <1>1, <2>1, <2>2, <2>6
    <3>2. \A l \in Key : newest'[1][l] = IF l = k THEN n ELSE newest[1][l]
      BY <1>1, <2>6, <3>1
    <3>3. Queued(1)' = Queued(1) \cup {n} /\ Own(1)' = Own(1) \cup {n}
      BY <2>1 DEF Enters, Own
    <3>4. newest'[1][k] = n /\ \A m \in Own(1)' \ Own(1) : m = n
      BY <3>2, <3>3
    <3> QED
      BY <2>3, <2>4, <2>5, <2>6, <3>2, <3>3, <3>4
  <2>7. CASE t # 1
    <3>1. newest'[t] = newest[t]
      BY <1>1, <2>1, <2>2, <2>7
    <3>2. Own(t)' = Own(t)
      BY <1>1, <2>1, <2>7 DEF Enters, SameFlow, Own
    <3> QED
      BY <3>1, <3>2
  <2> QED
    BY <2>6, <2>7
<1>9. ASSUME NEW s \in Server, NEW i \in DOMAIN threads[s],
             PropagateNowhere(s, i) \/ PropagateFails(s, i)
      PROVE  newest'[t] = newest[t] /\ Own(t)' \subseteq Own(t)
  <2> DEFINE m == Head(threads[s][i].queue)
  <2>1. newest' = newest /\ ~ Propagate(s, i)
    BY <1>9 DEF PropagateNowhere, PropagateFails, Propagate, takes, history
  <2>2. s \in Nat
    BY Below
  <2>3. CASE s > t \/ m = GetTable
    <3>1. Still(t)
      BY <1>9, <2>3, TakeMoves
    <3> QED
      BY <1>2, <2>1, <3>1
  <2>4. CASE s <= t /\ m # GetTable
    <3>1. Moves(t, s, m) /\ (t = s + 1 => Feeders(t) = {})
      BY <1>1, <1>9, <2>1, <2>4, TakeMoves
    <3> HIDE DEF m
    <3>2. CASE t = s
      BY <2>1, <3>1, <3>2 DEF Moves, Own
    <3>3. CASE t = s + 1
      <4>1. Queued(t)' = Queued(t) /\ Taken(t)' = Taken(t)
        BY <1>1, <3>1, <3>3 DEF Moves
      <4> QED
        BY <2>1, <4>1 DEF Own
    <3>4. CASE t # s /\ t # s + 1
      BY <1>1, <2>1, <3>1, <3>4 DEF Moves, SameFlow, Own
    <3> QED
      BY <3>2, <3>3, <3>4
  <2> QED
    BY <1>1, <2>2, <2>3, <2>4
<1>10. ASSUME NEW s \in Server, NEW i \in DOMAIN threads[s], Propagate(s, i)
       PROVE  /\ \A l \in Key :
                   \/ newest'[t][l] = newest[t][l]
                   \/ /\ newest'[t][l] \in Queued(t)' /\ newest'[t][l] >= newest[t][l]
                      /\ t > 1 => newest'[t][l] \in Queued(t - 1)
              /\ \A m \in Own(t)' \ Own(t) : m <= newest'[t][keys'[m]]
  <2> DEFINE m == Head(threads[s][i].queue)
             e == next[s][1]
             j == next[s][2]
  <2>1. /\ next[s] # Nowhere /\ e \in Server /\ s < e
        /\ j \in DOMAIN threads[e] /\ threads[e][j].from = s
    BY <1>1, <1>10, PropagateGives
  <2>2. /\ m = GetTable => newest' = newest
        /\ m # GetTable =>
             /\ m \in DOMAIN keys /\ keys[m] \in Key /\ m \in Writes
             /\ newest[e][keys[m]] \in Nat
             /\ newest' = [newest EXCEPT ![e] = newest'[e]]
             /\ newest'[e] = [newest[e] EXCEPT ![keys[m]] = IF @ >= m THEN @ ELSE m]
    BY <1>1, <1>10, SentLabels
  <2>3. keys' = keys
    BY <1>10 DEF Propagate, clivars
  <2>4. s \in Nat /\ e \in Nat
    BY <2>1, Below
  <2>5. s > t \/ m = GetTable => Still(t)
    BY <1>10, TakeMoves
  <2>6. s <= t /\ m # GetTable => Moves(t, s, m)
    BY <1>10, TakeMoves
  <2>7. j \in Feeders(e)
    BY <2>1 DEF Feeders
  <2> HIDE DEF m, e, j
  <2>8. CASE m = GetTable
    <3>1. newest'[t] = newest[t] /\ Still(t)
      BY <2>2, <2>5, <2>8
    <3> QED
      BY <1>2, <3>1
  <2>9. CASE m # GetTable /\ e # t
    <3>1. newest'[t] = newest[t]
      BY <1>1, <2>1, <2>2, <2>9
    <3>2. CASE s > t
      BY <1>2, <2>5, <3>1, <3>2
    <3>3. CASE s <= t
      <4>1. t # s + 1
        <5>1. ASSUME t = s + 1
              PROVE  FALSE
          <6>1. t > 1 /\ t - 1 = s /\ Up(t)
            BY <1>1, <2>4, <5>1, Below, GoingBelow
          <6>2. next[t - 1] # Nowhere => next[t - 1][1] = t
            BY <6>1 DEF Going, OrderInv, ShapeInv
          <6> QED
            BY <2>1, <2>9, <6>1, <6>2 DEF e
        <5> QED
          BY <5>1
      <4>2. Own(t)' = Own(t)
        <5>1. CASE s = t
          BY <2>6, <2>9, <3>3, <5>1 DEF Moves, Own
        <5>2. CASE s # t
          BY <1>1, <2>6, <2>9, <3>3, <4>1, <5>2 DEF Moves, SameFlow, Own
        <5> QED
          BY <5>1, <5>2
      <4> QED
        BY <3>1, <4>2
    <3> QED
      BY <1>1, <2>4, <3>2, <3>3
  <2>10. CASE m # GetTable /\ e = t
    <3>1. t = s + 1 /\ t > 1
      <4>1. s + 1 \in 1 .. t /\ s + 1 > 1 /\ (s + 1) - 1 = s
        BY <1>1, <2>1, <2>4, <2>10, Below
      <4>2. s + 1 \in Server /\ Up(s + 1)
        BY <4>1, GoingBelow
      <4>3. \A r \in Server : r > 1 /\ Up(r) /\ next[r - 1] # Nowhere => next[r - 1][1] = r
        BY DEF Going, OrderInv, ShapeInv
      <4>4. next[s][1] = s + 1
        BY <2>1, <4>1, <4>2, <4>3
      <4> QED
        BY <2>10, <4>1, <4>4 DEF e
    <3>2. t - 1 = s /\ s <= t /\ m \in Nat
      BY <1>1, <2>2, <2>4, <2>10, <3>1, JoinAssumption DEF Writes, Message
    <3>3. /\ m \in Queued(s) /\ Queued(t)' = Queued(t) \cup {m}
          /\ Taken(t)' = Taken(t)
      BY <1>1, <2>6, <2>7, <2>10, <3>1, <3>2 DEF Moves
    <3>4. newest[t] \in [Key -> Message]
          /\ newest'[t] = [newest[t] EXCEPT ![keys[m]] = IF @ >= m THEN @ ELSE m]
      BY <1>1, <2>2, <2>10
    <3>5. \A l \in Key : newest'[t][l] = IF l = keys[m] /\ ~ (newest[t][l] >= m)
                                         THEN m ELSE newest[t][l]
      BY <2>2, <2>10, <3>4
    <3>6. newest[t][keys[m]] \in Nat
      BY <2>2, <2>10
    <3>7. newest'[t][keys[m]] >= m
      BY <2>2, <2>10, <3>2, <3>5, <3>6
    <3>8. Own(t)' = Own(t) \cup {m}
      BY <3>3 DEF Own
    <3>9. ASSUME NEW l \in Key, newest'[t][l] # newest[t][l]
          PROVE  /\ newest'[t][l] \in Queued(t)' /\ newest'[t][l] >= newest[t][l]
                 /\ newest'[t][l] \in Queued(t - 1)
      BY <3>2, <3>3, <3>5, <3>6, <3>9
    <3>10. \A x \in Own(t)' \ Own(t) : x <= newest'[t][keys'[x]]
      BY <2>3, <3>2, <3>6, <3>7, <3>8
    <3> QED
      BY <3>9, <3>10
  <2> QED
    BY <2>8, <2>9, <2>10
<1> QED
  BY <1>1, <1>2, <1>3, <1>4, <1>5, <1>6, <1>7, <1>8, <1>9, <1>10, Cases DEF clientThread

LEMMA TableStep ==
  ASSUME NEW t \in Server, Going(t), ~ CopyTable(t),
         \A i \in DOMAIN threads[t] : ~ ApplyWrite(t, i)
  PROVE  /\ table'[t] = table[t]
         /\ Taken(t) # {} => Taken(t)' # {}
<1>1. /\ JoinInv /\ [Next]_vars /\ t \in 1 .. t /\ t \in Nat
      /\ table \in [Server -> [Key -> Message]]
      /\ main'[t] # "gone"
  BY GoingBelow, Below DEF Going, JoinInv, TypeInv, DataTypes
<1>2. Still(t) => Taken(t)' = Taken(t)
  BY <1>1 DEF Still, SameFlow
<1>3. ASSUME NEW s \in Server,
             \/ Start(s) \/ ListPrevious(s) \/ GetPrevious(s) \/ Expire(s)
             \/ AskTable(s) \/ CopyTable(s) \/ Rewire(s)
      PROVE  table'[t] = table[t] /\ Still(t)
  <2>1. table'[t] = table[t]
    BY <1>1, <1>3 DEF Start, ListPrevious, GetPrevious, Expire, AskTable, CopyTable,
       Rewire, datavars
  <2> QED
    BY <1>3, <2>1, OtherStill
<1>4. ASSUME NEW s \in Server, AskFails(s) \/ Crash(s) \/ RewireFails(s)
      PROVE  table'[t] = table[t] /\ Still(t)
  <2>1. Stop(s)
    BY <1>1, <1>4, Ends DEF JoinInv
  <2>2. table'[t] = table[t]
    BY <1>1, <2>1 DEF Stop, JoinInv, TypeInv, NodeTypes
  <2> QED
    BY <1>4, <2>2, OtherStill
<1>5. CASE Connect \/ UNCHANGED vars
  <2>1. table'[t] = table[t]
    BY <1>5 DEF Connect, vars, datavars
  <2> QED
    BY <1>2, <1>5, <2>1, OtherStill
<1>6. ASSUME NEW s \in Server, NEW i \in DOMAIN threads[s], AnswerTable(s, i)
      PROVE  table'[t] = table[t] /\ Still(t)
  BY <1>6, OtherStill DEF AnswerTable
<1>7. ASSUME NEW s \in Server, NEW i \in DOMAIN threads[s], ApplyWrite(s, i)
      PROVE  table'[t] = table[t] /\ Taken(t)' = Taken(t)
  <2>1. s # t
    BY <1>7
  <2>2. table'[t] = table[t]
    BY <1>1, <1>7, <2>1 DEF ApplyWrite
  <2>3. s \in Nat
    BY Below
  <2>4. Still(t) \/ \E m : Clears(t, s, m)
    <3>1. s > t \/ s <= t
      BY <1>1, <2>3
    <3> QED
      BY <1>7, <3>1, ApplyClears
  <2>5. Taken(t)' = Taken(t)
    BY <1>1, <1>2, <2>1, <2>4 DEF Clears, SameFlow
  <2> QED
    BY <2>2, <2>5
<1>8. ASSUME NEW k \in Key, Write(k)
      PROVE  table'[t] = table[t] /\ Taken(t)' = Taken(t)
  <2>1. Enters(t, Len(keys) + 1)
    BY <1>8, WriteEnters
  <2>2. Taken(t)' = Taken(t)
    BY <1>1, <2>1 DEF Enters, SameFlow
  <2> QED
    BY <1>8, <2>2 DEF Write, datavars
<1>9. ASSUME NEW s \in Server, NEW i \in DOMAIN threads[s],
             Propagate(s, i) \/ PropagateNowhere(s, i) \/ PropagateFails(s, i)
      PROVE  table'[t] = table[t] /\ (Taken(t) # {} => Taken(t)' # {})
  <2>1. table' = table
    BY <1>9 DEF Propagate, PropagateNowhere, PropagateFails, datavars
  <2>2. s \in Nat
    BY Below
  <2>3. Still(t) \/ \E m : Moves(t, s, m)
    <3>1. s > t \/ s <= t
      BY <1>1, <2>2
    <3> QED
      BY <1>9, <3>1, TakeMoves
  <2>4. Taken(t) # {} => Taken(t)' # {}
    BY <1>1, <1>2, <2>3 DEF Moves, SameFlow
  <2> QED
    BY <2>1, <2>4
<1> QED
  BY <1>1, <1>2, <1>3, <1>4, <1>5, <1>6, <1>7, <1>8, <1>9, Cases DEF clientThread

(* A server that is sent a write, or nothing. *)
LEMMA HoldSent ==
  ASSUME NEW t \in Server, Going(t), ~ CopyTable(t),
         \A i \in DOMAIN threads[t] : ~ ApplyWrite(t, i)
  PROVE  Holding(t)'
<1>1. /\ JoinInv /\ WriteInv /\ t \in 1 .. t /\ t \in Nat /\ Holding(t)
      /\ \A u \in 1 .. t : u \in Server /\ Feeders(u) \subseteq Feeders(u)'
  BY GoingBelow, Below DEF Going, OrderInv, Flow
<1>2. table'[t] = table[t] /\ (Taken(t) # {} => Taken(t)' # {})
  BY TableStep
<1>3. \A k \in Key :
        \/ newest'[t][k] = newest[t][k]
        \/ newest'[t][k] \in Queued(t)' /\ newest'[t][k] >= newest[t][k]
  BY NewestStep
<1>4. \A m \in Own(t)' \ Own(t) : m <= newest'[t][keys'[m]]
  BY NewestStep
<1>5. /\ newest[t] \in [Key -> Message] /\ newest'[t] \in [Key -> Message]
      /\ table[t] \in [Key -> Message]
      /\ \A k \in Key :
           /\ newest[t][k] \in Nat /\ newest'[t][k] \in Nat /\ table[t][k] \in Nat
           /\ newest[t][k] # 0 => newest[t][k] \in DOMAIN keys
  BY Values
<1>6. Queued(t)' \subseteq Own(t)' /\ Own(t)' \subseteq Coming(t)'
  BY <1>1 DEF Own, Coming, Above
<1>7. \A m \in DOMAIN keys : keys'[m] = keys[m]
  BY KeysGrow DEF Going
<1>8. ASSUME NEW u \in 1 .. t, Feeders(u)' = {}
      PROVE  table'[t] = newest'[t]
  <2>1. Own(t)' = {}
    BY <1>8, DryStep DEF Dry
  <2>2. \A k \in Key : newest'[t][k] = newest[t][k]
    BY <1>3, <1>6, <2>1
  <2>3. newest'[t] = newest[t]
    BY <1>5, <2>2
  <2>4. Feeders(u) = {}
    BY <1>1, <1>8
  <2> QED
    BY <1>1, <1>2, <2>3, <2>4 DEF Holding
<1>9. ASSUME NEW m \in Own(t)'
      PROVE  m <= newest'[t][keys'[m]]
  <2>1. CASE m \notin Own(t)
    BY <1>4, <1>9, <2>1
  <2>2. CASE m \in Own(t)
    <3>1. m \in Nat /\ m \in DOMAIN keys /\ keys[m] \in Key
      BY <1>1, <2>2, OwnKnown
    <3>2. m <= newest[t][keys[m]]
      BY <1>1, <2>2 DEF Holding
    <3>3. newest[t][keys[m]] <= newest'[t][keys[m]]
      BY <1>3, <1>5, <3>1
    <3>4. newest[t][keys[m]] \in Nat /\ newest'[t][keys[m]] \in Nat /\ keys'[m] = keys[m]
      BY <1>5, <1>7, <3>1
    <3> QED
      BY <3>1, <3>2, <3>3, <3>4
  <2> QED
    BY <2>1, <2>2
<1>10. ASSUME NEW k \in Key
       PROVE  /\ Sound(t, newest[t][k])'
              /\ table'[t][k] # newest'[t][k] => newest'[t][k] \in Coming(t)'
              /\ table'[t][k] <= newest'[t][k]
  <2> DEFINE w == newest[t][k]
  <2>1. Sound(t, w) /\ (table[t][k] # w => w \in Coming(t)) /\ table[t][k] <= w
    BY <1>1 DEF Holding
  <2>2. w \in Nat /\ newest'[t][k] \in Nat /\ table[t][k] \in Nat /\ (w # 0 => w \in DOMAIN keys)
    BY <1>5
  <2>3. \A x \in Coming(t)' : x < w => w \in Coming(t)'
    <3>1. ASSUME NEW v \in Nat, v # 0 => v \in DOMAIN keys, Sound(t, v)
          PROVE  \A x \in Coming(t)' : x < v => v \in Coming(t)'
      BY <3>1, SoundOn DEF Sound
    <3> QED
      BY <2>1, <2>2, <3>1
  <2>4. CASE newest'[t][k] \in Queued(t)' /\ newest'[t][k] >= w
    <3>1. newest'[t][k] \in Coming(t)'
      BY <1>6, <2>4
    <3>2. table'[t][k] <= newest'[t][k]
      BY <1>2, <2>1, <2>2, <2>4
    <3> QED
      BY <3>1, <3>2 DEF Sound
  <2>5. CASE newest'[t][k] = w
    <3>1. ASSUME table[t][k] # w
          PROVE  w \in Coming(t)'
      <4>1. w \in Coming(t)
        BY <2>1, <3>1
      <4>2. ASSUME NEW m \in Coming(t), Coming(t)' = Coming(t) \ {m},
                   Clears(t, t, m) \/ \E u \in 1 .. t : Feeders(u) = {}
            PROVE  FALSE
        <5>1. ~ Clears(t, t, m)
          BY <1>2 DEF Clears
        <5>2. table[t] = newest[t]
          BY <1>1, <4>2, <5>1 DEF Holding
        <5> QED
          BY <3>1, <5>2
      <4> QED
        BY <4>1, <4>2, ComingStep
    <3> QED
      BY <1>2, <2>1, <2>3, <2>5, <3>1 DEF Sound
  <2> QED
    BY <1>3, <2>4, <2>5
<1> QED
  BY <1>8, <1>9, <1>10 DEF Holding

(* A server that applies a write. *)
LEMMA HoldApply ==
  ASSUME NEW t \in Server, Going(t), NEW i \in DOMAIN threads[t], ApplyWrite(t, i)
  PROVE  Holding(t)'
<1> DEFINE m == threads[t][i].msg
<1>1. /\ JoinInv /\ WriteInv /\ t \in 1 .. t /\ t \in Nat /\ Holding(t)
      /\ \A u \in 1 .. t : u \in Server /\ Feeders(u) \subseteq Feeders(u)' /\ Dry(u)
      /\ table \in [Server -> [Key -> Message]]
  BY GoingBelow, Below DEF Going, OrderInv, Flow, JoinInv, TypeInv, DataTypes
<1>2. Clears(t, t, m)
  <2>1. t <= t
    BY <1>1
  <2> QED
    BY <2>1, ApplyClears
<1>3. /\ table' = [table EXCEPT ![t][keys[m]] = m] /\ newest' = newest /\ keys' = keys
  BY DEF ApplyWrite, history
<1> HIDE DEF m
<1>4. Taken(t) = {m} /\ Own(t)' \subseteq Own(t) /\ m \in Own(t) /\ m \in Coming(t)
  BY <1>2 DEF Clears, Own, Coming
<1>5. m \in Nat /\ m # 0 /\ keys[m] \in Key
  BY <1>1, <1>4, OwnKnown
<1>6. \A k \in Key :
        /\ table'[t][k] = IF k = keys[m] THEN m ELSE table[t][k]
        /\ newest[t][k] \in Nat /\ table[t][k] \in Nat
        /\ newest[t][k] # 0 => newest[t][k] \in DOMAIN keys /\ keys[newest[t][k]] = k
  BY <1>1, <1>3, Values
<1>7. \A x \in Coming(t) : x \in Coming(t)' \/ x = m
  <2>1. \A u \in 1 .. t : Queued(u)' = Queued(u)
    BY <1>2 DEF Clears, SameFlow
  <2> QED
    BY <1>4, <2>1 DEF Coming, Above
<1>8. \A u \in 1 .. t : Feeders(u)' # {}
  BY <1>1, <1>4 DEF Dry
<1>9. \A x \in Own(t)' : x <= newest'[t][keys'[x]]
  BY <1>1, <1>3, <1>4 DEF Holding
<1>10. ASSUME NEW k \in Key
       PROVE  /\ Sound(t, newest[t][k])'
              /\ table'[t][k] # newest'[t][k] => newest'[t][k] \in Coming(t)'
              /\ table'[t][k] <= newest'[t][k]
  <2> DEFINE w == newest[t][k]
  <2>1. Sound(t, w) /\ (table[t][k] # w => w \in Coming(t)) /\ table[t][k] <= w
    BY <1>1 DEF Holding
  <2>2. \A x \in Coming(t)' : x < w => w \in Coming(t)'
    <3>1. ASSUME NEW v \in Nat, v # 0 => v \in DOMAIN keys, Sound(t, v)
          PROVE  \A x \in Coming(t)' : x < v => v \in Coming(t)'
      BY <3>1, SoundOn DEF Sound
    <3> QED
      BY <1>6, <2>1, <3>1
  <2>3. CASE k = keys[m]
    <3>1. m <= w
      BY <1>1, <1>4, <2>3 DEF Holding
    <3>2. m # w => w \in Coming(t)
      BY <1>4, <1>5, <1>6, <2>1, <3>1 DEF Sound
    <3>3. m # w => w \in Coming(t)'
      BY <1>7, <3>2
    <3> QED
      BY <1>3, <1>6, <2>2, <2>3, <3>1, <3>3 DEF Sound
  <2>4. CASE k # keys[m]
    <3>1. w # m
      BY <1>5, <1>6, <2>4
    <3> QED
      BY <1>3, <1>6, <1>7, <2>1, <2>2, <2>4, <3>1 DEF Sound
  <2> QED
    BY <2>3, <2>4
<1> QED
  BY <1>8, <1>9, <1>10 DEF Holding

(* A server that waits for a table has one before it. *)
LEMMA AskShape ==
  ASSUME JoinInv, ShapeInv, NEW t \in Server, Up(t), main[t] = "copy"
  PROVE  prev[t] = t - 1 /\ t > 1 /\ t - 1 \in Server
<1>1. prev[t] = t - 1 /\ prev[t] \in Server
  BY DEF ShapeInv, JoinInv, StartInv
<1> QED
  BY <1>1, JoinAssumption DEF Server

(* A server that has the answer to its request for a table. *)
LEMMA HoldCopy ==
  ASSUME NEW t \in Server, Going(t), CopyTable(t)
  PROVE  Holding(t)'
<1>1. /\ JoinInv /\ WriteInv /\ LabelInv /\ IdleInv /\ ShapeInv
      /\ t \in 1 .. t /\ t \in Nat /\ Holding(t) /\ Copying(t) /\ Up(t)
      /\ \A u \in 1 .. t : Feeders(u) \subseteq Feeders(u)'
      /\ table \in [Server -> [Key -> Message]]
      /\ newest \in [Server -> [Key -> Message]]
  BY GoingBelow, Below
     DEF Going, OrderInv, WriteInv, LabelInv, Flow, JoinInv, TypeInv, DataTypes
<1>2. main[t] = "copy" /\ copy[t] # NoCopy /\ keys' = keys
  BY DEF CopyTable, clivars
<1>3. table[t] = NoTable
  BY <1>1, <1>2 DEF IdleInv
<1>4. /\ copy[t] \in [Key -> Message]
      /\ table'[t] = copy[t]
      /\ newest'[t] \in [Key -> Message]
      /\ \A k \in Key :
           newest'[t][k] = IF newest[t][k] >= copy[t][k] THEN newest[t][k] ELSE copy[t][k]
  BY <1>1, <1>3, CopyLabels
<1>5. \A k \in Key :
        /\ newest[t][k] \in Nat /\ copy[t][k] \in Nat /\ table[t][k] = 0
        /\ newest[t][k] # 0 => newest[t][k] \in DOMAIN keys
        /\ copy[t][k] # 0 => copy[t][k] \in DOMAIN keys
  BY <1>2, <1>3, <1>4, Values, NoLabel
<1>6. t > 1
  BY <1>1, <1>2, AskShape
<1>7. Own(t)' = Own(t) /\ Coming(t)' = Coming(t)
  <2>1. \A u \in 1 .. t : Queued(u)' = Queued(u) /\ Taken(u)' = Taken(u)
    BY OtherStill DEF Still, SameFlow
  <2> QED
    BY <1>1, <2>1 DEF Own, Coming, Above
<1>8. ASSUME NEW u \in 1 .. t, Feeders(u)' = {}
      PROVE  table'[t] = newest'[t]
  <2>1. table[t] = newest[t]
    BY <1>1, <1>8 DEF Holding
  <2>2. \A k \in Key : newest'[t][k] = copy[t][k]
    BY <1>4, <1>5, <2>1
  <2> QED
    BY <1>4, <2>2
<1>9. ASSUME NEW m \in Own(t)'
      PROVE  m <= newest'[t][keys'[m]]
  <2>1. m \in Nat /\ keys[m] \in Key
    BY <1>1, <1>7, OwnKnown
  <2>2. m <= newest[t][keys[m]]
    BY <1>1, <1>7 DEF Holding
  <2> QED
    BY <1>2, <1>4, <1>5, <2>1, <2>2
<1>10. ASSUME NEW k \in Key
       PROVE  /\ Sound(t, newest[t][k])'
              /\ table'[t][k] # newest'[t][k] => newest'[t][k] \in Coming(t)'
              /\ table'[t][k] <= newest'[t][k]
  <2>1. Sound(t, newest[t][k]) /\ Sound(t, copy[t][k])
    BY <1>1, <1>2, <1>6 DEF Holding, Copying
  <2>2. newest'[t][k] = newest[t][k] \/ newest'[t][k] = copy[t][k]
    BY <1>4
  <2>3. \A x \in Coming(t)' : x < newest'[t][k] => newest'[t][k] \in Coming(t)'
    BY <1>7, <2>1, <2>2 DEF Sound
  <2>4. ASSUME table'[t][k] # newest'[t][k]
        PROVE  newest'[t][k] \in Coming(t)'
    <3>1. newest'[t][k] = newest[t][k] /\ newest[t][k] # 0
      BY <1>4, <1>5, <2>4
    <3>2. newest[t][k] \in Coming(t)
      BY <1>1, <1>5, <3>1 DEF Holding
    <3> QED
      BY <1>7, <3>1, <3>2
  <2>5. table'[t][k] <= newest'[t][k]
    BY <1>4, <1>5
  <2> QED
    BY <2>3, <2>4, <2>5 DEF Sound
<1> QED
  BY <1>8, <1>9, <1>10 DEF Holding

LEMMA HoldingStep ==
  ASSUME NEW t \in Server, Going(t)
  PROVE  Holding(t)'
  BY HoldSent, HoldApply, HoldCopy

LEMMA NewestGrows ==
  ASSUME NEW t \in Server, Going(t)
  PROVE  \A k \in Key : newest'[t][k] >= newest[t][k]
<1>1. \A k \in Key : newest[t][k] \in Nat /\ newest'[t][k] \in Nat
  BY Values
<1>2. CASE ~ CopyTable(t)
  BY <1>1, <1>2, NewestStep
<1>3. CASE CopyTable(t)
  <2>1. JoinInv /\ LabelInv /\ table[t] = NoTable
    BY <1>3 DEF Going, OrderInv, WriteInv, IdleInv, CopyTable
  <2>2. /\ copy[t] \in [Key -> Message]
        /\ \A k \in Key :
             newest'[t][k] = IF newest[t][k] >= copy[t][k] THEN newest[t][k] ELSE copy[t][k]
    BY <1>3, <2>1, CopyLabels
  <2>3. \A k \in Key : copy[t][k] \in Nat
    BY <2>2, Values
  <2> QED
    BY <1>1, <2>2, <2>3
<1> QED
  BY <1>2, <1>3

(* A server that reads an answer asked the one before it. *)
LEMMA AnswerShape ==
  ASSUME NEW t \in Server, Going(t), NEW s \in Server, NEW i \in DOMAIN threads[s],
         threads[s][i].from = t, reads_answer(s, threads[s][i])
  PROVE  t > 1 /\ s = t - 1
<1>1. JoinInv /\ ShapeInv /\ Up(t)
  BY Below, GoingBelow DEF Going, OrderInv
<1>2. main[t] = "copy" /\ prev[t] = s
  BY <1>1 DEF JoinInv, LinkInv, AskInv, reads_answer
<1> QED
  BY <1>1, <1>2, AskShape

(* The answer that is on its way to a server. *)
LEMMA CopyStep ==
  ASSUME NEW t \in Server, Going(t)
  PROVE  \/ copy'[t] = copy[t] /\ (t \in whole' => t \in whole)
         \/ CopyTable(t) /\ copy'[t] = NoCopy /\ (t \in whole' => t \in whole)
         \/ /\ t > 1
            /\ \E i \in DOMAIN threads[t - 1] :
                 /\ AnswerTable(t - 1, i) /\ threads[t - 1][i].from = t
                 /\ copy'[t] = table[t - 1]
                 /\ t \in whole' => t \in whole \/ ~ GoesRound(t - 1, i)
<1>1. /\ JoinInv /\ [Next]_vars /\ main'[t] # "gone"
      /\ copy \in [Server -> [Key -> Message] \cup {NoCopy}]
  BY GoingBelow, Below DEF Going, JoinInv, TypeInv, DataTypes
<1>2. ASSUME NEW s \in Server,
             \/ Start(s) \/ ListPrevious(s) \/ GetPrevious(s) \/ Expire(s)
             \/ AskTable(s) \/ Rewire(s)
      PROVE  copy'[t] = copy[t] /\ whole' = whole
  BY <1>2 DEF Start, ListPrevious, GetPrevious, Expire, AskTable, Rewire, datavars, history
<1>3. ASSUME NEW s \in Server, CopyTable(s)
      PROVE  \/ copy'[t] = copy[t] /\ whole' = whole
             \/ s = t /\ copy'[t] = NoCopy /\ whole' = whole
  BY <1>1, <1>3 DEF CopyTable
<1>4. ASSUME NEW s \in Server, AskFails(s) \/ Crash(s) \/ RewireFails(s)
      PROVE  copy'[t] = copy[t] /\ (t \in whole' => t \in whole)
  <2>1. Stop(s)
    BY <1>1, <1>4, Ends DEF JoinInv
  <2> QED
    BY <1>1, <2>1 DEF Stop, JoinInv, TypeInv, NodeTypes
<1>5. CASE Connect \/ (\E k \in Key : Write(k)) \/ UNCHANGED vars
  BY <1>5 DEF Connect, Write, vars, datavars, history
<1>6. ASSUME NEW s \in Server, NEW i \in DOMAIN threads[s],
             \/ Propagate(s, i) \/ PropagateNowhere(s, i) \/ PropagateFails(s, i)
             \/ ApplyWrite(s, i)
      PROVE  copy'[t] = copy[t] /\ whole' = whole
  BY <1>6 DEF Propagate, PropagateNowhere, PropagateFails, ApplyWrite, datavars, history
<1>7. ASSUME NEW s \in Server, NEW i \in DOMAIN threads[s], AnswerTable(s, i)
      PROVE  \/ copy'[t] = copy[t] /\ (t \in whole' => t \in whole)
             \/ /\ t > 1 /\ s = t - 1 /\ threads[s][i].from = t
                /\ copy'[t] = table[s]
                /\ t \in whole' => t \in whole \/ ~ GoesRound(s, i)
  <2> DEFINE c == threads[s][i]
  <2>1. /\ copy' = IF reads_answer(s, c) THEN [copy EXCEPT ![c.from] = table[s]] ELSE copy
        /\ whole' = IF reads_answer(s, c) /\ ~ GoesRound(s, i) THEN whole \cup {c.from}
                    ELSE whole
    BY <1>7 DEF AnswerTable
  <2>2. CASE reads_answer(s, c) /\ c.from = t
    <3>1. t > 1 /\ s = t - 1
      BY <2>2, AnswerShape
    <3> HIDE DEF c
    <3>2. copy'[t] = table[s] /\ (t \in whole' => t \in whole \/ ~ GoesRound(s, i))
      BY <1>1, <2>1, <2>2
    <3> QED
      BY <2>2, <3>1, <3>2 DEF c
  <2>3. CASE ~ reads_answer(s, c) \/ c.from # t
    <3> HIDE DEF c
    <3> QED
      BY <1>1, <2>1, <2>3
  <2> QED
    BY <2>2, <2>3
<1> QED
  BY <1>1, <1>2, <1>3, <1>4, <1>5, <1>6, <1>7, Cases DEF clientThread

(* What a server may copy, and what it may have been sent. *)
LEMMA CopyingStep ==
  ASSUME NEW t \in Server, Going(t)
  PROVE  Copying(t)'
<1> SUFFICES ASSUME t > 1
             PROVE  Copying(t)'
  BY DEF Copying
<1> DEFINE r == t - 1
<1>1. /\ r \in Server /\ r \in 1 .. t /\ r < t /\ r # t /\ t \in 1 .. t /\ r \in 1 .. r
      /\ r \in Nat /\ t \in Nat
  BY Below
<1>2. /\ JoinInv /\ WriteInv /\ LabelInv /\ IdleInv /\ ShapeInv
      /\ Going(r) /\ Holding(r) /\ Copying(r) /\ Order(r) /\ Up(r)
      /\ Copying(t) /\ Order(t) /\ Dry(t) /\ main[r] # "gone"
      /\ table \in [Server -> [Key -> Message]]
  BY <1>1, GoingBelow DEF Going, OrderInv, WriteInv, Flow, JoinInv, TypeInv, DataTypes
<1>3. \A k \in Key :
        /\ newest[t][k] \in Nat /\ newest'[t][k] \in Nat
        /\ newest[r][k] \in Nat /\ newest'[r][k] \in Nat /\ table[r][k] \in Nat
        /\ table[r][k] # 0 => table[r][k] \in DOMAIN keys
  BY <1>1, <1>2, Values
<1>4. \A k \in Key : newest'[r][k] >= newest[r][k]
  BY <1>1, <1>2, NewestGrows
<1>5. /\ \A k \in Key : Sound(t, table[r][k]) /\ newest[t][k] <= newest[r][k]
      /\ copy[t] # NoCopy =>
           \A k \in Key : Sound(t, copy[t][k]) /\ copy[t][k] <= newest[r][k]
  BY <1>2 DEF Copying
<1>6. \A k \in Key : table[r][k] <= newest[r][k]
  BY <1>2 DEF Holding
<1>7. ASSUME NEW v \in Nat, v # 0 => v \in DOMAIN keys, Sound(t, v)
      PROVE  \A x \in Coming(t)' : x < v => v \in Coming(t)'
  BY <1>7, SoundOn DEF Sound
<1>8. \A x \in Coming(t) : x \in Nat
  BY <1>2, ComingKnown
<1> HIDE DEF r
<1>9. ASSUME NEW k \in Key
      PROVE  \A x \in Coming(t)' : x < table'[r][k] => table'[r][k] \in Coming(t)'
  <2>1. CASE table'[r][k] = table[r][k]
    BY <1>3, <1>5, <1>7, <2>1
  <2>2. ASSUME NEW i \in DOMAIN threads[r], ApplyWrite(r, i), table'[r][k] # table[r][k]
        PROVE  \A x \in Coming(t)' : x < table'[r][k] => table'[r][k] \in Coming(t)'
    <3> DEFINE m == threads[r][i].msg
    <3>1. /\ Clears(t, r, m) /\ table' = [table EXCEPT ![r][keys[m]] = m]
      <4>1. r <= t
        BY <1>1
      <4> QED
        BY <1>1, <2>2, <4>1, ApplyClears DEF ApplyWrite
    <3> HIDE DEF m
    <3>2. table'[r][k] = m
      BY <1>1, <1>2, <2>2, <3>1
    <3>3. /\ Taken(r) = {m} /\ \A u \in 1 .. t : Queued(u)' = Queued(u)
          /\ Taken(t)' = Taken(t)
      BY <1>1, <3>1 DEF Clears, SameFlow
    <3>4. Coming(t)' = Coming(t) /\ Above(t) = Above(r) \cup Queued(t)
      <4>1. \A u \in 1 .. t : u \in 1 .. r \/ u = t
        BY <1>1 DEF r
      <4>2. \A u \in 1 .. r : u \in 1 .. t
        BY <1>1
      <4> QED
        BY <1>1, <3>3, <4>1, <4>2 DEF Coming, Above
    <3>5. ASSUME NEW x \in Coming(t), x < m
          PROVE  m \in Coming(t)
      <4>1. m \in Nat /\ x \in Nat
        <5>1. m \in Own(r)
          BY <3>3 DEF Own
        <5> QED
          BY <1>1, <1>2, <1>8, <5>1, OwnKnown
      <4>2. x \notin Above(r)
        BY <1>2, <3>3, <3>5, <4>1 DEF Order
      <4>3. x \in Own(t)
        BY <3>4, <3>5, <4>2 DEF Coming, Own
      <4>4. m \in Own(t)
        BY <1>2, <3>3, <4>3 DEF Order, r
      <4> QED
        BY <1>1, <4>4 DEF Own, Coming, Above
    <3> QED
      BY <3>2, <3>4, <3>5
  <2>3. ASSUME CopyTable(r)
        PROVE  \A x \in Coming(t)' : x < table'[r][k] => table'[r][k] \in Coming(t)'
    <3>1. main[r] = "copy" /\ copy[r] # NoCopy
      BY <2>3 DEF CopyTable
    <3>2. r > 1 /\ table[r] = NoTable
      BY <1>1, <1>2, <3>1, AskShape DEF IdleInv
    <3>3. table' = [table EXCEPT ![r] = copy[r]]
      BY <1>1, <1>2, <2>3, <3>2, CopyLabels
    <3>4. Sound(r, copy[r][k]) /\ table'[r][k] = copy[r][k]
      BY <1>1, <1>2, <3>1, <3>2, <3>3 DEF Copying
    <3>5. Own(t) = {}
      BY <1>1, <1>2, <3>1 DEF Dry
    <3>6. Taken(r) = {}
      <4>1. \A i \in DOMAIN threads[r] : threads[r][i].at = "receive"
        BY <1>1, <1>2, <3>1 DEF IdleInv
      <4> QED
        BY <4>1 DEF Taken, Feeders
    <3>7. Coming(t) = Coming(r)
      <4>1. \A u \in 1 .. t : u \in 1 .. r \/ u = t
        BY <1>1 DEF r
      <4>2. \A u \in 1 .. r : u \in 1 .. t
        BY <1>1
      <4> QED
        BY <1>1, <3>5, <3>6, <4>1, <4>2 DEF Coming, Above, Own
    <3>8. Coming(t)' = Coming(t)
      <4>1. \A u \in 1 .. t : Queued(u)' = Queued(u) /\ Taken(u)' = Taken(u)
        BY <1>1, <2>3, OtherStill DEF Still, SameFlow
      <4> QED
        BY <1>1, <4>1 DEF Coming, Above
    <3> QED
      BY <3>4, <3>7, <3>8 DEF Sound
  <2>4. CASE ~ CopyTable(r) /\ \A i \in DOMAIN threads[r] : ~ ApplyWrite(r, i)
    <3>1. table'[r] = table[r]
      BY <1>1, <1>2, <2>4, TableStep
    <3> QED
      BY <2>1, <3>1
  <2> QED
    BY <2>1, <2>2, <2>3, <2>4
<1>10. ASSUME NEW k \in Key
       PROVE  newest'[t][k] <= newest'[r][k]
  <2>1. newest'[t][k] <= newest[r][k]
    <3>1. CASE newest'[t][k] = newest[t][k]
      BY <1>5, <3>1
    <3>2. CASE ~ CopyTable(t) /\ newest'[t][k] # newest[t][k]
      <4> DEFINE w == newest'[t][k]
      <4>1. w \in Queued(r)
        BY <3>2, NewestStep DEF r
      <4>2. w \in Own(r)
        BY <4>1 DEF Own
      <4>3. w # 0 /\ w \in DOMAIN keys /\ w <= newest[r][keys[w]]
        BY <1>1, <1>2, <4>2, OwnKnown DEF Holding
      <4>4. keys'[w] = k /\ keys'[w] = keys[w]
        BY <1>2, <4>3, Values, KeysGrow DEF Going
      <4> QED
        BY <4>3, <4>4
    <3>3. CASE CopyTable(t)
      <4>1. copy[t] # NoCopy /\ table[t] = NoTable
        BY <1>2, <3>3 DEF CopyTable, IdleInv
      <4>2. newest'[t][k] = newest[t][k] \/ newest'[t][k] = copy[t][k]
        BY <1>2, <3>3, <4>1, CopyLabels
      <4> QED
        BY <1>5, <4>1, <4>2
    <3> QED
      BY <3>1, <3>2, <3>3
  <2> QED
    BY <1>3, <1>4, <2>1
<1>11. ASSUME copy'[t] # NoCopy, NEW k \in Key
       PROVE  /\ \A x \in Coming(t)' : x < copy'[t][k] => copy'[t][k] \in Coming(t)'
              /\ copy'[t][k] <= newest'[r][k]
  <2>1. CASE copy'[t] = copy[t]
    <3>1. /\ Sound(t, copy[t][k]) /\ copy[t][k] <= newest[r][k]
          /\ copy[t][k] \in Nat /\ (copy[t][k] # 0 => copy[t][k] \in DOMAIN keys)
      BY <1>5, <1>11, <2>1, Values
    <3>2. copy[t][k] <= newest'[r][k]
      BY <1>3, <1>4, <3>1
    <3> QED
      BY <1>7, <2>1, <3>1, <3>2
  <2>2. CASE copy'[t] # copy[t]
    <3>1. copy'[t] = table[r]
      BY <1>11, <2>2, CopyStep DEF r
    <3>2. table[r][k] <= newest'[r][k]
      BY <1>3, <1>4, <1>6
    <3> QED
      BY <1>3, <1>5, <1>7, <3>1, <3>2
  <2> QED
    BY <2>1, <2>2
<1> QED
  BY <1>9, <1>10, <1>11 DEF Copying, Sound, r

(* What the one before t takes is sent on to t, when t is fed ... *)
LEMMA TakenSent ==
  ASSUME NEW t \in Server, Going(t), t > 1, Feeders(t) # {},
         NEW m \in Taken(t - 1)', m \notin Taken(t - 1)
  PROVE  m \in Queued(t)'
<1>1. t - 1 \in 1 .. t /\ t \in 1 .. t /\ t \in Nat /\ t = (t - 1) + 1
  BY Below
<1>2. ~ Still(t) /\ \A n : ~ Enters(t, n)
  BY <1>1 DEF Still, SameFlow, Enters
<1>3. \A s, n : ~ Clears(t, s, n)
  <2>1. ASSUME NEW s, NEW n, Clears(t, s, n)
        PROVE  FALSE
    <3>1. Taken(t - 1)' = {} \/ Taken(t - 1)' = Taken(t - 1)
      BY <1>1, <2>1 DEF Clears, SameFlow
    <3> QED
      BY <3>1
  <2> QED
    BY <2>1
<1>4. PICK s, n : Moves(t, s, n)
  BY <1>2, <1>3, FlowCases
<1>5. s = t - 1
  <2>1. ASSUME s # t - 1
        PROVE  FALSE
    <3>1. Taken(t - 1)' = Taken(t - 1)
      BY <1>1, <1>4, <2>1 DEF Moves, SameFlow
    <3> QED
      BY <3>1
  <2> QED
    BY <2>1
<1>6. m = n
  BY <1>4, <1>5 DEF Moves
<1>7. t = s + 1
  BY <1>1, <1>5
<1>8. Queued(t)' = Queued(t) \cup {n}
  BY <1>1, <1>4, <1>7 DEF Moves
<1> QED
  BY <1>6, <1>8

(* ... and so is what it no longer waits for. *)
LEMMA AboveSent ==
  ASSUME NEW t \in Server, Going(t), t > 1, Feeders(t) # {},
         \A u \in 1 .. t - 1 : Feeders(u) # {},
         NEW m \in Above(t - 1), m \notin Above(t - 1)'
  PROVE  m \in Queued(t)'
<1>1. t - 1 \in 1 .. t /\ t \in 1 .. t /\ t \in Nat /\ t = (t - 1) + 1
  BY Below
<1>2. \A u \in 1 .. t - 1 : u \in 1 .. t
  BY <1>1
<1>3. PICK u \in 1 .. t - 1 : m \in Queued(u)
  BY DEF Above
<1>4. m \notin Queued(u)' /\ u \in 1 .. t
  BY <1>2 DEF Above
<1>5. ~ Still(t) /\ (\A s, n : ~ Clears(t, s, n)) /\ \A n : ~ Enters(t, n)
  <2>1. Queued(u)' # Queued(u) /\ ~ (Queued(u) \subseteq Queued(u)')
    BY <1>3, <1>4
  <2>2. ~ Still(t)
    BY <1>4, <2>1 DEF Still, SameFlow
  <2>3. ASSUME NEW s, NEW n, Clears(t, s, n)
        PROVE  FALSE
    BY <1>4, <2>1, <2>3 DEF Clears, SameFlow
  <2>4. ASSUME NEW n, Enters(t, n)
        PROVE  FALSE
    BY <1>4, <2>1, <2>4 DEF Enters, SameFlow
  <2> QED
    BY <2>2, <2>3, <2>4
<1>6. PICK s, n : Moves(t, s, n)
  BY <1>5, FlowCases
<1>7. s \in 1 .. t /\ s \in Nat /\ s # s + 1 /\ u \in Nat
  BY <1>1, <1>4, <1>6 DEF Moves
<1>8. u = s /\ m = n
  <2>1. u = s
    <3>1. ASSUME u # s
          PROVE  Queued(u) \subseteq Queued(u)'
      BY <1>4, <1>6, <3>1 DEF Moves, SameFlow
    <3> QED
      BY <1>3, <1>4, <3>1
  <2> QED
    BY <1>3, <1>4, <1>6, <2>1 DEF Moves
<1>9. s + 1 \in 1 .. t /\ Feeders(s + 1) # {}
  <2>1. s + 1 \in 1 .. t /\ (s + 1 = t \/ s + 1 \in 1 .. t - 1)
    BY <1>1, <1>7, <1>8
  <2> QED
    BY <2>1
<1>10. m \in Queued(s + 1)'
  BY <1>6, <1>8, <1>9 DEF Moves
<1>11. s + 1 = t
  <2>1. s + 1 \notin 1 .. t - 1
    BY <1>10 DEF Above
  <2> QED
    BY <1>1, <1>9, <2>1
<1> QED
  BY <1>10, <1>11

(* A server that was given its table while nothing could go round it. *)
LEMMA FollowingStep ==
  ASSUME NEW t \in Server, Going(t)
  PROVE  Following(t)'
<1> SUFFICES ASSUME t \in whole'
             PROVE  Following(t)'
  BY DEF Following
<1> DEFINE r == t - 1
<1>1. t > 1
  <2>1. t \in whole => t > 1
    BY Below, GoingBelow DEF Flow, Following
  <2> QED
    BY <2>1, CopyStep
<1>2. /\ r \in Server /\ r \in 1 .. t /\ r < t /\ r # t /\ t \in 1 .. t /\ r \in 1 .. r
      /\ r \in Nat /\ t \in Nat /\ \A u \in 1 .. r : u \in 1 .. t
  BY <1>1, Below
<1>3. /\ JoinInv /\ WriteInv /\ Going(r) /\ Holding(r) /\ Following(t)
      /\ main[r] # "gone" /\ main[t] # "gone" /\ Feeders(t) \subseteq Feeders(t)'
      /\ \A u \in 1 .. r : Feeders(u) \subseteq Feeders(u)'
      /\ Holding(t)' /\ Copying(t)' /\ Dry(r)'
  BY <1>2, GoingBelow, HoldingStep, CopyingStep, DryStep DEF Going, OrderInv, Flow
<1>4. \A k \in Key :
        /\ newest[t][k] \in Nat /\ newest'[t][k] \in Nat
        /\ newest[r][k] \in Nat /\ newest'[r][k] \in Nat
        /\ newest[r][k] # 0 => newest[r][k] \in DOMAIN keys /\ keys[newest[r][k]] = k
        /\ newest'[t][k] >= newest[t][k]
        /\ newest'[t][k] <= newest'[r][k]
  <2>1. \A k \in Key : newest'[t][k] >= newest[t][k]
    BY NewestGrows
  <2>2. \A k \in Key : newest'[t][k] <= newest'[r][k]
    BY <1>1, <1>3 DEF Copying
  <2>3. \A k \in Key : newest[t][k] \in Nat /\ newest'[t][k] \in Nat
    BY Values
  <2>4. \A k \in Key :
          /\ newest[r][k] \in Nat /\ newest'[r][k] \in Nat
          /\ newest[r][k] # 0 => newest[r][k] \in DOMAIN keys /\ keys[newest[r][k]] = k
    BY <1>2, <1>3, Values
  <2> QED
    BY <2>1, <2>2, <2>3, <2>4
<1>5. ASSUME NEW m \in Queued(t)'
      PROVE  m <= newest'[t][keys'[m]]
  BY <1>3 DEF Holding, Own
<1>6. \A m \in DOMAIN keys : keys'[m] = keys[m]
  BY KeysGrow DEF Going
<1> HIDE DEF r
<1>7. \A u \in 1 .. r : u \in Server
  BY <1>2, Below
(* Where the answer is sent. *)
<1>8. ASSUME NEW i \in DOMAIN threads[r], AnswerTable(r, i), threads[r][i].from = t,
             copy'[t] = table[r], t \in whole \/ ~ GoesRound(r, i)
      PROVE  Following(t)'
  <2>1. newest' = newest /\ Still(t) /\ main' = main /\ main[r] = "serve" /\ keys' = keys
        /\ threads[r][i].msg = GetTable
    BY <1>2, <1>8, OtherStill
       DEF AnswerTable, answers, in_main_loop, nodevars, clivars
  <2>2. /\ Taken(r)' = Taken(r) /\ \A u \in 1 .. r : Queued(u)' = Queued(u)
        /\ Above(r)' = Above(r)
    <3>1. Taken(r)' = Taken(r) /\ \A u \in 1 .. r : Queued(u)' = Queued(u)
      BY <1>2, <2>1 DEF Still, SameFlow
    <3> QED
      BY <3>1 DEF Above
  <2>3. t \in whole \/ Taken(r) = {}
    <3>1. ASSUME ~ GoesRound(r, i), NEW j \in Feeders(r), threads[r][j].at = "apply",
                 threads[r][j].msg # GetTable
          PROVE  FALSE
      BY <2>1, <3>1 DEF GoesRound, Feeders
    <3> QED
      BY <1>8, <3>1 DEF Taken, Writes
  <2>4. Feeders(t) # {}
    <3>1. CASE t \in whole
      BY <1>3, <3>1 DEF Following
    <3>2. CASE ~ GoesRound(r, i)
      <4>1. next[r][1] = t
        BY <1>8, <3>2 DEF GoesRound
      <4>2. next[r] # Nowhere
        BY <1>1, <1>2, <4>1 DEF Nowhere
      <4>3. Holds(r, next[r], main, threads)
        BY <1>2, <1>3 DEF JoinInv, LinkInv, EndInv
      <4>4. next[r][2] \in DOMAIN threads[t] /\ threads[t][next[r][2]].from = r
        BY <1>3, <4>1, <4>2, <4>3 DEF Holds
      <4> QED
        BY <1>2, <4>4 DEF Feeders
    <3> QED
      BY <1>8, <3>1, <3>2
  <2>5. ASSUME NEW m \in Taken(r)'
        PROVE  m <= newest'[t][keys'[m]]
    BY <1>3, <2>1, <2>2, <2>3, <2>5 DEF Following, r
  <2>6. ASSUME NEW k \in Key
        PROVE  \/ /\ newest[r][k] \in Above(r)
                  /\ \A u \in 1 .. r : Feeders(u) # {}
               \/ newest[r][k] = newest[t][k]
               \/ copy'[t] # NoCopy /\ newest[r][k] = copy'[t][k]
    <3> DEFINE a == newest[r][k]
    <3>1. CASE table[r][k] = a
      <4>1. copy'[t] # NoCopy
        <5>1. table[r] # NoCopy
          <6>1. table[r] \in [Key -> Message] /\ DOMAIN NoCopy = {}
            BY <1>2, <1>3, Values DEF NoCopy
          <6> QED
            BY <6>1
        <5> QED
          BY <1>8, <5>1
      <4> QED
        BY <1>8, <3>1, <4>1
    <3>2. CASE table[r][k] # a
      <4>1. a \in Coming(r) /\ \A u \in 1 .. r : Feeders(u) # {}
        BY <1>3, <3>2 DEF Holding
      <4>2. CASE a \in Taken(r)
        <5>1. a \in Own(r) /\ t \in whole
          BY <2>3, <4>2 DEF Own
        <5>2. a # 0 /\ keys[a] = k
          BY <1>2, <1>3, <1>4, <5>1, OwnKnown
        <5>3. a <= newest[t][k]
          BY <1>3, <4>2, <5>1, <5>2 DEF Following, r
        <5>4. newest[t][k] <= a
          BY <1>4, <2>1
        <5> QED
          BY <1>4, <5>3, <5>4
      <4> QED
        BY <4>1, <4>2 DEF Coming
    <3> QED
      BY <3>1, <3>2
  <2>7. \A k \in Key :
           \/ /\ newest'[r][k] \in Above(r)'
              /\ \A u \in 1 .. r : Feeders(u)' # {}
           \/ newest'[r][k] = newest'[t][k]
           \/ copy'[t] # NoCopy /\ newest'[r][k] = copy'[t][k]
    BY <1>3, <2>1, <2>2, <2>6
  <2> QED
    BY <1>1, <1>3, <2>1, <2>4, <2>5, <2>7 DEF Following, r
<1>9. ASSUME t \in whole,
             \/ copy'[t] = copy[t]
             \/ CopyTable(t) /\ copy'[t] = NoCopy
      PROVE  Following(t)'
  <2>1. /\ main[r] = "serve" /\ Feeders(t) # {}
        /\ \A m \in Taken(r) : m <= newest[t][keys[m]]
        /\ \A k \in Key :
             \/ /\ newest[r][k] \in Above(r)
                /\ \A u \in 1 .. r : Feeders(u) # {}
             \/ newest[r][k] = newest[t][k]
             \/ copy[t] # NoCopy /\ newest[r][k] = copy[t][k]
    BY <1>3, <1>9 DEF Following, r
  <2>2. main'[r] = "serve" /\ ~ CopyTable(r)
    BY <1>2, <2>1, ServesOn DEF CopyTable
  <2>3. ASSUME NEW m \in Taken(r)'
        PROVE  m <= newest'[t][keys'[m]]
    <3>1. CASE m \in Taken(r)
      <4>1. m \in Own(r)
        BY <3>1 DEF Own
      <4>2. m \in Nat /\ m \in DOMAIN keys /\ keys[m] \in Key
        BY <1>2, <1>3, <4>1, OwnKnown
      <4>3. keys'[m] = keys[m] /\ m <= newest[t][keys[m]]
        BY <1>6, <2>1, <3>1, <4>2
      <4> QED
        BY <1>4, <4>2, <4>3
    <3>2. CASE m \notin Taken(r)
      <4>1. m \in Queued(t)'
        BY <1>1, <2>1, <2>3, <3>2, TakenSent DEF r
      <4> QED
        BY <1>5, <4>1
    <3> QED
      BY <3>1, <3>2
  <2>4. ASSUME NEW k \in Key
        PROVE  \/ /\ newest'[r][k] \in Above(r)'
                  /\ \A u \in 1 .. r : Feeders(u)' # {}
               \/ newest'[r][k] = newest'[t][k]
               \/ copy'[t] # NoCopy /\ newest'[r][k] = copy'[t][k]
    <3> DEFINE a == newest[r][k]
               b == newest'[t][k]
    <3>1. a \in Nat /\ b \in Nat /\ newest[t][k] \in Nat /\ b >= newest[t][k]
          /\ b <= newest'[r][k]
      BY <1>4
    <3>2. newest'[r][k] = a \/ newest'[r][k] \in Queued(r)'
      BY <1>2, <1>3, <2>2, NewestStep
    <3>3. CASE newest'[r][k] \in Queued(r)'
      <4>1. newest'[r][k] \in Above(r)' /\ Own(r)' # {}
        BY <1>2, <3>3 DEF Above, Own
      <4>2. \A u \in 1 .. r : Feeders(u)' # {}
        BY <1>3, <4>1 DEF Dry
      <4> QED
        BY <4>1, <4>2
    <3>4. CASE newest'[r][k] = a
      <4>1. b <= a
        BY <3>1, <3>4
      <4>2. CASE a \in Above(r) /\ \A u \in 1 .. r : Feeders(u) # {}
        <5>1. CASE a \in Above(r)'
          BY <1>3, <3>4, <4>2, <5>1
        <5>2. CASE a \notin Above(r)'
          <6>1. a \in Queued(t)'
            BY <1>1, <2>1, <4>2, <5>2, AboveSent DEF r
          <6>2. a <= newest'[t][keys'[a]]
            BY <1>5, <6>1
          <6>3. a \in Coming(r)
            BY <4>2 DEF Coming
          <6>4. a # 0
            BY <1>2, <1>3, <6>3, ComingKnown
          <6>5. keys'[a] = k
            BY <1>4, <1>6, <6>4
          <6> QED
            BY <3>1, <3>4, <4>1, <6>2, <6>5
        <5> QED
          BY <5>1, <5>2
      <4>3. CASE a = newest[t][k]
        BY <3>1, <3>4, <4>1, <4>3
      <4>4. CASE copy[t] # NoCopy /\ a = copy[t][k]
        <5>1. CASE copy'[t] = copy[t]
          BY <3>4, <4>4, <5>1
        <5>2. CASE CopyTable(t)
          <6>1. LabelInv /\ table[t] = NoTable
            BY <1>3, <5>2 DEF WriteInv, IdleInv, CopyTable
          <6>2. /\ copy[t] \in [Key -> Message]
                /\ b = IF newest[t][k] >= copy[t][k] THEN newest[t][k] ELSE copy[t][k]
            BY <1>3, <5>2, <6>1, CopyLabels
          <6> QED
            BY <3>1, <3>4, <4>1, <4>4, <6>2
        <5> QED
          BY <1>9, <5>1, <5>2
      <4> QED
        BY <2>1, <4>2, <4>3, <4>4
    <3> QED
      BY <3>2, <3>3, <3>4
  <2> QED
    BY <1>1, <1>3, <2>1, <2>2, <2>3, <2>4 DEF Following, r
<1> QED
  BY <1>8, <1>9, CopyStep DEF r
-----------------------------------------------------------------------------
LEMMA OrderInit ==
  Init => OrderInv
<1> SUFFICES ASSUME Init
             PROVE  OrderInv
  OBVIOUS
<1>1. \A s \in Server :
        /\ threads[s] = <<>> /\ table[s] = NoTable /\ newest[s] = NoTable
        /\ copy[s] = NoCopy /\ next[s] = Nowhere /\ main[s] = "off"
  BY DEF Init
<1>2. LabelInv
  <2>1. newest \in [Server -> [Key -> Message]]
    BY NoLabel DEF Init
  <2> QED
    BY <1>1, <2>1, NoLabel DEF LabelInv, Init
<1>3. CarryInv /\ IdleInv
  BY <1>1 DEF CarryInv, IdleInv
<1>4. ShapeInv
  <2>1. \A t \in Server : t > 1 => t - 1 \in Server
    BY Below
  <2> QED
    BY <1>1, <2>1 DEF ShapeInv, Init
<1>5. ASSUME NEW t \in Server
      PROVE  Flow(t)
  <2>1. \A u \in 1 .. t : u \in Server
    BY Below
  <2>2. \A u \in 1 .. t : Feeders(u) = {} /\ Queued(u) = {} /\ Taken(u) = {} /\ Own(u) = {}
    BY <1>1, <2>1 DEF Feeders, Queued, Taken, Own
  <2>3. t \in 1 .. t /\ (t > 1 => t - 1 \in 1 .. t)
    BY Below
  <2>4. Coming(t) = {} /\ Above(t) = {}
    BY <2>2, <2>3 DEF Coming, Above
  <2>5. Source(t) /\ Order(t) /\ Dry(t)
    BY <2>2, <2>3, <2>4 DEF Source, Order, Sorted, Dry
  <2>6. \A k \in Key : NoTable[k] = 0 /\ NoTable[k] <= NoTable[k]
    BY NoLabel
  <2>7. Holding(t)
    BY <1>1, <2>2, <2>3, <2>4, <2>6 DEF Holding, Sound
  <2>8. Copying(t)
    BY <1>1, <2>1, <2>3, <2>4, <2>6 DEF Copying, Sound
  <2>9. Following(t)
    BY DEF Following, Init
  <2> QED
    BY <2>5, <2>7, <2>8, <2>9 DEF Flow
<1> QED
  BY <1>2, <1>3, <1>4, <1>5 DEF OrderInv, WriteInv, FlowInv

LEMMA OrderInvStep ==
  ASSUME JoinInv, JoinInv', OrderInv, [Next]_vars
  PROVE  OrderInv'
<1>1. WriteInv' /\ ShapeInv'
  BY WriteStep, ShapeStep DEF OrderInv
<1>2. ASSUME NEW t \in Server, Fine(t)'
      PROVE  Flow(t)'
  <2>1. Going(t)
    BY <1>1, <1>2 DEF Going
  <2>2. Source(t)'
    <3>1. Source(t) /\ ShapeInv
      BY <2>1, Below, GoingBelow DEF Flow, OrderInv
    <3> QED
      BY <1>2, <3>1, SourceStep
  <2> QED
    BY <2>1, <2>2, OrderStep, DryStep, HoldingStep, CopyingStep, FollowingStep DEF Flow
<1> QED
  BY <1>1, <1>2 DEF OrderInv, FlowInv

(* In whatever order servers start, are wired and die: the writes on their way
   along a chain that is fed in order stand in the order in which the client
   made them, and no server holds, or copies, a write that is newer than one
   still to come, unless that write is still to come as well.  It is what
   clientThread keeps when it sends a write on before it applies it, and what
   main keeps when it asks for the table before it serves. *)
THEOREM OrderInvariant ==
  Spec => []OrderInv
<1>1. JoinInv /\ OrderInv /\ [Next]_vars => JoinInv' /\ OrderInv'
  BY JoinStep, OrderInvStep
<1>2. Init => JoinInv /\ OrderInv
  BY JoinInit, OrderInit
<1> QED
  BY <1>1, <1>2, PTL DEF Spec

(* Nothing is on its way in a chain that is quiet. *)
LEMMA QuietFlow ==
  ASSUME JoinInv, Quiet, NEW s \in Server
  PROVE  Coming(s) = {} /\ Above(s) = {} /\ copy[s] = NoCopy
<1>1. \A u \in 1 .. s : u \in Server
  BY Below
<1>2. \A u \in Server : Queued(u) = {} /\ Taken(u) = {}
  BY DEF Quiet, Queued, Taken, Feeders
<1>3. Above(s) = {} /\ Coming(s) = {}
  BY <1>1, <1>2 DEF Above, Coming
<1>4. copy[s] = NoCopy
  BY DEF Quiet, JoinInv, LinkInv, AskInv
<1> QED
  BY <1>3, <1>4

LEMMA QuietNewest ==
  ASSUME JoinInv, OrderInv, Quiet, NEW s \in Server, InOrder(s)
  PROVE  Flow(s) /\ table[s] = newest[s]
<1>1. Fine(s)
  BY InOrderFine DEF JoinInv
<1>2. Flow(s)
  BY <1>1 DEF OrderInv, FlowInv
<1>3. \A k \in Key : table[s][k] = newest[s][k]
  BY <1>2, QuietFlow DEF Flow, Holding
<1>4. table[s] \in [Key -> Message] /\ newest[s] \in [Key -> Message]
  BY DEF OrderInv, WriteInv, LabelInv, JoinInv, TypeInv, DataTypes
<1> QED
  BY <1>2, <1>3, <1>4

(* For a chain of any length and any number of writes: once the chain is quiet,
   a server that the writes reached in order holds for each key the newest one
   that was ever on its way to it.  It may have come in the copied table, which
   table_put writes into the new one, or over the connection, where main lets
   no thread read before the table is copied. *)
THEOREM NewestKept ==
  Spec => []KeepsNewest
<1>1. JoinInv /\ OrderInv => KeepsNewest
  BY QuietNewest DEF KeepsNewest
<1> QED
  BY <1>1, JoinInvariant, OrderInvariant, PTL

(* And a server whose predecessor had already connected to it, and had no other
   write at hand, when it answered the request for its table, then holds just
   what its predecessor holds: the writes that come while the table is copied
   are sent on to it, and the copy overwrites none of them with an older one. *)
THEOREM JoinedWhole ==
  Spec => []JoinsWhole
<1>1. ASSUME JoinInv, OrderInv, Quiet, NEW s \in whole, InOrder(s)
      PROVE  table[s] = table[s - 1]
  <2>1. s \in Server
    BY <1>1 DEF OrderInv, WriteInv, LabelInv
  <2>2. Flow(s) /\ table[s] = newest[s]
    BY <1>1, <2>1, QuietNewest
  <2>3. s > 1 /\ s - 1 \in Server
    BY <1>1, <2>1, <2>2, Below DEF Flow, Following
  <2>4. InOrder(s - 1)
    <3>1. \A u \in 1 .. s - 1 : u \in 1 .. s
      BY <2>1, Below
    <3> QED
      BY <1>1, <3>1 DEF InOrder
  <2>5. table[s - 1] = newest[s - 1]
    BY <1>1, <2>3, <2>4, QuietNewest
  <2>6. Above(s - 1) = {} /\ copy[s] = NoCopy
    BY <1>1, <2>1, <2>3, QuietFlow
  <2>7. \A k \in Key : newest[s - 1][k] = newest[s][k]
    BY <1>1, <2>2, <2>6 DEF Flow, Following
  <2>8. newest[s] \in [Key -> Message] /\ newest[s - 1] \in [Key -> Message]
    BY <1>1, <2>1, <2>3 DEF OrderInv, WriteInv, LabelInv
  <2> QED
    BY <2>2, <2>5, <2>7, <2>8
<1>2. JoinInv /\ OrderInv => JoinsWhole
  BY <1>1 DEF JoinsWhole
<1> QED
  BY <1>2, JoinInvariant, OrderInvariant, PTL
=============================================================================
