----------------------------- MODULE JoinProofs -----------------------------
(***************************************************************************)
(* For a chain of any length, in whatever order servers start and die: the *)
(* types of the state of Join, with the bound on what a connection holds   *)
(* and the answer that only a server that asked can have, and the reasons  *)
(* for which a server can start with an empty table.                       *)
(***************************************************************************)
EXTENDS Join, TLAPS, WellFoundedInduction

Link == [from : Server \cup {Client}, queue : Seq(Message), open : BOOLEAN,
         at : {"receive", "apply", "dropped"}, msg : Message]

NodeTypes ==
  /\ first \in FirstIds
  /\ znodes \subseteq Server
  /\ event \subseteq Watching
  /\ main \in [Server -> Places]
  /\ prev \in [Server -> Server \cup {NoServer}]

LinkTypes ==
  /\ next \in [Server -> (Server \X Nat) \cup {Nowhere}]
  /\ threads \in [Server -> Seq(Link)]
  /\ client \in (Server \X Nat) \cup {Nowhere}

DataTypes ==
  /\ table \in [Server -> [Key -> Message]]
  /\ copy \in [Server -> [Key -> Message] \cup {NoCopy}]
  /\ busy \in BOOLEAN
  /\ keys \in Seq(Key)

TypeInv == NodeTypes /\ LinkTypes /\ DataTypes

(* Servers start in order, the znode of one goes after it, and one that joins
   has found another below it. *)
StartInv ==
  /\ \A s \in Server : \A t \in Server :
       main[s] # "off" /\ t < s => main[t] # "off"
  /\ \A s \in Server : Alive(s) => s \in znodes
  /\ \A s \in Server :
       main[s] \in {"address", "connect", "copy"} =>
         prev[s] \in Server /\ prev[s] < s

(* The connection c, written down as the one of peer, is there as long as its
   server is, and is no other's. *)
Holds(peer, c, places, ths) ==
  c # Nowhere =>
    /\ places[c[1]] # "off"
    /\ places[c[1]] # "gone" =>
         c[2] \in DOMAIN ths[c[1]] /\ ths[c[1]][c[2]].from = peer

EndInv ==
  /\ \A s \in Server : ~ Alive(s) => threads[s] = <<>>
  /\ \A s \in Server : Holds(s, next[s], main, threads)
  /\ \A s \in Server : next[s] # Nowhere => s < next[s][1]
  /\ Holds(Client, client, main, threads)

(* What the client may still have in its connection: one write while it
   waits, and none before it writes. *)
Pending(c) == Len(c.queue) + (IF c.at = "apply" THEN 1 ELSE 0)

Fits(c, s, i, mine, waits) ==
  /\ Len(c.queue) <= LinkCap
  /\ c.from = Client =>
       mine = <<s, i>> /\ Pending(c) <= (IF waits THEN 1 ELSE 0)

FullInv ==
  \A s \in Server : \A i \in DOMAIN threads[s] :
    Fits(threads[s][i], s, i, client, busy)

(* A connection from a server further down is open while that server waits
   for its copy. *)
AskInv ==
  /\ \A s \in Server : \A i \in DOMAIN threads[s] :
       LET c == threads[s][i] IN
       c.open /\ c.from > s => main[c.from] = "copy" /\ prev[c.from] = s
  /\ \A s \in Server : copy[s] # NoCopy => main[s] = "copy"

LinkInv == EndInv /\ FullInv /\ AskInv

JoinInv == TypeInv /\ StartInv /\ LinkInv
-----------------------------------------------------------------------------
(* A set of numbers that is not empty has a least one. *)
LEMMA LeastNatural ==
  ASSUME NEW S \in SUBSET Nat, S # {}
  PROVE  \E n \in S : \A m \in S : n <= m
<1>1. IsWellFoundedOn(OpToRel(<, Nat), Nat)
  BY NatLessThanWellFounded
<1>2. PICK n \in S : \A m \in S : ~ (<<m, n>> \in OpToRel(<, Nat))
  BY <1>1, WFMin
<1>3. \A m \in S : ~ (m < n)
  BY <1>2 DEF OpToRel
<1> QED
  BY <1>3

(* The server that a search finds is one of those it searched. *)
LEMMA MinServer ==
  ASSUME NEW S \in SUBSET Server, S # {}
  PROVE  Min(S) \in S
<1>1. S \in SUBSET Nat
  BY DEF Server
<1>2. \E n \in S : \A m \in S : n =< m
  BY <1>1, LeastNatural
<1> QED
  BY <1>2 DEF Min

LEMMA MaxServer ==
  ASSUME NEW S \in SUBSET Server, S # {}
  PROVE  Max(S) \in S /\ \A m \in S : Max(S) >= m
<1> DEFINE mirror == {N - m : m \in S}
<1>1. mirror \in SUBSET Nat /\ mirror # {} /\ S \in SUBSET Nat
  <2>1. N \in Nat /\ \A m \in S : m \in Nat /\ m <= N
    BY JoinAssumption DEF Server
  <2>2. \A m \in S : N - m \in Nat
    BY <2>1
  <2> QED
    BY <2>1, <2>2
<1>2. PICK x \in mirror : \A y \in mirror : x <= y
  BY <1>1, LeastNatural
<1>3. PICK n \in S : x = N - n
  BY <1>2
<1>4. ASSUME NEW m \in S
      PROVE  n >= m
  <2>1. N - n <= N - m
    BY <1>2, <1>3
  <2>2. N \in Nat /\ n \in Nat /\ m \in Nat
    BY <1>1, JoinAssumption
  <2> QED
    BY <2>1, <2>2
<1> QED
  BY <1>4 DEF Max

(* A connection of the list takes another value, or one is added, or all are
   looked through. *)
LEMMA SetLink ==
  ASSUME NEW q \in Seq(Link), NEW i, NEW d,
         i \in DOMAIN q => d \in Link
  PROVE  LET r == [q EXCEPT ![i] = d] IN
         /\ r \in Seq(Link)
         /\ DOMAIN r = DOMAIN q
         /\ \A j \in DOMAIN q : r[j] = IF j = i THEN d ELSE q[j]
<1> DEFINE r == [q EXCEPT ![i] = d]
<1>1. DOMAIN q = 1 .. Len(q) /\ Len(q) \in Nat
  OBVIOUS
<1>2. r = [j \in DOMAIN q |-> IF j = i THEN d ELSE q[j]]
  OBVIOUS
<1>3. \A j \in DOMAIN q : (IF j = i THEN d ELSE q[j]) \in Link
  OBVIOUS
<1> HIDE DEF r
<1>4. r \in [1 .. Len(q) -> Link]
  BY <1>1, <1>2, <1>3
<1> QED
  BY <1>1, <1>2, <1>4 DEF r

LEMMA AddLink ==
  ASSUME NEW q \in Seq(Link), NEW d \in Link
  PROVE  LET r == Append(q, d) IN
         /\ r \in Seq(Link)
         /\ DOMAIN r = DOMAIN q \cup {Len(q) + 1}
         /\ Len(q) + 1 \notin DOMAIN q
         /\ \A j \in DOMAIN q : r[j] = q[j]
         /\ r[Len(q) + 1] = d
  OBVIOUS

LEMMA MapLinks ==
  ASSUME NEW q \in Seq(Link), NEW r, r = [i \in DOMAIN q |-> r[i]],
         \A i \in DOMAIN q : r[i] \in Link
  PROVE  r \in Seq(Link) /\ DOMAIN r = DOMAIN q
<1>1. DOMAIN q = 1 .. Len(q) /\ Len(q) \in Nat
  OBVIOUS
<1>2. r \in [1 .. Len(q) -> Link]
  BY <1>1
<1> QED
  BY <1>1, <1>2

(* The connection c with another value of its field open. *)
Shut(c, d) == \E b \in BOOLEAN : d = [c EXCEPT !.open = b] /\ (b => c.open)

LEMMA ShutLink ==
  ASSUME NEW c \in Link, NEW d, Shut(c, d)
  PROVE  /\ d \in Link
         /\ d.from = c.from /\ d.queue = c.queue /\ d.at = c.at /\ d.msg = c.msg
         /\ d.open => c.open
  BY DEF Shut, Link

LEMMA ClosingLinks ==
  ASSUME threads \in [Server -> Seq(Link)],
         NEW c \in (Server \X Nat) \cup {Nowhere}
  PROVE  /\ Closing(c, threads) \in [Server -> Seq(Link)]
         /\ \A t \in Server : DOMAIN Closing(c, threads)[t] = DOMAIN threads[t]
         /\ \A t \in Server : \A i \in DOMAIN threads[t] :
              Shut(threads[t][i], Closing(c, threads)[t][i])
<1>1. \A t \in Server : \A i \in DOMAIN threads[t] : threads[t][i] \in Link
  OBVIOUS
<1>2. \A d \in Link : Shut(d, d) /\ Shut(d, [d EXCEPT !.open = FALSE])
  BY DEF Shut, Link
<1>3. CASE c = Nowhere \/ ~ Alive(c[1])
  BY <1>1, <1>2, <1>3 DEF Closing
<1>4. CASE ~ (c = Nowhere \/ ~ Alive(c[1]))
  <2> DEFINE s == c[1]
             i == c[2]
             d == [threads[s][i] EXCEPT !.open = FALSE]
             r == [threads[s] EXCEPT ![i] = d]
  <2>1. s \in Server /\ threads[s] \in Seq(Link)
    BY <1>4
  <2>2. i \in DOMAIN threads[s] => d \in Link
    BY <1>1, <1>2, <2>1, ShutLink
  <2>3. Closing(c, threads) = [threads EXCEPT ![s] = r]
    BY <1>4 DEF Closing
  <2> HIDE DEF s, i, d
  <2>4. /\ r \in Seq(Link)
        /\ DOMAIN r = DOMAIN threads[s]
        /\ \A j \in DOMAIN threads[s] : r[j] = IF j = i THEN d ELSE threads[s][j]
    BY <2>1, <2>2, SetLink
  <2> HIDE DEF r
  <2>5. \A j \in DOMAIN threads[s] : Shut(threads[s][j], r[j])
    BY <1>1, <1>2, <2>1, <2>4 DEF d
  <2> QED
    BY <1>1, <1>2, <2>1, <2>3, <2>4, <2>5
<1> QED
  BY <1>3, <1>4
-----------------------------------------------------------------------------
LEMMA TypeInit ==
  Init => TypeInv
<1>1. NoTable \in [Key -> Message]
  BY JoinAssumption DEF NoTable, Message
<1> SUFFICES ASSUME Init
             PROVE  TypeInv
  OBVIOUS
<1>2. NodeTypes
  BY DEF Init, NodeTypes, Places, Watching
<1>3. LinkTypes
  BY DEF Init, LinkTypes
<1>4. DataTypes
  <2>1. /\ table \in [Server -> [Key -> Message]]
        /\ copy \in [Server -> [Key -> Message] \cup {NoCopy}]
    BY <1>1 DEF Init
  <2>2. keys \in Seq(Key)
    BY DEF Init
  <2>3. busy \in BOOLEAN
    BY DEF Init
  <2> QED
    BY <2>1, <2>2, <2>3 DEF DataTypes
<1> QED
  BY <1>2, <1>3, <1>4 DEF TypeInv

(* The steps of the main thread that change no connection, and the znodes. *)
LEMMA TypeMain ==
  ASSUME TypeInv, NEW s \in Server,
         Start(s) \/ ListPrevious(s) \/ GetPrevious(s) \/ Expire(s)
  PROVE  TypeInv'
<1>1. UNCHANGED <<next, threads, client, table, copy, busy, keys>>
  BY DEF Start, ListPrevious, GetPrevious, Expire, datavars, clivars, history
<1>2. LinkTypes' /\ DataTypes'
  BY <1>1 DEF TypeInv, LinkTypes, DataTypes
<1>3. CASE Start(s)
  BY <1>2, <1>3 DEF TypeInv, Start, NodeTypes, Places, Watching, Alive
<1>4. CASE ListPrevious(s)
  <2> DEFINE before == {t \in znodes : t < s /\ node_id(t) > 0}
  <2>1. before \in SUBSET Server
    BY DEF TypeInv, NodeTypes
  <2>2. before # {} => Max(before) \in Server
    BY <2>1, MaxServer
  <2>3. /\ before = {} => main' = [main EXCEPT ![s] = "serve"] /\ prev' = prev
        /\ before # {} => /\ main' = [main EXCEPT ![s] = "address"]
                          /\ prev' = [prev EXCEPT ![s] = Max(before)]
        /\ main[s] = "list" /\ UNCHANGED <<first, znodes, event>>
    BY <1>4 DEF ListPrevious
  <2> HIDE DEF before
  <2> QED
    BY <1>2, <2>2, <2>3 DEF TypeInv, NodeTypes, Places, Watching, Alive
<1>5. CASE GetPrevious(s)
  BY <1>2, <1>5 DEF TypeInv, GetPrevious, NodeTypes, Places, Watching, Alive
<1>6. CASE Expire(s)
  BY <1>2, <1>6 DEF TypeInv, Expire, NodeTypes, nodevars, Places, Watching, Alive
<1> QED
  BY <1>2, <1>3, <1>4, <1>5, <1>6

(* The ends of connections that a server closes. *)
LEMMA LeftLinks ==
  ASSUME TypeInv, NEW t \in Server, NEW s \in Server
  PROVE  /\ Left(t, s) \in Seq(Link)
         /\ DOMAIN Left(t, s) = DOMAIN threads[t]
         /\ \A i \in DOMAIN threads[t] :
              /\ Shut(threads[t][i], Left(t, s)[i])
              /\ threads[t][i].from = s => ~ Left(t, s)[i].open
<1>1. threads[t] \in Seq(Link)
  BY DEF TypeInv, LinkTypes
<1>2. ASSUME NEW i \in DOMAIN threads[t]
      PROVE  /\ Shut(threads[t][i], Left(t, s)[i])
             /\ Left(t, s)[i] \in Link
             /\ threads[t][i].from = s => ~ Left(t, s)[i].open
  <2> DEFINE b == threads[t][i].open /\ threads[t][i].from # s
  <2>1. threads[t][i] \in Link
    BY <1>1
  <2>2. Left(t, s)[i] = [threads[t][i] EXCEPT !.open = b]
    BY DEF Left
  <2>3. b \in BOOLEAN /\ (b => threads[t][i].open)
    OBVIOUS
  <2>4. Shut(threads[t][i], Left(t, s)[i])
    BY <2>2, <2>3 DEF Shut
  <2>5. Left(t, s)[i].open = b
    BY <2>1, <2>2 DEF Link
  <2> QED
    BY <2>1, <2>4, <2>5, ShutLink
<1>3. Left(t, s) = [i \in DOMAIN threads[t] |-> Left(t, s)[i]]
  BY DEF Left
<1> QED
  BY <1>1, <1>2, <1>3, MapLinks

LEMMA StopLinks ==
  ASSUME TypeInv, NEW s \in Server, Stop(s)
  PROVE  /\ threads' \in [Server -> Seq(Link)]
         /\ threads'[s] = <<>>
         /\ \A t \in Server \ {s} :
              /\ DOMAIN threads'[t] = DOMAIN threads[t]
              /\ \A i \in DOMAIN threads[t] :
                   /\ Shut(threads[t][i], threads'[t][i])
                   /\ threads[t][i].from = s => ~ threads'[t][i].open
<1>1. threads' = [t \in Server |-> IF t = s THEN <<>> ELSE Left(t, s)]
  BY DEF Stop
<1>2. <<>> \in Seq(Link)
  OBVIOUS
<1> QED
  BY <1>1, <1>2, LeftLinks

LEMMA TypeStop ==
  ASSUME TypeInv, NEW s \in Server, Stop(s)
  PROVE  TypeInv'
<1>1. LinkTypes'
  BY StopLinks DEF TypeInv, LinkTypes, Stop, clivars
<1>2. NodeTypes'
  BY DEF TypeInv, NodeTypes, Stop, Places, Watching, Alive
<1>3. NoTable \in [Key -> Message]
  BY JoinAssumption DEF NoTable, Message
<1>4. DataTypes'
  BY <1>3 DEF TypeInv, DataTypes, Stop, clivars
<1> QED
  BY <1>1, <1>2, <1>4 DEF TypeInv

(* One connection of one server changes, or a server gets one more. *)
LEMMA SetThread ==
  ASSUME NEW ths \in [Server -> Seq(Link)], NEW s \in Server, NEW i, NEW d,
         i \in DOMAIN ths[s] => d \in Link
  PROVE  LET r == [ths EXCEPT ![s][i] = d] IN
         /\ r \in [Server -> Seq(Link)]
         /\ \A u \in Server : DOMAIN r[u] = DOMAIN ths[u]
         /\ \A u \in Server : \A j \in DOMAIN ths[u] :
              r[u][j] = IF u = s /\ j = i THEN d ELSE ths[u][j]
<1> DEFINE q == [ths[s] EXCEPT ![i] = d]
           r == [ths EXCEPT ![s][i] = d]
<1>1. /\ q \in Seq(Link)
      /\ DOMAIN q = DOMAIN ths[s]
      /\ \A j \in DOMAIN ths[s] : q[j] = IF j = i THEN d ELSE ths[s][j]
  BY SetLink
<1>2. r = [ths EXCEPT ![s] = q]
  OBVIOUS
<1> HIDE DEF q, r
<1>3. r \in [Server -> Seq(Link)] /\ \A u \in Server : r[u] = IF u = s THEN q ELSE ths[u]
  BY <1>1, <1>2
<1>4. \A u \in Server : DOMAIN r[u] = DOMAIN ths[u]
  BY <1>1, <1>3
<1>5. \A u \in Server : \A j \in DOMAIN ths[u] :
        r[u][j] = IF u = s /\ j = i THEN d ELSE ths[u][j]
  BY <1>1, <1>3
<1> QED
  BY <1>3, <1>4, <1>5 DEF r

LEMMA AddThread ==
  ASSUME NEW ths \in [Server -> Seq(Link)], NEW s \in Server, NEW d \in Link
  PROVE  LET r == [ths EXCEPT ![s] = Append(@, d)]
             n == Len(ths[s]) + 1 IN
         /\ r \in [Server -> Seq(Link)]
         /\ \A u \in Server : u # s => r[u] = ths[u]
         /\ DOMAIN r[s] = DOMAIN ths[s] \cup {n}
         /\ n \notin DOMAIN ths[s]
         /\ r[s][n] = d
         /\ \A j \in DOMAIN ths[s] : r[s][j] = ths[s][j]
<1> DEFINE q == Append(ths[s], d)
<1>1. ths[s] \in Seq(Link)
  OBVIOUS
<1>2. /\ q \in Seq(Link)
      /\ DOMAIN q = DOMAIN ths[s] \cup {Len(ths[s]) + 1}
      /\ Len(ths[s]) + 1 \notin DOMAIN ths[s]
      /\ \A j \in DOMAIN ths[s] : q[j] = ths[s][j]
      /\ q[Len(ths[s]) + 1] = d
  BY <1>1, AddLink
<1> HIDE DEF q
<1> DEFINE r == [ths EXCEPT ![s] = q]
<1>3. r \in [Server -> Seq(Link)] /\ r[s] = q /\ \A u \in Server : u # s => r[u] = ths[u]
  BY <1>2
<1>4. r = [ths EXCEPT ![s] = Append(@, d)]
  BY DEF q
<1> HIDE DEF r
<1> QED
  BY <1>2, <1>3, <1>4

(* What clientThread makes of the message at hand. *)
LEMMA ThreadLink ==
  ASSUME NEW c \in Link, NEW at \in {"receive", "apply", "dropped"}
  PROVE  /\ [c EXCEPT !.at = at, !.msg = 0] \in Link
         /\ c.queue # <<>> =>
              /\ [c EXCEPT !.at = at, !.msg = Head(c.queue),
                           !.queue = Tail(c.queue)] \in Link
              /\ Head(c.queue) \in Message
<1>1. 0 \in Message
  BY JoinAssumption DEF Message
<1>2. c.queue \in Seq(Message)
  BY DEF Link
<1>3. c.queue # <<>> => Head(c.queue) \in Message /\ Tail(c.queue) \in Seq(Message)
  BY <1>2
<1>4. [c EXCEPT !.at = at, !.msg = 0] \in Link
  BY <1>1 DEF Link
<1>5. ASSUME NEW m \in Message, NEW q \in Seq(Message)
      PROVE  [c EXCEPT !.at = at, !.msg = m, !.queue = q] \in Link
  BY DEF Link
<1> QED
  BY <1>3, <1>4, <1>5

LEMMA NewLink ==
  /\ \A s \in Server : /\ Connection(s, <<>>) \in Link
                       /\ Connection(s, <<GetTable>>) \in Link
  /\ Connection(Client, <<>>) \in Link
<1>1. 0 \in Message /\ <<>> \in Seq(Message) /\ <<GetTable>> \in Seq(Message)
  BY JoinAssumption DEF Message, GetTable
<1> QED
  BY <1>1 DEF Connection, Link
-----------------------------------------------------------------------------
(* What each action makes of the connections, and the types after it. *)
LEMMA TypeAsk ==
  ASSUME TypeInv, StartInv, NEW s \in Server, AskTable(s)
  PROVE  TypeInv' /\ prev[s] \in Server
<1>1. prev[s] \in Server
  BY DEF StartInv, AskTable
<1>2. threads' \in [Server -> Seq(Link)]
  BY <1>1, NewLink, AddThread DEF TypeInv, LinkTypes, AskTable
<1>3. LinkTypes'
  BY <1>2 DEF TypeInv, LinkTypes, AskTable, clivars
<1>4. NodeTypes'
  BY DEF TypeInv, NodeTypes, AskTable, Places, Watching, Alive
<1>5. DataTypes'
  BY DEF TypeInv, DataTypes, AskTable, datavars, clivars
<1> QED
  BY <1>1, <1>3, <1>4, <1>5 DEF TypeInv

LEMMA CopyLinks ==
  ASSUME TypeInv, StartInv, NEW s \in Server, CopyTable(s)
  PROVE  /\ threads' \in [Server -> Seq(Link)]
         /\ prev[s] \in Server
         /\ \A t \in Server :
              /\ DOMAIN threads'[t] = DOMAIN threads[t]
              /\ \A i \in DOMAIN threads[t] :
                   /\ Shut(threads[t][i], threads'[t][i])
                   /\ t = prev[s] /\ threads[t][i].from = s => ~ threads'[t][i].open
<1>1. prev[s] \in Server
  BY DEF StartInv, CopyTable
<1>2. threads' = [threads EXCEPT ![prev[s]] = Left(prev[s], s)]
  BY DEF CopyTable
<1>3. \A t \in Server : \A i \in DOMAIN threads[t] :
        Shut(threads[t][i], threads[t][i])
  <2>1. \A t \in Server : \A i \in DOMAIN threads[t] : threads[t][i] \in Link
    BY DEF TypeInv, LinkTypes
  <2>2. \A c \in Link : Shut(c, c)
    BY DEF Shut, Link
  <2> QED
    BY <2>1, <2>2
<1>4. threads \in [Server -> Seq(Link)]
  BY DEF TypeInv, LinkTypes
<1> QED
  BY <1>1, <1>2, <1>3, <1>4, LeftLinks

LEMMA TypeCopy ==
  ASSUME TypeInv, StartInv, NEW s \in Server, CopyTable(s)
  PROVE  TypeInv'
<1>1. LinkTypes'
  BY CopyLinks DEF TypeInv, LinkTypes, CopyTable, clivars
<1>2. NodeTypes'
  BY DEF TypeInv, NodeTypes, CopyTable, Places, Watching, Alive
<1>3. copy[s] \in [Key -> Message] /\ table[s] \in [Key -> Message]
  BY DEF TypeInv, DataTypes, CopyTable
<1>4. Put(s) \in [Key -> Message]
  BY <1>3 DEF Put
<1>5. DataTypes'
  BY <1>4 DEF TypeInv, DataTypes, CopyTable, clivars
<1> QED
  BY <1>1, <1>2, <1>5 DEF TypeInv

(* A callback connects to the first server after its own. *)
LEMMA RewireLinks ==
  ASSUME TypeInv, NEW s \in Server, Rewire(s)
  PROVE  LET old == Closing(next[s], threads) IN
         \/ next' = [next EXCEPT ![s] = Nowhere] /\ threads' = old
         \/ \E t \in Server :
              /\ Alive(t) /\ s < t
              /\ next' = [next EXCEPT ![s] = <<t, Len(old[t]) + 1>>]
              /\ threads' = [old EXCEPT ![t] = Append(@, Connection(s, <<>>))]
<1>1. CASE Later(s) = {}
  BY <1>1 DEF Rewire
<1>2. CASE Later(s) # {}
  <2> DEFINE t == Min(Later(s))
             old == Closing(next[s], threads)
  <2>1. t \in Later(s)
    BY <1>2, MinServer DEF Later, TypeInv, NodeTypes
  <2>2. t \in Server /\ s < t
    BY <2>1 DEF Later, TypeInv, NodeTypes
  <2>3. /\ Alive(t)
        /\ next' = [next EXCEPT ![s] = <<t, Len(threads[t]) + 1>>]
        /\ threads' = [old EXCEPT ![t] = Append(@, Connection(s, <<>>))]
    BY <1>2 DEF Rewire
  <2>4. next[s] \in (Server \X Nat) \cup {Nowhere}
    BY DEF TypeInv, LinkTypes
  <2>5. /\ old \in [Server -> Seq(Link)]
        /\ DOMAIN old[t] = DOMAIN threads[t]
    BY <2>2, <2>4, ClosingLinks DEF TypeInv, LinkTypes
  <2>6. threads[t] \in Seq(Link) /\ old[t] \in Seq(Link)
    BY <2>2, <2>5 DEF TypeInv, LinkTypes
  <2> HIDE DEF t, old
  <2>7. Len(threads[t]) = Len(old[t])
    BY <2>5, <2>6
  <2> QED
    BY <2>2, <2>3, <2>7 DEF t, old
<1> QED
  BY <1>1, <1>2

LEMMA TypeRewire ==
  ASSUME TypeInv, NEW s \in Server, Rewire(s)
  PROVE  TypeInv'
<1> DEFINE old == Closing(next[s], threads)
<1>1. next[s] \in (Server \X Nat) \cup {Nowhere}
  BY DEF TypeInv, LinkTypes
<1>2. old \in [Server -> Seq(Link)]
  BY <1>1, ClosingLinks DEF TypeInv, LinkTypes
<1>3. client' = client
  BY DEF Rewire, clivars
<1>4. LinkTypes'
  <2>1. CASE next' = [next EXCEPT ![s] = Nowhere] /\ threads' = old
    BY <1>2, <1>3, <2>1 DEF TypeInv, LinkTypes
  <2>2. ASSUME NEW t \in Server,
               next' = [next EXCEPT ![s] = <<t, Len(old[t]) + 1>>],
               threads' = [old EXCEPT ![t] = Append(@, Connection(s, <<>>))]
        PROVE  LinkTypes'
    <3>1. Connection(s, <<>>) \in Link
      BY NewLink
    <3> HIDE DEF old
    <3>2. old[t] \in Seq(Link)
      BY <1>2
    <3>3. Len(old[t]) + 1 \in Nat
      BY <3>2
    <3>4. threads' \in [Server -> Seq(Link)]
      BY <1>2, <2>2, <3>1, AddThread
    <3> QED
      BY <1>3, <2>2, <3>3, <3>4 DEF TypeInv, LinkTypes
  <2> QED
    BY <2>1, <2>2, RewireLinks
<1>5. NodeTypes' /\ DataTypes'
  BY DEF TypeInv, NodeTypes, DataTypes, Rewire, nodevars, datavars, clivars,
         Places, Watching, Alive
<1> QED
  BY <1>4, <1>5 DEF TypeInv

(* What the thread of a connection c leaves of it. *)
Serves(c, d) ==
  /\ d \in Link /\ d.from = c.from /\ d.open = c.open
  /\ \/ c.queue # <<>> /\ d.queue = Tail(c.queue) /\ c.at = "receive"
     \/ d.queue = c.queue /\ c.at = "apply" /\ d.at # "apply"

LEMMA TakesLink ==
  ASSUME TypeInv, NEW s \in Server, NEW i \in DOMAIN threads[s],
         NEW at \in {"receive", "apply", "dropped"}, takes(s, i, at)
  PROVE  /\ Head(threads[s][i].queue) \in Message
         /\ \E d : Serves(threads[s][i], d) /\ threads' = [threads EXCEPT ![s][i] = d]
<1> DEFINE c == threads[s][i]
           d == [c EXCEPT !.at = at, !.msg = Head(c.queue), !.queue = Tail(c.queue)]
<1>1. c \in Link
  BY DEF TypeInv, LinkTypes
<1>2. c.at = "receive" /\ c.queue # <<>> /\ threads' = [threads EXCEPT ![s][i] = d]
  BY DEF takes
<1>3. d \in Link /\ Head(c.queue) \in Message
  BY <1>1, <1>2, ThreadLink
<1>4. d.from = c.from /\ d.open = c.open /\ d.queue = Tail(c.queue)
  BY <1>1 DEF Link
<1> HIDE DEF d
<1> QED
  BY <1>2, <1>3, <1>4 DEF Serves

LEMMA AnswersLink ==
  ASSUME TypeInv, NEW s \in Server, NEW i \in DOMAIN threads[s], answers(s, i)
  PROVE  /\ threads[s][i].at = "apply"
         /\ \E d : Serves(threads[s][i], d) /\ threads' = [threads EXCEPT ![s][i] = d]
<1> DEFINE c == threads[s][i]
<1>1. c \in Link
  BY DEF TypeInv, LinkTypes
<1>2. PICK to \in {"receive", "dropped"} :
        threads' = [threads EXCEPT ![s][i] = [c EXCEPT !.at = to, !.msg = 0]]
  BY DEF answers
<1> DEFINE d == [c EXCEPT !.at = to, !.msg = 0]
<1>3. c.at = "apply"
  BY DEF answers
<1>4. d \in Link
  BY <1>1, ThreadLink
<1>5. d.from = c.from /\ d.open = c.open /\ d.queue = c.queue /\ d.at = to
  BY <1>1 DEF Link
<1> HIDE DEF d
<1> QED
  BY <1>2, <1>3, <1>4, <1>5 DEF Serves, d

(* Besides, Propagate adds to the connection to the successor. *)
LEMMA PropagateLinks ==
  ASSUME TypeInv, EndInv, NEW s \in Server, NEW i \in DOMAIN threads[s],
         Propagate(s, i)
  PROVE  LET t == next[s][1]
             j == next[s][2] IN
         /\ threads' \in [Server -> Seq(Link)]
         /\ \A u \in Server : DOMAIN threads'[u] = DOMAIN threads[u]
         /\ t \in Server /\ j \in DOMAIN threads[t] /\ threads[t][j].from = s
         /\ \A u \in Server : \A k \in DOMAIN threads[u] :
              IF u = t /\ k = j
              THEN threads'[u][k] \in Link
                   /\ threads'[u][k].from = s
                   /\ (threads'[u][k].open => threads[u][k].open)
                   /\ Len(threads'[u][k].queue) <= LinkCap
              ELSE IF u = s /\ k = i
              THEN Serves(threads[u][k], threads'[u][k])
              ELSE threads'[u][k] = threads[u][k]
<1> DEFINE c == threads[s][i]
           t == next[s][1]
           j == next[s][2]
           m == Head(c.queue)
           d == [c EXCEPT !.at = "apply", !.msg = m, !.queue = Tail(c.queue)]
           mid == [threads EXCEPT ![s][i] = d]
           e == [mid[t][j] EXCEPT !.queue = Append(@, m)]
<1>1. c \in Link /\ c.at = "receive" /\ c.queue # <<>>
  <2>1. threads[s][i] \in Link
    BY DEF TypeInv, LinkTypes
  <2>2. threads[s][i].at = "receive" /\ threads[s][i].queue # <<>>
    BY DEF Propagate
  <2> QED
    BY <2>1, <2>2
<1>2. d \in Link /\ m \in Message
  BY <1>1, ThreadLink
<1>3. d.from = c.from /\ d.open = c.open /\ d.queue = Tail(c.queue)
  BY <1>1 DEF Link
<1>4. Serves(c, d)
  BY <1>1, <1>2, <1>3 DEF Serves
<1>5. /\ t \in Server /\ j \in DOMAIN threads[t] /\ threads[t][j].from = s
      /\ Len(threads[t][j].queue) < LinkCap
      /\ s < t
  <2>1. next[s] # Nowhere /\ Alive(t) /\ Len(threads[t][j].queue) < LinkCap
    BY DEF Propagate, Open
  <2>2. t \in Server
    BY <2>1 DEF TypeInv, LinkTypes
  <2> QED
    BY <2>1, <2>2 DEF EndInv, Holds, Alive
<1>6. s \in Nat /\ t # s
  <2> HIDE DEF t
  <2>1. s < t /\ s \in Nat /\ t \in Nat
    BY <1>5, JoinAssumption DEF Server
  <2> QED
    BY <2>1
<1>7. /\ mid \in [Server -> Seq(Link)]
      /\ \A u \in Server : DOMAIN mid[u] = DOMAIN threads[u]
      /\ \A u \in Server : \A k \in DOMAIN threads[u] :
           mid[u][k] = IF u = s /\ k = i THEN d ELSE threads[u][k]
  BY <1>2, SetThread DEF TypeInv, LinkTypes
<1> HIDE DEF mid, d, t, j, m
<1>8. threads[t][j] \in Link
  BY <1>5 DEF TypeInv, LinkTypes
<1>9. mid[t] = threads[t]
  BY <1>5, <1>6 DEF mid
<1>10. threads' = [mid EXCEPT ![t][j] = e]
  <2>1. mid[t][j] = threads[t][j]
    BY <1>9
  <2>2. threads' = [threads EXCEPT ![s][i] = d, ![t][j].queue = Append(@, m)]
    BY DEF Propagate, d, t, j, m
  <2> QED
    BY <1>6, <2>1, <2>2 DEF mid
<1>11. /\ e \in Link /\ e.from = s
       /\ e.open = threads[t][j].open
       /\ Len(e.queue) <= LinkCap
  <2>1. mid[t][j] = threads[t][j] /\ threads[t][j].queue \in Seq(Message)
    BY <1>8, <1>9 DEF Link
  <2>2. /\ Append(threads[t][j].queue, m) \in Seq(Message)
        /\ Len(Append(threads[t][j].queue, m)) = Len(threads[t][j].queue) + 1
    BY <1>2, <2>1
  <2>3. Len(threads[t][j].queue) + 1 <= LinkCap
    <3>1. Len(threads[t][j].queue) \in Nat
      BY <2>1
    <3> QED
      BY <1>5, <3>1, JoinAssumption
  <2> QED
    BY <1>5, <1>8, <2>1, <2>2, <2>3 DEF Link
<1> HIDE DEF e
<1>12. /\ threads' \in [Server -> Seq(Link)]
       /\ \A u \in Server : DOMAIN threads'[u] = DOMAIN mid[u]
       /\ \A u \in Server : \A k \in DOMAIN mid[u] :
            threads'[u][k] = IF u = t /\ k = j THEN e ELSE mid[u][k]
  BY <1>5, <1>7, <1>10, <1>11, SetThread
<1>13. \A u \in Server : DOMAIN threads'[u] = DOMAIN threads[u]
  BY <1>7, <1>12
<1>14. ASSUME NEW u \in Server, NEW k \in DOMAIN threads[u]
       PROVE  IF u = t /\ k = j
              THEN threads'[u][k] \in Link
                   /\ threads'[u][k].from = s
                   /\ (threads'[u][k].open => threads[u][k].open)
                   /\ Len(threads'[u][k].queue) <= LinkCap
              ELSE IF u = s /\ k = i
              THEN Serves(threads[u][k], threads'[u][k])
              ELSE threads'[u][k] = threads[u][k]
  BY <1>4, <1>7, <1>11, <1>12
<1> QED
  BY <1>5, <1>12, <1>13, <1>14 DEF t, j

(* The client's connection to the head, and its next write. *)
LEMMA ConnectLinks ==
  ASSUME TypeInv, Connect
  PROVE  \E h \in Server :
           /\ Alive(h)
           /\ client' = <<h, Len(threads[h]) + 1>>
           /\ threads' = [threads EXCEPT ![h] = Append(@, Connection(Client, <<>>))]
<1>1. Min(znodes) \in Server
  BY MinServer DEF Connect, TypeInv, NodeTypes
<1> QED
  BY <1>1 DEF Connect

LEMMA TypeConnect ==
  ASSUME TypeInv, Connect
  PROVE  TypeInv'
<1>1. PICK h \in Server :
        /\ client' = <<h, Len(threads[h]) + 1>>
        /\ threads' = [threads EXCEPT ![h] = Append(@, Connection(Client, <<>>))]
  BY ConnectLinks
<1>2. threads[h] \in Seq(Link)
  BY DEF TypeInv, LinkTypes
<1>3. Len(threads[h]) + 1 \in Nat
  BY <1>2
<1>4. threads' \in [Server -> Seq(Link)]
  BY <1>1, NewLink, AddThread DEF TypeInv, LinkTypes
<1>5. LinkTypes'
  BY <1>1, <1>3, <1>4 DEF TypeInv, LinkTypes, Connect
<1>6. NodeTypes'
  BY DEF TypeInv, NodeTypes, Connect, nodevars, Places, Watching, Alive
<1>7. DataTypes'
  BY DEF TypeInv, DataTypes, Connect, datavars
<1> QED
  BY <1>5, <1>6, <1>7 DEF TypeInv

Sends(c, d) ==
  /\ d \in Link /\ d.from = c.from /\ d.open = c.open /\ d.at = c.at
  /\ Len(d.queue) = Len(c.queue) + 1

LEMMA WriteLinks ==
  ASSUME TypeInv, NEW k \in Key, Write(k)
  PROVE  \E d : /\ client[1] \in Server
                /\ threads' = [threads EXCEPT ![client[1]][client[2]] = d]
                /\ client[2] \in DOMAIN threads[client[1]] =>
                     Sends(threads[client[1]][client[2]], d)
<1> DEFINE s == client[1]
           i == client[2]
           c == threads[s][i]
           n == Len(keys) + 1
           d == [c EXCEPT !.queue = Append(@, n)]
<1>1. client # Nowhere /\ n <= MaxWrites /\ threads' = [threads EXCEPT ![s][i] = d]
  BY DEF Write, Open
<1>2. s \in Server
  BY <1>1 DEF TypeInv, LinkTypes
<1>3. n \in Message
  <2>1. Len(keys) \in Nat
    BY DEF TypeInv, DataTypes
  <2> QED
    BY <1>1, <2>1, JoinAssumption DEF Message
<1> HIDE DEF n
<1>4. ASSUME i \in DOMAIN threads[s]
      PROVE  Sends(c, d)
  <2>1. c \in Link
    BY <1>2, <1>4 DEF TypeInv, LinkTypes
  <2>2. c.queue \in Seq(Message)
    BY <2>1 DEF Link
  <2>3. Append(c.queue, n) \in Seq(Message)
        /\ Len(Append(c.queue, n)) = Len(c.queue) + 1
    BY <1>3, <2>2
  <2> QED
    BY <2>1, <2>3 DEF Link, Sends
<1> HIDE DEF d
<1> QED
  BY <1>1, <1>2, <1>4

LEMMA TypeWrite ==
  ASSUME TypeInv, NEW k \in Key, Write(k)
  PROVE  TypeInv'
<1>1. PICK d : /\ client[1] \in Server
               /\ threads' = [threads EXCEPT ![client[1]][client[2]] = d]
               /\ client[2] \in DOMAIN threads[client[1]] =>
                    Sends(threads[client[1]][client[2]], d)
  BY WriteLinks
<1>2. threads' \in [Server -> Seq(Link)]
  <2>1. threads \in [Server -> Seq(Link)]
    BY DEF TypeInv, LinkTypes
  <2>2. client[2] \in DOMAIN threads[client[1]] => d \in Link
    BY <1>1 DEF Sends
  <2> DEFINE s == client[1]
             i == client[2]
  <2>3. s \in Server /\ (i \in DOMAIN threads[s] => d \in Link)
    BY <1>1, <2>2
  <2>4. threads' = [threads EXCEPT ![s][i] = d]
    BY <1>1
  <2> HIDE DEF s, i
  <2> QED
    BY <2>1, <2>3, <2>4, SetThread
<1>3. LinkTypes'
  BY <1>2 DEF TypeInv, LinkTypes, Write
<1>4. NodeTypes'
  BY DEF TypeInv, NodeTypes, Write, nodevars, Places, Watching, Alive
<1>5. keys' \in Seq(Key)
  BY DEF TypeInv, DataTypes, Write
<1>6. DataTypes'
  BY <1>5 DEF TypeInv, DataTypes, Write, datavars
<1> QED
  BY <1>3, <1>4, <1>6 DEF TypeInv

(* All that a thread does but Propagate leaves the other connections alone. *)
LEMMA ServeLinks ==
  ASSUME TypeInv, NEW s \in Server, NEW i \in DOMAIN threads[s],
         \/ PropagateNowhere(s, i) \/ PropagateFails(s, i)
         \/ ApplyWrite(s, i) \/ AnswerTable(s, i)
  PROVE  /\ threads' \in [Server -> Seq(Link)]
         /\ \A u \in Server : DOMAIN threads'[u] = DOMAIN threads[u]
         /\ \A u \in Server : \A k \in DOMAIN threads[u] :
              IF u = s /\ k = i
              THEN Serves(threads[u][k], threads'[u][k])
              ELSE threads'[u][k] = threads[u][k]
<1>1. \E d : Serves(threads[s][i], d) /\ threads' = [threads EXCEPT ![s][i] = d]
  <2>1. CASE PropagateNowhere(s, i) \/ PropagateFails(s, i)
    BY <2>1, TakesLink DEF PropagateNowhere, PropagateFails
  <2>2. CASE ApplyWrite(s, i) \/ AnswerTable(s, i)
    BY <2>2, AnswersLink DEF ApplyWrite, AnswerTable
  <2> QED
    BY <2>1, <2>2
<1>2. PICK d : Serves(threads[s][i], d) /\ threads' = [threads EXCEPT ![s][i] = d]
  BY <1>1
<1>3. d \in Link /\ threads \in [Server -> Seq(Link)]
  BY <1>2 DEF Serves, TypeInv, LinkTypes
<1>4. /\ threads' \in [Server -> Seq(Link)]
      /\ \A u \in Server : DOMAIN threads'[u] = DOMAIN threads[u]
      /\ \A u \in Server : \A k \in DOMAIN threads[u] :
           threads'[u][k] = IF u = s /\ k = i THEN d ELSE threads[u][k]
  BY <1>2, <1>3, SetThread
<1> QED
  BY <1>2, <1>4

LEMMA TypeThread ==
  ASSUME TypeInv, EndInv, NEW s \in Server, NEW i \in DOMAIN threads[s],
         clientThread(s, i)
  PROVE  TypeInv'
<1>1. UNCHANGED <<first, znodes, event, main, prev, next, client, keys>>
  BY DEF clientThread, Propagate, PropagateNowhere, PropagateFails, ApplyWrite,
         AnswerTable, nodevars, clivars
<1>2. NodeTypes'
  BY <1>1 DEF TypeInv, NodeTypes, Places, Watching, Alive
<1>3. threads' \in [Server -> Seq(Link)]
  BY ServeLinks, PropagateLinks DEF clientThread
<1>4. LinkTypes'
  BY <1>1, <1>3 DEF TypeInv, LinkTypes
<1>5. CASE Propagate(s, i) \/ PropagateNowhere(s, i) \/ PropagateFails(s, i)
  <2>1. UNCHANGED <<table, copy, busy, keys>>
    BY <1>5 DEF Propagate, PropagateNowhere, PropagateFails, datavars, clivars
  <2>2. DataTypes'
    BY <2>1 DEF TypeInv, DataTypes
  <2> QED
    BY <1>2, <1>4, <2>2 DEF TypeInv
<1>6. threads[s][i].msg \in Message
  <2>1. threads[s][i] \in Link
    BY DEF TypeInv, LinkTypes
  <2> QED
    BY <2>1 DEF Link
<1>7. CASE ApplyWrite(s, i)
  <2>1. /\ table' = [table EXCEPT ![s][keys[threads[s][i].msg]] = threads[s][i].msg]
        /\ copy' = copy
    BY <1>7 DEF ApplyWrite
  <2>2. table' \in [Server -> [Key -> Message]]
    BY <1>6, <2>1 DEF TypeInv, DataTypes
  <2>3. busy' \in BOOLEAN
    BY <1>7 DEF ApplyWrite
  <2>4. DataTypes'
    BY <1>1, <2>1, <2>2, <2>3 DEF TypeInv, DataTypes
  <2> QED
    BY <1>2, <1>4, <2>4 DEF TypeInv
<1>8. CASE AnswerTable(s, i)
  <2>1. copy' = copy \/ copy' = [copy EXCEPT ![threads[s][i].from] = table[s]]
    BY <1>8 DEF AnswerTable
  <2>2. table' = table /\ busy' = busy
    BY <1>8 DEF AnswerTable, clivars
  <2>3. table[s] \in [Key -> Message]
    BY DEF TypeInv, DataTypes
  <2>4. DataTypes'
    BY <1>1, <2>1, <2>2, <2>3 DEF TypeInv, DataTypes
  <2> QED
    BY <1>2, <1>4, <2>4 DEF TypeInv
<1> QED
  BY <1>5, <1>7, <1>8 DEF clientThread

(* The actions that end a process. *)
LEMMA Ends ==
  ASSUME TypeInv, NEW s \in Server, AskFails(s) \/ Crash(s) \/ RewireFails(s)
  PROVE  Stop(s) /\ main[s] # "off"
  BY DEF TypeInv, NodeTypes, AskFails, Crash, RewireFails, Watching, Alive

(* The actions of a server, one by one. *)
LEMMA Cases ==
  ASSUME Next
  PROVE  \/ \E s \in Server :
              \/ Start(s) \/ ListPrevious(s) \/ GetPrevious(s) \/ Expire(s)
              \/ AskTable(s) \/ CopyTable(s) \/ Rewire(s)
              \/ AskFails(s) \/ Crash(s) \/ RewireFails(s)
              \/ \E i \in DOMAIN threads[s] : clientThread(s, i)
         \/ Connect
         \/ \E k \in Key : Write(k)
  BY DEF Next, Work, main_thread, child_watcher

LEMMA TypeStep ==
  ASSUME TypeInv, StartInv, EndInv, [Next]_vars
  PROVE  TypeInv'
<1>1. CASE UNCHANGED vars
  BY <1>1 DEF vars, nodevars, datavars, clivars, history, TypeInv, NodeTypes,
              LinkTypes, DataTypes, Watching, Alive
<1>2. CASE Next
  BY <1>2, Cases, TypeMain, TypeAsk, TypeCopy, TypeRewire, TypeStop, Ends,
     TypeThread, TypeConnect, TypeWrite
<1> QED
  BY <1>1, <1>2
-----------------------------------------------------------------------------
(* Nothing but Start and Stop decides who has a znode and who runs. *)
LEMMA StartStep ==
  ASSUME TypeInv, StartInv, NEW s \in Server,
         \/ Start(s) \/ ListPrevious(s) \/ GetPrevious(s) \/ Expire(s)
         \/ AskTable(s) \/ CopyTable(s)
         \/ Stop(s) /\ main[s] # "off"
  PROVE  StartInv'
<1>1. main \in [Server -> Places] /\ prev \in [Server -> Server \cup {NoServer}]
  BY DEF TypeInv, NodeTypes
<1>2. CASE Start(s)
  <2>1. /\ main' = [main EXCEPT ![s] = "list"] /\ main[s] = "off"
        /\ \A t \in Server : t < s => main[t] # "off"
        /\ znodes' = znodes \cup {s} /\ prev' = prev
    BY <1>2 DEF Start
  <2> QED
    BY <1>1, <2>1 DEF StartInv, Alive
<1>3. CASE ListPrevious(s)
  <2> DEFINE before == {t \in znodes : t < s /\ node_id(t) > 0}
  <2>1. before \in SUBSET Server
    BY DEF TypeInv, NodeTypes
  <2>2. before # {} => Max(before) \in before
    BY <2>1, MaxServer
  <2>3. before # {} => Max(before) \in Server /\ Max(before) < s
    BY <2>1, <2>2
  <2>4. /\ main[s] = "list" /\ znodes' = znodes
        /\ \/ main' = [main EXCEPT ![s] = "serve"] /\ prev' = prev
           \/ /\ before # {} /\ main' = [main EXCEPT ![s] = "address"]
              /\ prev' = [prev EXCEPT ![s] = Max(before)]
    BY <1>3 DEF ListPrevious
  <2> HIDE DEF before
  <2> QED
    BY <1>1, <2>3, <2>4 DEF StartInv, Alive
<1>4. CASE GetPrevious(s) \/ AskTable(s)
  <2>1. /\ main[s] \in {"address", "connect"} /\ znodes' = znodes /\ prev' = prev
        /\ \E place \in {"connect", "serve", "copy"} :
             main' = [main EXCEPT ![s] = place]
    BY <1>4 DEF GetPrevious, AskTable
  <2> QED
    BY <1>1, <2>1 DEF StartInv, Alive
<1>5. CASE CopyTable(s)
  <2>1. /\ main[s] = "copy" /\ znodes' = znodes
        /\ main' = [main EXCEPT ![s] = "serve"]
        /\ prev' = [prev EXCEPT ![s] = NoServer]
    BY <1>5 DEF CopyTable
  <2> QED
    BY <1>1, <2>1 DEF StartInv, Alive
<1>6. CASE Expire(s)
  BY <1>1, <1>6 DEF StartInv, Expire, nodevars, Alive
<1>7. CASE Stop(s) /\ main[s] # "off"
  <2>1. /\ main' = [main EXCEPT ![s] = "gone"] /\ znodes' = znodes
        /\ prev' = [prev EXCEPT ![s] = NoServer]
    BY <1>7 DEF Stop
  <2> QED
    BY <1>1, <1>7, <2>1 DEF StartInv, Alive
<1> QED
  BY <1>2, <1>3, <1>4, <1>5, <1>6, <1>7

LEMMA StartSteps ==
  ASSUME TypeInv, StartInv, [Next]_vars
  PROVE  StartInv'
<1>1. ASSUME UNCHANGED <<main, prev, znodes>>
      PROVE  StartInv'
  BY <1>1 DEF StartInv, Alive
<1>2. CASE UNCHANGED vars
  BY <1>1, <1>2 DEF vars, nodevars
<1>3. ASSUME NEW s \in Server,
             Rewire(s) \/ \E i \in DOMAIN threads[s] : clientThread(s, i)
      PROVE  StartInv'
  BY <1>1, <1>3 DEF Rewire, clientThread, Propagate, PropagateNowhere,
     PropagateFails, ApplyWrite, AnswerTable, nodevars
<1>4. ASSUME Connect \/ \E k \in Key : Write(k)
      PROVE  StartInv'
  BY <1>1, <1>4 DEF Connect, Write, nodevars
<1>5. ASSUME NEW s \in Server,
             \/ Start(s) \/ ListPrevious(s) \/ GetPrevious(s) \/ Expire(s)
             \/ AskTable(s) \/ CopyTable(s)
             \/ AskFails(s) \/ Crash(s) \/ RewireFails(s)
      PROVE  StartInv'
  <2>1. CASE AskFails(s) \/ Crash(s) \/ RewireFails(s)
    BY <2>1, Ends, StartStep
  <2>2. CASE \/ Start(s) \/ ListPrevious(s) \/ GetPrevious(s) \/ Expire(s)
             \/ AskTable(s) \/ CopyTable(s)
    BY <2>2, StartStep
  <2> QED
    BY <1>5, <2>1, <2>2
<1> QED
  BY <1>2, <1>3, <1>4, <1>5, Cases

(* A server that has started, and whose znode is not there, has died. *)
LEMMA NoZnode ==
  ASSUME TypeInv, StartInv, NEW s \in Server, main[s] # "off",
         NEW t \in Server, t < s, t \notin znodes
  PROVE  main[t] = "gone"
  BY DEF StartInv, Alive

LEMMA ZnodeNumber ==
  ASSUME TypeInv, NEW t \in Server
  PROVE  node_id(t) \in Nat
  BY JoinAssumption DEF node_id, Server, TypeInv, NodeTypes

(* A server that serves without a copy has just looked for its predecessor. *)
LEMMA MainStep ==
  ASSUME TypeInv, [Next]_vars
  PROVE  /\ first' = first
         /\ \A t \in Server : main[t] = "gone" => main'[t] = "gone"
         /\ \A t \in Server : main'[t] = "serve" /\ t \notin copied' =>
              \/ main[t] = "serve" /\ t \notin copied
              \/ ListPrevious(t) \/ GetPrevious(t)
<1>1. main \in [Server -> Places]
  BY DEF TypeInv, NodeTypes
<1>2. ASSUME UNCHANGED <<first, main, copied>>
      PROVE  /\ first' = first
             /\ \A t \in Server : main[t] = "gone" => main'[t] = "gone"
             /\ \A t \in Server : main'[t] = "serve" /\ t \notin copied' =>
                  main[t] = "serve" /\ t \notin copied
  BY <1>2
<1>3. CASE UNCHANGED vars
  BY <1>2, <1>3 DEF vars, nodevars, history
<1>4. CASE Connect \/ \E k \in Key : Write(k)
  BY <1>2, <1>4 DEF Connect, Write, nodevars, history
<1>5. ASSUME NEW s \in Server,
             \/ Expire(s) \/ Rewire(s)
             \/ \E i \in DOMAIN threads[s] : clientThread(s, i)
      PROVE  UNCHANGED <<first, main, copied>>
  BY <1>5 DEF Expire, Rewire, clientThread, Propagate, PropagateNowhere,
     PropagateFails, ApplyWrite, AnswerTable, nodevars, history
<1>6. ASSUME NEW s \in Server, ListPrevious(s) \/ GetPrevious(s)
      PROVE  /\ first' = first /\ copied' = copied /\ main[s] # "gone"
             /\ \E place : main' = [main EXCEPT ![s] = place]
  BY <1>6 DEF ListPrevious, GetPrevious, history
<1>7. ASSUME NEW s \in Server, Start(s) \/ AskTable(s) \/ CopyTable(s)
      PROVE  /\ first' = first /\ main[s] # "gone"
             /\ \E place : /\ main' = [main EXCEPT ![s] = place]
                           /\ place = "serve" => s \in copied'
             /\ copied \subseteq copied'
  BY <1>7 DEF Start, AskTable, CopyTable, history
<1>8. ASSUME NEW s \in Server, AskFails(s) \/ Crash(s) \/ RewireFails(s)
      PROVE  /\ first' = first /\ copied' = copied
             /\ main' = [main EXCEPT ![s] = "gone"]
  BY <1>8, Ends DEF Stop
<1>9. ASSUME NEW s \in Server,
             \/ Start(s) \/ ListPrevious(s) \/ GetPrevious(s) \/ Expire(s)
             \/ AskTable(s) \/ CopyTable(s) \/ Rewire(s)
             \/ AskFails(s) \/ Crash(s) \/ RewireFails(s)
             \/ \E i \in DOMAIN threads[s] : clientThread(s, i)
      PROVE  /\ first' = first
             /\ \A t \in Server : main[t] = "gone" => main'[t] = "gone"
             /\ \A t \in Server : main'[t] = "serve" /\ t \notin copied' =>
                  \/ main[t] = "serve" /\ t \notin copied
                  \/ ListPrevious(t) \/ GetPrevious(t)
  <2>1. CASE Expire(s) \/ Rewire(s) \/ \E i \in DOMAIN threads[s] : clientThread(s, i)
    BY <1>2, <1>5, <2>1
  <2>2. CASE ListPrevious(s) \/ GetPrevious(s)
    BY <1>1, <1>6, <2>2
  <2>3. CASE Start(s) \/ AskTable(s) \/ CopyTable(s)
    BY <1>1, <1>7, <2>3
  <2>4. CASE AskFails(s) \/ Crash(s) \/ RewireFails(s)
    BY <1>1, <1>8, <2>4
  <2> QED
    BY <1>9, <2>1, <2>2, <2>3, <2>4
<1> QED
  BY <1>2, <1>3, <1>4, <1>9, Cases

(* Only the search changes which predecessor a server has found, as long as
   the server neither ends nor has its copy. *)
LEMMA PrevStep ==
  ASSUME TypeInv, StartInv, [Next]_vars, NEW s \in Server
  PROVE  \/ ListPrevious(s)
         \/ /\ main'[s] = "address" => main[s] = "address" /\ prev'[s] = prev[s]
            /\ main[s] = "serve" /\ main'[s] = "serve" => prev'[s] = prev[s]
<1>1. main \in [Server -> Places] /\ prev \in [Server -> Server \cup {NoServer}]
  BY DEF TypeInv, NodeTypes
<1>2. ASSUME UNCHANGED <<main, prev>>
      PROVE  /\ main'[s] = "address" => main[s] = "address" /\ prev'[s] = prev[s]
             /\ main[s] = "serve" /\ main'[s] = "serve" => prev'[s] = prev[s]
  BY <1>2
<1>3. CASE UNCHANGED vars
  BY <1>2, <1>3 DEF vars, nodevars
<1>4. CASE Connect \/ \E k \in Key : Write(k)
  BY <1>2, <1>4 DEF Connect, Write, nodevars
<1>5. ASSUME NEW t \in Server,
             \/ Expire(t) \/ Rewire(t)
             \/ \E i \in DOMAIN threads[t] : clientThread(t, i)
      PROVE  UNCHANGED <<main, prev>>
  BY <1>5 DEF Expire, Rewire, clientThread, Propagate, PropagateNowhere,
     PropagateFails, ApplyWrite, AnswerTable, nodevars
<1>6. ASSUME NEW t \in Server, Start(t) \/ GetPrevious(t) \/ AskTable(t)
      PROVE  /\ prev' = prev
             /\ \E place : place # "address" /\ main' = [main EXCEPT ![t] = place]
  BY <1>6 DEF Start, GetPrevious, AskTable
<1>7. ASSUME NEW t \in Server, CopyTable(t)
      PROVE  /\ main[t] = "copy" /\ main' = [main EXCEPT ![t] = "serve"]
             /\ prev' = [prev EXCEPT ![t] = NoServer]
  BY <1>7 DEF CopyTable
<1>8. ASSUME NEW t \in Server, AskFails(t) \/ Crash(t) \/ RewireFails(t)
      PROVE  /\ main' = [main EXCEPT ![t] = "gone"]
             /\ prev' = [prev EXCEPT ![t] = NoServer]
  BY <1>8, Ends DEF Stop
<1>9. ASSUME NEW t \in Server, t # s, ListPrevious(t)
      PROVE  main'[s] = main[s] /\ prev'[s] = prev[s]
  BY <1>1, <1>9 DEF ListPrevious
<1>10. ASSUME NEW t \in Server,
              \/ Start(t) \/ ListPrevious(t) \/ GetPrevious(t) \/ Expire(t)
              \/ AskTable(t) \/ CopyTable(t) \/ Rewire(t)
              \/ AskFails(t) \/ Crash(t) \/ RewireFails(t)
              \/ \E i \in DOMAIN threads[t] : clientThread(t, i)
       PROVE  \/ ListPrevious(s)
              \/ /\ main'[s] = "address" => main[s] = "address" /\ prev'[s] = prev[s]
                 /\ main[s] = "serve" /\ main'[s] = "serve" => prev'[s] = prev[s]
  <2>1. CASE Expire(t) \/ Rewire(t) \/ \E i \in DOMAIN threads[t] : clientThread(t, i)
    BY <1>2, <1>5, <2>1
  <2>2. CASE Start(t) \/ GetPrevious(t) \/ AskTable(t)
    BY <1>1, <1>6, <2>2
  <2>3. CASE CopyTable(t)
    BY <1>1, <1>7, <2>3
  <2>4. CASE AskFails(t) \/ Crash(t) \/ RewireFails(t)
    BY <1>1, <1>8, <2>4
  <2>5. CASE ListPrevious(t)
    BY <1>9, <2>5
  <2> QED
    BY <1>10, <2>1, <2>2, <2>3, <2>4, <2>5
<1> QED
  BY <1>2, <1>3, <1>4, <1>10, Cases

(* What main has not found in /chain behind the predecessor it found. *)
SeekInv ==
  \A s \in Server : main[s] = "address" =>
    \A t \in 1 .. s - 1 : t > prev[s] => main[t] = "gone"

(* Among the servers before s, those that a search of /chain passes over. *)
LEMMA PassedOver ==
  ASSUME TypeInv, StartInv, NEW s \in Server, main[s] = "list",
         NEW t \in Server, t < s,
         t \notin {u \in znodes : u < s /\ node_id(u) > 0}
  PROVE  main[t] = "gone" \/ node_id(t) = 0
<1>1. CASE t \in znodes
  <2>1. node_id(t) \in Nat /\ ~ (node_id(t) > 0)
    BY <1>1, ZnodeNumber
  <2> QED
    BY <2>1
<1>2. CASE t \notin znodes
  BY <1>2, NoZnode
<1> QED
  BY <1>1, <1>2

LEMMA SeekStep ==
  ASSUME TypeInv, StartInv, SeekInv, [Next]_vars
  PROVE  SeekInv'
<1> SUFFICES ASSUME NEW s \in Server, main'[s] = "address",
                    NEW t \in 1 .. s - 1, t > prev'[s]
             PROVE  main'[t] = "gone"
  BY DEF SeekInv
<1>1. t \in Server /\ t < s
  BY JoinAssumption DEF Server
<1>2. main[t] = "gone" => main'[t] = "gone"
  BY <1>1, MainStep
<1>3. CASE main[s] = "address" /\ prev'[s] = prev[s]
  BY <1>2, <1>3 DEF SeekInv
<1>4. CASE ListPrevious(s)
  <2> DEFINE before == {u \in znodes : u < s /\ node_id(u) > 0}
  <2>1. /\ main[s] = "list" /\ prev \in [Server -> Server \cup {NoServer}]
        /\ before \in SUBSET Server
    BY <1>4 DEF ListPrevious, TypeInv, NodeTypes
  <2>2. before # {} /\ prev'[s] = Max(before)
    BY <1>4, <2>1 DEF ListPrevious, TypeInv, NodeTypes
  <2>3. Max(before) \in before /\ \A m \in before : Max(before) >= m
    BY <2>1, <2>2, MaxServer
  <2>4. t \notin before
    <3>1. \A m \in before : m \in Nat /\ Max(before) \in Nat
      BY <2>1, <2>3 DEF Server
    <3> QED
      BY <2>2, <2>3, <3>1
  <2>5. main[t] = "gone" \/ node_id(t) = 0
    BY <1>1, <2>1, <2>4, PassedOver
  <2>6. node_id(Max(before)) > 0 /\ Max(before) \in Nat
    BY <2>1, <2>3 DEF Server
  <2>7. node_id(t) # 0
    <3>1. first \in Nat
      BY JoinAssumption DEF TypeInv, NodeTypes
    <3> QED
      BY <2>2, <2>6, <3>1 DEF node_id
  <2> QED
    BY <1>2, <2>5, <2>7
<1> QED
  BY <1>3, <1>4, PrevStep

LEMMA EmptyStep ==
  ASSUME TypeInv, StartInv, SeekInv, StartsEmpty, [Next]_vars
  PROVE  StartsEmpty'
<1> SUFFICES ASSUME NEW s \in Server, main'[s] = "serve", s \notin copied',
                    NEW t \in 1 .. s - 1, t >= prev'[s]
             PROVE  main'[t] = "gone" \/ first' + t - 1 = 0
  BY DEF StartsEmpty, node_id
<1>1. t \in Server /\ t < s
  BY JoinAssumption DEF Server
<1>2. first' = first /\ (main[t] = "gone" => main'[t] = "gone")
  BY <1>1, MainStep
<1>3. CASE main[s] = "serve" /\ s \notin copied
  <2>1. prev'[s] = prev[s]
    BY <1>3, PrevStep DEF ListPrevious
  <2> QED
    BY <1>2, <1>3, <2>1 DEF StartsEmpty, node_id
<1>4. CASE ListPrevious(s)
  <2> DEFINE before == {u \in znodes : u < s /\ node_id(u) > 0}
  <2>1. main[s] = "list" /\ (before # {} => main' = [main EXCEPT ![s] = "address"])
    BY <1>4 DEF ListPrevious
  <2>2. before = {}
    BY <2>1 DEF TypeInv, NodeTypes
  <2>3. main[t] = "gone" \/ node_id(t) = 0
    BY <1>1, <2>1, <2>2, PassedOver
  <2> QED
    BY <1>2, <2>3 DEF node_id
<1>5. CASE GetPrevious(s)
  <2>1. /\ main[s] = "address" /\ prev' = prev
        /\ prev[s] \in znodes => main' = [main EXCEPT ![s] = "connect"]
    BY <1>5 DEF GetPrevious
  <2>2. prev[s] \in Server /\ prev[s] < s
    BY <2>1 DEF StartInv
  <2>3. prev[s] \notin znodes
    BY <2>1 DEF TypeInv, NodeTypes
  <2>4. main[prev[s]] = "gone"
    BY <2>1, <2>2, <2>3, NoZnode
  <2>5. CASE t = prev[s]
    BY <1>2, <2>4, <2>5
  <2>6. CASE t > prev[s]
    BY <1>2, <2>1, <2>6 DEF SeekInv
  <2>7. t \in Nat /\ prev[s] \in Nat
    BY <1>1, <2>2 DEF Server
  <2> QED
    BY <2>1, <2>5, <2>6, <2>7
<1> QED
  BY <1>3, <1>4, <1>5, MainStep
-----------------------------------------------------------------------------
(* Connections that are written down stay what they are while servers start
   and connections are added. *)
Grows(places, ths, places2, ths2) ==
  \A t \in Server :
    /\ places[t] # "off" => places2[t] # "off"
    /\ places2[t] # "gone" =>
         /\ places[t] # "gone"
         /\ \A i \in DOMAIN ths[t] :
              i \in DOMAIN ths2[t] /\ ths2[t][i].from = ths[t][i].from

LEMMA HoldsOn ==
  ASSUME NEW peer, NEW c \in (Server \X Nat) \cup {Nowhere},
         NEW places, NEW ths, NEW places2, NEW ths2,
         Holds(peer, c, places, ths), Grows(places, ths, places2, ths2)
  PROVE  Holds(peer, c, places2, ths2)
<1>1. c # Nowhere => c[1] \in Server
  OBVIOUS
<1> QED
  BY <1>1 DEF Holds, Grows

LEMMA NoLinks ==
  ASSUME NEW q \in Seq(Link), DOMAIN q = {}
  PROVE  q = <<>>
  OBVIOUS

(* Which leaves to show that nothing connects to a server that does not run,
   and the connection that a step writes down. *)
LEMMA EndKept ==
  ASSUME TypeInv, TypeInv', EndInv, Grows(main, threads, main', threads'),
         \A s \in Server : ~ Alive(s)' => threads'[s] = <<>>,
         \A s \in Server : \/ next'[s] = next[s] \/ next'[s] = Nowhere
                           \/ /\ Holds(s, next'[s], main', threads')
                              /\ s < next'[s][1],
         client' = client \/ Holds(Client, client', main', threads')
  PROVE  EndInv'
<1>1. /\ \A s \in Server : next[s] \in (Server \X Nat) \cup {Nowhere}
      /\ client \in (Server \X Nat) \cup {Nowhere}
  BY DEF TypeInv, LinkTypes
<1>2. ASSUME NEW s \in Server
      PROVE  Holds(s, next'[s], main', threads') /\ (next'[s] # Nowhere => s < next'[s][1])
  <2>1. CASE next'[s] = next[s]
    BY <1>1, <2>1, HoldsOn DEF EndInv
  <2>2. CASE next'[s] = Nowhere
    BY <2>2 DEF Holds
  <2> QED
    BY <2>1, <2>2
<1>3. Holds(Client, client', main', threads')
  BY <1>1, HoldsOn DEF EndInv
<1> QED
  BY <1>2, <1>3 DEF EndInv

(* The steps after which every connection is where it was. *)
LEMMA EndSame ==
  ASSUME TypeInv, TypeInv', EndInv, UNCHANGED <<next, client>>,
         \A t \in Server :
           /\ main[t] # "off" => main'[t] # "off"
           /\ main'[t] = "gone" <=> main[t] = "gone"
           /\ DOMAIN threads'[t] = DOMAIN threads[t]
           /\ \A i \in DOMAIN threads[t] : threads'[t][i].from = threads[t][i].from
  PROVE  EndInv'
<1>1. Grows(main, threads, main', threads')
  BY DEF Grows
<1>2. ASSUME NEW s \in Server, ~ Alive(s)'
      PROVE  threads'[s] = <<>>
  <2>1. threads[s] = <<>>
    BY <1>2 DEF EndInv, Alive
  <2>2. DOMAIN threads'[s] = {} /\ threads'[s] \in Seq(Link)
    BY <2>1 DEF TypeInv, LinkTypes
  <2> QED
    BY <2>2, NoLinks
<1> QED
  BY <1>1, <1>2, EndKept

LEMMA LinkMain ==
  ASSUME TypeInv, TypeInv', LinkInv, NEW s \in Server,
         Start(s) \/ ListPrevious(s) \/ GetPrevious(s) \/ Expire(s)
  PROVE  LinkInv'
<1>1. /\ UNCHANGED <<next, threads, client, busy, copy>>
      /\ \/ main' = main /\ prev' = prev
         \/ /\ main[s] \in {"off", "list", "address"}
            /\ \E place \in Places \ {"off", "gone"} :
                 main' = [main EXCEPT ![s] = place]
            /\ prev' = prev \/ \E p : prev' = [prev EXCEPT ![s] = p]
  <2>1. CASE Start(s)
    BY <2>1 DEF Start, datavars, clivars, Places
  <2>2. CASE ListPrevious(s)
    BY <2>2 DEF ListPrevious, datavars, clivars, Places
  <2>3. CASE GetPrevious(s)
    BY <2>3 DEF GetPrevious, datavars, clivars, Places
  <2>4. CASE Expire(s)
    BY <2>4 DEF Expire, nodevars, datavars, clivars
  <2> QED
    BY <2>1, <2>2, <2>3, <2>4
<1>2. main \in [Server -> Places] /\ prev \in [Server -> Server \cup {NoServer}]
  BY DEF TypeInv, NodeTypes
<1>3. \A t \in Server :
        /\ main[t] # "off" => main'[t] # "off"
        /\ main'[t] = "gone" <=> main[t] = "gone"
        /\ main[t] = "copy" => main'[t] = "copy" /\ prev'[t] = prev[t]
  BY <1>1, <1>2
<1>4. EndInv'
  BY <1>1, <1>3, EndSame DEF LinkInv
<1>5. FullInv'
  BY <1>1 DEF LinkInv, FullInv
<1>6. \A t \in Server : \A i \in DOMAIN threads[t] :
        threads[t][i].from > t => threads[t][i].from \in Server
  <2>1. \A t \in Server : \A i \in DOMAIN threads[t] : threads[t][i] \in Link
    BY DEF TypeInv, LinkTypes
  <2> QED
    BY <2>1, JoinAssumption DEF Link, Client, Server
<1>7. AskInv'
  BY <1>1, <1>3, <1>6 DEF LinkInv, AskInv
<1> QED
  BY <1>4, <1>5, <1>7 DEF LinkInv

(* A process ends: its connections are gone, those to others are closed. *)
LEMMA LinkStop ==
  ASSUME TypeInv, TypeInv', LinkInv, NEW s \in Server, Stop(s)
  PROVE  LinkInv'
<1>1. /\ main' = [main EXCEPT ![s] = "gone"]
      /\ prev' = [prev EXCEPT ![s] = NoServer]
      /\ next' = [next EXCEPT ![s] = Nowhere]
      /\ copy' = [copy EXCEPT ![s] = NoCopy]
      /\ client' = client /\ busy' = busy
  BY DEF Stop, clivars
<1>2. /\ main \in [Server -> Places] /\ prev \in [Server -> Server \cup {NoServer}]
      /\ next \in [Server -> (Server \X Nat) \cup {Nowhere}]
      /\ copy \in [Server -> [Key -> Message] \cup {NoCopy}]
      /\ \A t \in Server : \A i \in DOMAIN threads[t] : threads[t][i] \in Link
  BY DEF TypeInv, NodeTypes, LinkTypes, DataTypes
<1>3. threads'[s] = <<>>
  BY StopLinks
<1>4. ASSUME NEW t \in Server, t # s
      PROVE  /\ DOMAIN threads'[t] = DOMAIN threads[t]
             /\ \A i \in DOMAIN threads[t] :
                  LET c == threads[t][i]
                      d == threads'[t][i] IN
                  /\ d.from = c.from /\ d.queue = c.queue /\ d.at = c.at
                  /\ d.open => c.open /\ c.from # s
  BY <1>2, <1>4, StopLinks, ShutLink
<1>5. Grows(main, threads, main', threads')
  BY <1>1, <1>2, <1>4 DEF Grows
<1>6. ASSUME NEW t \in Server, ~ Alive(t)'
      PROVE  threads'[t] = <<>>
  <2>1. CASE t # s
    <3>1. threads[t] = <<>>
      BY <1>1, <1>2, <1>6, <2>1 DEF LinkInv, EndInv, Alive
    <3>2. DOMAIN threads'[t] = {} /\ threads'[t] \in Seq(Link)
      BY <1>4, <2>1, <3>1 DEF TypeInv, LinkTypes
    <3> QED
      BY <3>2, NoLinks
  <2> QED
    BY <1>3, <2>1
<1>7. EndInv'
  BY <1>1, <1>2, <1>5, <1>6, EndKept DEF LinkInv
<1>8. ASSUME NEW t \in Server, NEW i \in DOMAIN threads'[t]
      PROVE  Fits(threads'[t][i], t, i, client', busy')
  <2>1. t # s /\ i \in DOMAIN threads[t]
    BY <1>3, <1>4
  <2>2. /\ threads'[t][i].from = threads[t][i].from
        /\ threads'[t][i].queue = threads[t][i].queue
        /\ Pending(threads'[t][i]) = Pending(threads[t][i])
    BY <1>4, <2>1 DEF Pending
  <2> QED
    BY <1>1, <2>1, <2>2 DEF LinkInv, FullInv, Fits
<1>9. AskInv'
  <2>1. ASSUME NEW t \in Server, NEW i \in DOMAIN threads'[t],
               threads'[t][i].open, threads'[t][i].from > t
        PROVE  main'[threads'[t][i].from] = "copy" /\ prev'[threads'[t][i].from] = t
    <3>1. t # s
      BY <1>3, <2>1
    <3>2. /\ i \in DOMAIN threads[t] /\ threads[t][i].open
          /\ threads'[t][i].from = threads[t][i].from /\ threads[t][i].from # s
      BY <1>4, <2>1, <3>1
    <3>3. main[threads[t][i].from] = "copy" /\ prev[threads[t][i].from] = t
      BY <2>1, <3>2 DEF LinkInv, AskInv
    <3> QED
      BY <1>1, <1>2, <3>2, <3>3
  <2>2. ASSUME NEW t \in Server, copy'[t] # NoCopy
        PROVE  main'[t] = "copy"
    BY <1>1, <1>2, <2>2 DEF LinkInv, AskInv
  <2> QED
    BY <2>1, <2>2 DEF AskInv
<1> QED
  BY <1>7, <1>8, <1>9 DEF LinkInv, FullInv

LEMMA ServesLess ==
  ASSUME NEW c \in Link, NEW d, Serves(c, d)
  PROVE  /\ d.from = c.from /\ d.open = c.open
         /\ Len(d.queue) \in Nat /\ Len(c.queue) \in Nat
         /\ Len(d.queue) <= Len(c.queue)
         /\ Pending(d) \in Nat /\ Pending(c) \in Nat
         /\ Pending(d) <= Pending(c)
         /\ c.at = "apply" => Pending(d) + 1 <= Pending(c)
<1>1. c.queue \in Seq(Message) /\ d.queue \in Seq(Message)
  BY DEF Serves, Link
<1>2. c.queue # <<>> => Len(Tail(c.queue)) + 1 = Len(c.queue)
  BY <1>1
<1>3. Len(c.queue) \in Nat /\ Len(d.queue) \in Nat
  BY <1>1
<1>4. CASE c.queue # <<>> /\ d.queue = Tail(c.queue) /\ c.at = "receive"
  <2>1. Len(d.queue) + 1 = Len(c.queue)
    BY <1>2, <1>4
  <2>2. Pending(c) = Len(c.queue)
    <3>1. c.at # "apply"
      BY <1>4
    <3> QED
      BY <1>3, <3>1 DEF Pending
  <2>3. Pending(d) = Len(d.queue) \/ Pending(d) = Len(d.queue) + 1
    <3>1. CASE d.at = "apply"
      BY <3>1 DEF Pending
    <3>2. CASE d.at # "apply"
      BY <1>3, <3>2 DEF Pending
    <3> QED
      BY <3>1, <3>2
  <2>4. d.from = c.from /\ d.open = c.open /\ c.at # "apply"
    BY <1>4 DEF Serves
  <2> QED
    BY <1>3, <2>1, <2>2, <2>3, <2>4
<1>5. CASE d.queue = c.queue /\ c.at = "apply" /\ d.at # "apply"
  BY <1>3, <1>5 DEF Serves, Pending
<1> QED
  BY <1>4, <1>5 DEF Serves

(* The threads that serve leave every connection with its peer. *)
LEMMA ThreadSame ==
  ASSUME TypeInv, EndInv, NEW s \in Server, NEW i \in DOMAIN threads[s],
         clientThread(s, i)
  PROVE  \A u \in Server :
           /\ DOMAIN threads'[u] = DOMAIN threads[u]
           /\ \A k \in DOMAIN threads[u] :
                /\ threads'[u][k].from = threads[u][k].from
                /\ threads'[u][k].open => threads[u][k].open
<1>1. \A u \in Server : \A k \in DOMAIN threads[u] : threads[u][k] \in Link
  BY DEF TypeInv, LinkTypes
<1>2. ASSUME NEW u \in Server, NEW k \in DOMAIN threads[u]
      PROVE  /\ threads'[u][k].from = threads[u][k].from
             /\ threads'[u][k].open => threads[u][k].open
  <2> DEFINE c == threads[u][k]
             d == threads'[u][k]
  <2>1. c \in Link
    BY <1>1
  <2>2. \/ Serves(c, d) \/ d = c
        \/ d.from = s /\ c.from = s /\ (d.open => c.open)
    BY PropagateLinks, ServeLinks DEF clientThread
  <2> HIDE DEF c, d
  <2>3. d.from = c.from /\ (d.open => c.open)
    BY <2>1, <2>2, ServesLess
  <2> QED
    BY <2>3 DEF c, d
<1>3. \A u \in Server : DOMAIN threads'[u] = DOMAIN threads[u]
  BY PropagateLinks, ServeLinks DEF clientThread
<1> QED
  BY <1>2, <1>3

LEMMA FitsLess ==
  ASSUME NEW c \in Link, NEW d, NEW s, NEW i, NEW mine, NEW waits \in BOOLEAN,
         Fits(c, s, i, mine, waits),
         d = c \/ Serves(c, d)
  PROVE  /\ Fits(d, s, i, mine, waits)
         /\ c.at = "apply" /\ Serves(c, d) => Fits(d, s, i, mine, FALSE)
<1>1. CASE d = c /\ ~ Serves(c, d)
  BY <1>1
<1>2. CASE Serves(c, d)
  <2>1. /\ d.from = c.from
        /\ Len(d.queue) \in Nat /\ Len(c.queue) \in Nat
        /\ Len(d.queue) <= Len(c.queue)
        /\ Pending(d) \in Nat /\ Pending(c) \in Nat
        /\ Pending(d) <= Pending(c)
        /\ c.at = "apply" => Pending(d) + 1 <= Pending(c)
    BY <1>2, ServesLess
  <2>2. Len(d.queue) <= LinkCap
    BY <2>1, JoinAssumption DEF Fits
  <2>3. ASSUME d.from = Client
        PROVE  /\ mine = <<s, i>>
               /\ Pending(d) <= (IF waits THEN 1 ELSE 0)
               /\ c.at = "apply" => Pending(d) <= 0
    <3>1. mine = <<s, i>> /\ Pending(c) <= (IF waits THEN 1 ELSE 0)
      BY <2>1, <2>3 DEF Fits
    <3> QED
      BY <2>1, <3>1
  <2> QED
    BY <2>2, <2>3 DEF Fits
<1> QED
  BY <1>1, <1>2

LEMMA FullThread ==
  ASSUME TypeInv, EndInv, FullInv, NEW s \in Server, NEW i \in DOMAIN threads[s],
         clientThread(s, i)
  PROVE  FullInv'
<1> SUFFICES ASSUME NEW u \in Server, NEW k \in DOMAIN threads'[u]
             PROVE  Fits(threads'[u][k], u, k, client', busy')
  BY DEF FullInv
<1> DEFINE c == threads[u][k]
           d == threads'[u][k]
<1>1. k \in DOMAIN threads[u] /\ d.from = c.from
  BY ThreadSame
<1>2. c \in Link /\ busy \in BOOLEAN
  BY <1>1 DEF TypeInv, LinkTypes, DataTypes
<1>3. Fits(c, u, k, client, busy)
  BY <1>1 DEF FullInv
<1>4. client' = client
  BY DEF clientThread, Propagate, PropagateNowhere, PropagateFails, ApplyWrite,
         AnswerTable, clivars
<1>5. CASE Propagate(s, i)
  <2>1. busy' = busy
    BY <1>5 DEF Propagate, clivars
  <2>2. \/ Serves(c, d) \/ d = c
        \/ d.from = s /\ Len(d.queue) <= LinkCap
    BY <1>1, <1>5, PropagateLinks
  <2>3. s # Client
    BY JoinAssumption DEF Server, Client
  <2> HIDE DEF c, d
  <2>4. Fits(d, u, k, client, busy)
    <3>1. CASE d.from = s /\ Len(d.queue) <= LinkCap
      BY <2>3, <3>1 DEF Fits
    <3>2. CASE Serves(c, d) \/ d = c
      BY <1>2, <1>3, <3>2, FitsLess
    <3> QED
      BY <2>2, <3>1, <3>2
  <2> QED
    BY <1>4, <2>1, <2>4 DEF d
<1>6. CASE PropagateNowhere(s, i) \/ PropagateFails(s, i) \/ AnswerTable(s, i)
  <2>1. busy' = busy
    BY <1>6 DEF PropagateNowhere, PropagateFails, AnswerTable, clivars
  <2>2. Serves(c, d) \/ d = c
    BY <1>1, <1>6, ServeLinks
  <2> HIDE DEF c, d
  <2>3. Fits(d, u, k, client, busy)
    BY <1>2, <1>3, <2>2, FitsLess
  <2> QED
    BY <1>4, <2>1, <2>3 DEF d
<1>7. CASE ApplyWrite(s, i)
  <2>1. IF u = s /\ k = i THEN Serves(c, d) ELSE d = c
    BY <1>1, <1>7, ServeLinks
  <2>2. /\ threads[s][i].at = "apply"
        /\ busy' = (busy /\ threads[s][i].from # Client)
    BY <1>7 DEF ApplyWrite, answers
  <2>3. threads[s][i].from = Client => client = <<s, i>>
    BY DEF FullInv, Fits
  <2>4. CASE u = s /\ k = i
    <3>1. Serves(c, d) /\ c.at = "apply"
      BY <2>1, <2>2, <2>4
    <3> HIDE DEF c, d
    <3>2. Fits(d, u, k, client, busy) /\ Fits(d, u, k, client, FALSE)
      BY <1>2, <1>3, <3>1, FitsLess
    <3>3. busy' = busy \/ busy' = FALSE
      BY <1>2, <2>2
    <3> QED
      BY <1>4, <3>2, <3>3 DEF d
  <2>5. CASE ~ (u = s /\ k = i)
    <3>1. d = c
      BY <2>1, <2>5
    <3>2. CASE c.from = Client
      <4>1. client = <<u, k>>
        BY <1>3, <3>2 DEF Fits
      <4>2. threads[s][i].from # Client
        BY <2>3, <2>5, <4>1
      <4>3. busy' = busy
        BY <1>2, <2>2, <4>2
      <4> QED
        BY <1>3, <1>4, <3>1, <4>3
    <3>3. CASE c.from # Client
      BY <1>3, <3>1, <3>3 DEF Fits
    <3> QED
      BY <3>2, <3>3
  <2> QED
    BY <2>4, <2>5
<1> QED
  BY <1>5, <1>6, <1>7 DEF clientThread

LEMMA LinkThread ==
  ASSUME TypeInv, TypeInv', LinkInv, NEW s \in Server, NEW i \in DOMAIN threads[s],
         clientThread(s, i)
  PROVE  LinkInv'
<1>1. UNCHANGED <<main, prev, next, client>>
  BY DEF clientThread, Propagate, PropagateNowhere, PropagateFails, ApplyWrite,
         AnswerTable, nodevars, clivars
<1>2. EndInv'
  BY <1>1, ThreadSame, EndSame DEF LinkInv
<1>3. FullInv'
  BY FullThread DEF LinkInv
<1>4. AskInv'
  <2>1. ASSUME NEW t \in Server, NEW k \in DOMAIN threads'[t],
               threads'[t][k].open, threads'[t][k].from > t
        PROVE  main'[threads'[t][k].from] = "copy" /\ prev'[threads'[t][k].from] = t
    <3>1. /\ k \in DOMAIN threads[t] /\ threads[t][k].open
          /\ threads'[t][k].from = threads[t][k].from
      BY <2>1, ThreadSame DEF LinkInv
    <3> QED
      BY <1>1, <2>1, <3>1 DEF LinkInv, AskInv
  <2>2. ASSUME NEW t \in Server, copy'[t] # NoCopy
        PROVE  main'[t] = "copy"
    <3>1. CASE copy'[t] = copy[t]
      BY <1>1, <2>2, <3>1 DEF LinkInv, AskInv
    <3>2. CASE copy'[t] # copy[t]
      <4>1. AnswerTable(s, i)
        BY <3>2 DEF clientThread, Propagate, PropagateNowhere, PropagateFails,
           ApplyWrite, datavars
      <4>2. /\ reads_answer(s, threads[s][i])
            /\ copy' = [copy EXCEPT ![threads[s][i].from] = table[s]]
        BY <3>2, <4>1 DEF AnswerTable
      <4>3. t = threads[s][i].from
        BY <3>2, <4>2 DEF TypeInv, DataTypes
      <4> QED
        BY <1>1, <4>2, <4>3 DEF reads_answer, LinkInv, AskInv
    <3> QED
      BY <3>1, <3>2
  <2> QED
    BY <2>1, <2>2 DEF AskInv
<1> QED
  BY <1>2, <1>3, <1>4 DEF LinkInv

(* A connection is added to server p, and all others stay. *)
LEMMA AddGrows ==
  ASSUME TypeInv, TypeInv', EndInv, NEW ths \in [Server -> Seq(Link)],
         NEW p \in Server, Alive(p), NEW d \in Link,
         \A t \in Server : DOMAIN ths[t] = DOMAIN threads[t],
         \A t \in Server : \A i \in DOMAIN threads[t] : ths[t][i].from = threads[t][i].from,
         threads' = [ths EXCEPT ![p] = Append(@, d)],
         \A t \in Server : /\ main'[t] \in {"off", "gone"} <=> ~ Alive(t)
                           /\ main'[t] = "gone" <=> main[t] = "gone"
  PROVE  /\ Grows(main, threads, main', threads')
         /\ \A t \in Server : ~ Alive(t)' => threads'[t] = <<>>
<1>1. /\ \A u \in Server : u # p => threads'[u] = ths[u]
      /\ DOMAIN threads'[p] = DOMAIN ths[p] \cup {Len(ths[p]) + 1}
      /\ \A j \in DOMAIN ths[p] : threads'[p][j] = ths[p][j]
  BY AddThread
<1>2. Grows(main, threads, main', threads')
  BY <1>1 DEF Grows, Alive
<1>3. ASSUME NEW t \in Server, ~ Alive(t)'
      PROVE  threads'[t] = <<>>
  <2>1. t # p /\ threads[t] = <<>>
    BY <1>3 DEF EndInv, Alive
  <2>2. DOMAIN threads'[t] = {} /\ threads'[t] \in Seq(Link)
    BY <1>1, <2>1
  <2> QED
    BY <2>2, NoLinks
<1> QED
  BY <1>2, <1>3

LEMMA LinkAsk ==
  ASSUME TypeInv, TypeInv', StartInv, LinkInv, NEW s \in Server, AskTable(s)
  PROVE  LinkInv'
<1> DEFINE p == prev[s]
           n == Len(threads[p]) + 1
           d == Connection(s, <<GetTable>>)
<1>1. /\ main[s] = "connect" /\ Alive(p)
      /\ main' = [main EXCEPT ![s] = "copy"]
      /\ threads' = [threads EXCEPT ![p] = Append(@, d)]
      /\ UNCHANGED <<prev, next, copy, client, busy>>
  BY DEF AskTable, datavars, clivars
<1>2. p \in Server /\ p < s
  BY <1>1 DEF StartInv
<1>3. d \in Link
  BY NewLink
<1>4. /\ threads \in [Server -> Seq(Link)]
      /\ main \in [Server -> Places]
      /\ \A t \in Server : \A i \in DOMAIN threads[t] : threads[t][i] \in Link
  BY DEF TypeInv, LinkTypes, NodeTypes
<1>5. d.from = s /\ Len(d.queue) = 1
  BY DEF Connection
<1> HIDE DEF p, d
<1>6. /\ \A u \in Server : u # p => threads'[u] = threads[u]
      /\ DOMAIN threads'[p] = DOMAIN threads[p] \cup {n}
      /\ n \notin DOMAIN threads[p] /\ threads'[p][n] = d
      /\ \A j \in DOMAIN threads[p] : threads'[p][j] = threads[p][j]
  BY <1>1, <1>2, <1>3, <1>4, AddThread
<1> HIDE DEF n
<1>7. ASSUME NEW t \in Server, NEW i \in DOMAIN threads'[t]
      PROVE  \/ t = p /\ i = n /\ threads'[t][i] = d
             \/ i \in DOMAIN threads[t] /\ threads'[t][i] = threads[t][i]
  BY <1>6
<1>8. EndInv'
  <2>1. \A t \in Server : /\ main'[t] \in {"off", "gone"} <=> ~ Alive(t)
                          /\ main'[t] = "gone" <=> main[t] = "gone"
    BY <1>1, <1>4 DEF Alive
  <2>2. /\ Grows(main, threads, main', threads')
        /\ \A t \in Server : ~ Alive(t)' => threads'[t] = <<>>
    BY <1>1, <1>2, <1>3, <1>4, <2>1, AddGrows DEF LinkInv
  <2> QED
    BY <1>1, <2>2, EndKept DEF LinkInv
<1>9. FullInv'
  <2> SUFFICES ASSUME NEW t \in Server, NEW i \in DOMAIN threads'[t]
               PROVE  Fits(threads'[t][i], t, i, client, busy)
    BY <1>1 DEF FullInv
  <2>1. CASE threads'[t][i] = d
    <3>1. d.from # Client
      BY <1>5, JoinAssumption DEF Client, Server
    <3>2. Len(d.queue) <= LinkCap
      BY <1>5, JoinAssumption
    <3> QED
      BY <2>1, <3>1, <3>2 DEF Fits
  <2>2. CASE i \in DOMAIN threads[t] /\ threads'[t][i] = threads[t][i]
    BY <2>2 DEF LinkInv, FullInv
  <2> QED
    BY <1>7, <2>1, <2>2
<1>10. AskInv'
  <2>1. ASSUME NEW t \in Server, NEW i \in DOMAIN threads'[t],
               threads'[t][i].open, threads'[t][i].from > t
        PROVE  main'[threads'[t][i].from] = "copy" /\ prev'[threads'[t][i].from] = t
    <3>1. CASE t = p /\ i = n /\ threads'[t][i] = d
      BY <1>1, <1>4, <1>5, <3>1 DEF p
    <3>2. CASE i \in DOMAIN threads[t] /\ threads'[t][i] = threads[t][i]
      <4>1. main[threads[t][i].from] = "copy" /\ prev[threads[t][i].from] = t
        BY <2>1, <3>2 DEF LinkInv, AskInv
      <4>2. threads[t][i].from # s
        BY <1>1, <4>1
      <4> QED
        BY <1>1, <3>2, <4>1, <4>2
    <3> QED
      BY <1>7, <3>1, <3>2
  <2>2. ASSUME NEW t \in Server, copy'[t] # NoCopy
        PROVE  main'[t] = "copy"
    BY <1>1, <1>4, <2>2 DEF LinkInv, AskInv
  <2> QED
    BY <2>1, <2>2 DEF AskInv
<1> QED
  BY <1>8, <1>9, <1>10 DEF LinkInv

LEMMA LinkCopy ==
  ASSUME TypeInv, TypeInv', StartInv, LinkInv, NEW s \in Server, CopyTable(s)
  PROVE  LinkInv'
<1>1. /\ main[s] = "copy"
      /\ main' = [main EXCEPT ![s] = "serve"]
      /\ prev' = [prev EXCEPT ![s] = NoServer]
      /\ copy' = [copy EXCEPT ![s] = NoCopy]
      /\ UNCHANGED <<next, client, busy>>
  BY DEF CopyTable, clivars
<1>2. /\ main \in [Server -> Places] /\ prev \in [Server -> Server \cup {NoServer}]
      /\ copy \in [Server -> [Key -> Message] \cup {NoCopy}]
      /\ \A t \in Server : \A i \in DOMAIN threads[t] : threads[t][i] \in Link
  BY DEF TypeInv, NodeTypes, LinkTypes, DataTypes
<1>3. ASSUME NEW t \in Server
      PROVE  /\ DOMAIN threads'[t] = DOMAIN threads[t]
             /\ \A i \in DOMAIN threads[t] :
                  LET c == threads[t][i]
                      d == threads'[t][i] IN
                  /\ d.from = c.from /\ d.queue = c.queue /\ d.at = c.at
                  /\ d.open => c.open
                  /\ t = prev[s] /\ c.from = s => ~ d.open
  BY <1>2, CopyLinks, ShutLink
<1>4. EndInv'
  <2>1. \A t \in Server : /\ main[t] # "off" => main'[t] # "off"
                          /\ main'[t] = "gone" <=> main[t] = "gone"
    BY <1>1, <1>2
  <2> QED
    BY <1>1, <1>3, <2>1, EndSame DEF LinkInv
<1>5. ASSUME NEW t \in Server, NEW i \in DOMAIN threads'[t]
      PROVE  Fits(threads'[t][i], t, i, client', busy')
  <2>1. /\ i \in DOMAIN threads[t]
        /\ threads'[t][i].from = threads[t][i].from
        /\ threads'[t][i].queue = threads[t][i].queue
        /\ Pending(threads'[t][i]) = Pending(threads[t][i])
    BY <1>3 DEF Pending
  <2> QED
    BY <1>1, <2>1 DEF LinkInv, FullInv, Fits
<1>6. AskInv'
  <2>1. ASSUME NEW t \in Server, NEW i \in DOMAIN threads'[t],
               threads'[t][i].open, threads'[t][i].from > t
        PROVE  main'[threads'[t][i].from] = "copy" /\ prev'[threads'[t][i].from] = t
    <3>1. /\ i \in DOMAIN threads[t] /\ threads[t][i].open
          /\ threads'[t][i].from = threads[t][i].from
          /\ ~ (t = prev[s] /\ threads[t][i].from = s)
      BY <1>3, <2>1
    <3>2. main[threads[t][i].from] = "copy" /\ prev[threads[t][i].from] = t
      BY <2>1, <3>1 DEF LinkInv, AskInv
    <3> QED
      BY <1>1, <1>2, <3>1, <3>2
  <2>2. ASSUME NEW t \in Server, copy'[t] # NoCopy
        PROVE  main'[t] = "copy"
    BY <1>1, <1>2, <2>2 DEF LinkInv, AskInv
  <2> QED
    BY <2>1, <2>2 DEF AskInv
<1> QED
  BY <1>4, <1>5, <1>6 DEF LinkInv, FullInv

(* A callback gives its connection up, and makes the next one. *)
LEMMA LinkRewire ==
  ASSUME TypeInv, TypeInv', LinkInv, NEW s \in Server, Rewire(s)
  PROVE  LinkInv'
<1> DEFINE old == Closing(next[s], threads)
           d == Connection(s, <<>>)
<1>1. UNCHANGED <<main, prev, copy, client, busy>>
  BY DEF Rewire, nodevars, datavars, clivars
<1>2. /\ next[s] \in (Server \X Nat) \cup {Nowhere}
      /\ next \in [Server -> (Server \X Nat) \cup {Nowhere}]
      /\ \A t \in Server : \A i \in DOMAIN threads[t] : threads[t][i] \in Link
  BY DEF TypeInv, LinkTypes
<1>3. /\ old \in [Server -> Seq(Link)]
      /\ \A t \in Server : DOMAIN old[t] = DOMAIN threads[t]
      /\ \A t \in Server : \A i \in DOMAIN threads[t] : Shut(threads[t][i], old[t][i])
  BY <1>2, ClosingLinks DEF TypeInv, LinkTypes
<1>4. ASSUME NEW t \in Server, NEW i \in DOMAIN threads[t]
      PROVE  LET c == threads[t][i]
                 e == old[t][i] IN
             /\ e.from = c.from /\ e.queue = c.queue /\ e.at = c.at
             /\ e.open => c.open
             /\ Fits(e, t, i, client, busy)
  <2> DEFINE c == threads[t][i]
             e == old[t][i]
  <2>1. c \in Link /\ Shut(c, e) /\ Fits(c, t, i, client, busy)
    BY <1>2, <1>3 DEF LinkInv, FullInv
  <2> HIDE DEF c, e
  <2>2. e.from = c.from /\ e.queue = c.queue /\ e.at = c.at /\ (e.open => c.open)
    BY <2>1, ShutLink
  <2>3. Fits(e, t, i, client, busy)
    BY <2>1, <2>2 DEF Fits, Pending
  <2> QED
    BY <2>2, <2>3 DEF c, e
<1>5. d \in Link /\ d.from = s /\ d.queue = <<>>
  BY NewLink DEF Connection
<1> HIDE DEF old, d
<1>6. \A t \in Server : copy'[t] # NoCopy => main'[t] = "copy"
  BY <1>1 DEF LinkInv, AskInv
<1>7. CASE next' = [next EXCEPT ![s] = Nowhere] /\ threads' = old
  <2>1. Grows(main, threads, main', threads')
    BY <1>1, <1>3, <1>4, <1>7 DEF Grows
  <2>2. ASSUME NEW t \in Server, ~ Alive(t)'
        PROVE  threads'[t] = <<>>
    <3>1. threads[t] = <<>>
      BY <1>1, <2>2 DEF LinkInv, EndInv, Alive
    <3>2. DOMAIN threads'[t] = {} /\ threads'[t] \in Seq(Link)
      BY <1>3, <1>7, <3>1
    <3> QED
      BY <3>2, NoLinks
  <2>3. EndInv'
    BY <1>1, <1>2, <1>7, <2>1, <2>2, EndKept DEF LinkInv
  <2>4. FullInv'
    BY <1>1, <1>3, <1>4, <1>7 DEF FullInv
  <2>5. ASSUME NEW t \in Server, NEW i \in DOMAIN threads'[t],
               threads'[t][i].open, threads'[t][i].from > t
        PROVE  main'[threads'[t][i].from] = "copy" /\ prev'[threads'[t][i].from] = t
    <3>1. i \in DOMAIN threads[t] /\ threads'[t][i] = old[t][i]
      BY <1>3, <1>7
    <3> QED
      BY <1>1, <1>4, <2>5, <3>1 DEF LinkInv, AskInv
  <2> QED
    BY <1>6, <2>3, <2>4, <2>5 DEF LinkInv, AskInv
<1>8. ASSUME NEW p \in Server, Alive(p), s < p,
             next' = [next EXCEPT ![s] = <<p, Len(old[p]) + 1>>],
             threads' = [old EXCEPT ![p] = Append(@, d)]
      PROVE  LinkInv'
  <2> DEFINE n == Len(old[p]) + 1
  <2>1. /\ \A u \in Server : u # p => threads'[u] = old[u]
        /\ DOMAIN threads'[p] = DOMAIN old[p] \cup {n}
        /\ threads'[p][n] = d
        /\ \A j \in DOMAIN old[p] : threads'[p][j] = old[p][j]
    BY <1>3, <1>5, <1>8, AddThread
  <2>2. next'[s] = <<p, n>> /\ \A t \in Server : t # s => next'[t] = next[t]
    BY <1>2, <1>8
  <2> HIDE DEF n
  <2>3. ASSUME NEW t \in Server, NEW i \in DOMAIN threads'[t]
        PROVE  \/ t = p /\ i = n /\ threads'[t][i] = d
               \/ i \in DOMAIN threads[t] /\ threads'[t][i] = old[t][i]
    BY <1>3, <2>1
  <2>4. EndInv'
    <3>1. \A t \in Server : /\ main'[t] \in {"off", "gone"} <=> ~ Alive(t)
                            /\ main'[t] = "gone" <=> main[t] = "gone"
      BY <1>1 DEF Alive
    <3>2. /\ Grows(main, threads, main', threads')
          /\ \A t \in Server : ~ Alive(t)' => threads'[t] = <<>>
      BY ZenonT(40), <1>3, <1>4, <1>5, <1>8, <3>1, AddGrows DEF LinkInv
    <3>3. Holds(s, next'[s], main', threads')
      BY <1>1, <1>5, <1>8, <2>1, <2>2 DEF Holds, Alive
    <3>4. s < next'[s][1]
      BY <1>8, <2>2
    <3> QED
      BY <1>1, <2>2, <3>2, <3>3, <3>4, EndKept DEF LinkInv
  <2>5. FullInv'
    <3> SUFFICES ASSUME NEW t \in Server, NEW i \in DOMAIN threads'[t]
                 PROVE  Fits(threads'[t][i], t, i, client, busy)
      BY <1>1 DEF FullInv
    <3>1. CASE threads'[t][i] = d
      <4>1. d.from # Client /\ Len(d.queue) = 0
        BY <1>5, JoinAssumption DEF Client, Server
      <4> QED
        BY <3>1, <4>1, JoinAssumption DEF Fits
    <3>2. CASE i \in DOMAIN threads[t] /\ threads'[t][i] = old[t][i]
      BY <1>4, <3>2
    <3> QED
      BY <2>3, <3>1, <3>2
  <2>6. ASSUME NEW t \in Server, NEW i \in DOMAIN threads'[t],
               threads'[t][i].open, threads'[t][i].from > t
        PROVE  main'[threads'[t][i].from] = "copy" /\ prev'[threads'[t][i].from] = t
    <3>1. s \in Nat /\ p \in Nat
      BY DEF Server
    <3>2. ~ (t = p /\ threads'[t][i] = d)
      BY <1>5, <1>8, <2>6, <3>1
    <3>3. i \in DOMAIN threads[t] /\ threads'[t][i] = old[t][i]
      BY <2>3, <3>2
    <3> QED
      BY <1>1, <1>4, <2>6, <3>3 DEF LinkInv, AskInv
  <2> QED
    BY <1>6, <2>4, <2>5, <2>6 DEF LinkInv, AskInv
<1> QED
  BY <1>7, <1>8, RewireLinks DEF old, d

LEMMA LinkConnect ==
  ASSUME TypeInv, TypeInv', LinkInv, Connect
  PROVE  LinkInv'
<1> DEFINE d == Connection(Client, <<>>)
<1>1. /\ UNCHANGED <<main, prev, next, copy>> /\ busy' = FALSE
      /\ client # Nowhere => ~ Alive(client[1])
  BY DEF Connect, nodevars, datavars
<1>2. PICK p \in Server :
        /\ Alive(p)
        /\ client' = <<p, Len(threads[p]) + 1>>
        /\ threads' = [threads EXCEPT ![p] = Append(@, d)]
  BY ConnectLinks
<1>3. /\ threads \in [Server -> Seq(Link)]
      /\ client \in (Server \X Nat) \cup {Nowhere}
  BY DEF TypeInv, LinkTypes
<1>4. d \in Link /\ d.from = Client /\ d.queue = <<>> /\ d.at = "receive"
  BY NewLink DEF Connection
<1> DEFINE n == Len(threads[p]) + 1
<1> HIDE DEF d
<1>5. /\ \A u \in Server : u # p => threads'[u] = threads[u]
      /\ DOMAIN threads'[p] = DOMAIN threads[p] \cup {n}
      /\ threads'[p][n] = d
      /\ \A j \in DOMAIN threads[p] : threads'[p][j] = threads[p][j]
  BY <1>2, <1>3, <1>4, AddThread
<1>6. client' = <<p, n>>
  BY <1>2
<1> HIDE DEF n
<1>7. ASSUME NEW t \in Server, NEW i \in DOMAIN threads'[t]
      PROVE  \/ t = p /\ i = n /\ threads'[t][i] = d
             \/ i \in DOMAIN threads[t] /\ threads'[t][i] = threads[t][i]
  BY <1>5
<1>8. EndInv'
  <2>1. \A t \in Server : /\ main'[t] \in {"off", "gone"} <=> ~ Alive(t)
                          /\ main'[t] = "gone" <=> main[t] = "gone"
    BY <1>1 DEF Alive
  <2>2. /\ Grows(main, threads, main', threads')
        /\ \A t \in Server : ~ Alive(t)' => threads'[t] = <<>>
    BY <1>2, <1>3, <1>4, <2>1, AddGrows DEF LinkInv
  <2>3. Holds(Client, client', main', threads')
    BY <1>1, <1>2, <1>4, <1>5, <1>6 DEF Holds, Alive
  <2> QED
    BY <1>1, <2>2, <2>3, EndKept DEF LinkInv
<1>9. ASSUME NEW t \in Server, NEW i \in DOMAIN threads[t]
      PROVE  threads[t][i].from # Client
  <2>1. threads[t] # <<>>
    BY <1>9
  <2>2. Alive(t)
    BY <2>1 DEF LinkInv, EndInv
  <2>3. threads[t][i].from = Client => client = <<t, i>>
    BY DEF LinkInv, FullInv, Fits
  <2>4. <<t, i>> # Nowhere
    BY JoinAssumption DEF Nowhere, Server
  <2> QED
    BY <1>1, <2>2, <2>3, <2>4
<1>10. FullInv'
  <2> SUFFICES ASSUME NEW t \in Server, NEW i \in DOMAIN threads'[t]
               PROVE  Fits(threads'[t][i], t, i, client', busy')
    BY DEF FullInv
  <2>1. CASE t = p /\ i = n /\ threads'[t][i] = d
    <3>1. Len(d.queue) = 0 /\ Pending(d) = 0
      BY <1>4 DEF Pending
    <3> QED
      BY <1>6, <2>1, <3>1, JoinAssumption DEF Fits
  <2>2. CASE i \in DOMAIN threads[t] /\ threads'[t][i] = threads[t][i]
    BY <1>9, <2>2 DEF LinkInv, FullInv, Fits
  <2> QED
    BY <1>7, <2>1, <2>2
<1>11. ASSUME NEW t \in Server, NEW i \in DOMAIN threads'[t],
              threads'[t][i].open, threads'[t][i].from > t
       PROVE  main'[threads'[t][i].from] = "copy" /\ prev'[threads'[t][i].from] = t
  <2>1. d.from = 0 /\ t \in Nat
    BY <1>4 DEF Client, Server
  <2>2. threads'[t][i] # d
    BY <1>11, <2>1
  <2>3. i \in DOMAIN threads[t] /\ threads'[t][i] = threads[t][i]
    BY <1>7, <2>2
  <2> QED
    BY <1>1, <1>11, <2>3 DEF LinkInv, AskInv
<1> QED
  BY <1>1, <1>8, <1>10, <1>11 DEF LinkInv, AskInv

(* The client writes once at a time. *)
LEMMA LinkWrite ==
  ASSUME TypeInv, TypeInv', LinkInv, NEW k \in Key, Write(k)
  PROVE  LinkInv'
<1> DEFINE s == client[1]
           i == client[2]
           c == threads[s][i]
<1>1. PICK d : /\ client[1] \in Server
               /\ threads' = [threads EXCEPT ![client[1]][client[2]] = d]
               /\ client[2] \in DOMAIN threads[client[1]] =>
                    Sends(threads[client[1]][client[2]], d)
  BY WriteLinks
<1>2. /\ UNCHANGED <<main, prev, next, copy, client>>
      /\ busy = FALSE /\ busy' = TRUE
      /\ client # Nowhere /\ Alive(s)
  BY DEF Write, Open, nodevars, datavars, TypeInv, DataTypes
<1>3. s \in Server /\ i \in DOMAIN threads[s] /\ c.from = Client /\ client = <<s, i>>
  BY <1>1, <1>2 DEF LinkInv, EndInv, Holds, Alive, TypeInv, LinkTypes
<1>4. Sends(c, d) /\ threads' = [threads EXCEPT ![s][i] = d]
  BY <1>1, <1>3
<1>5. Fits(c, s, i, client, busy) /\ c \in Link
  BY <1>3 DEF LinkInv, FullInv, TypeInv, LinkTypes
<1> HIDE DEF s, i
<1>6. /\ \A u \in Server : DOMAIN threads'[u] = DOMAIN threads[u]
      /\ \A u \in Server : \A j \in DOMAIN threads[u] :
           threads'[u][j] = IF u = s /\ j = i THEN d ELSE threads[u][j]
  BY <1>3, <1>4, SetThread DEF TypeInv, LinkTypes, Sends
<1> HIDE DEF c
<1>7. d.from = c.from /\ d.open = c.open
  BY <1>4 DEF Sends
<1>8. \A u \in Server : \A j \in DOMAIN threads[u] :
        /\ threads'[u][j].from = threads[u][j].from
        /\ threads'[u][j].open = threads[u][j].open
  BY <1>6, <1>7 DEF c
<1>9. EndInv'
  BY <1>2, <1>6, <1>8, EndSame DEF LinkInv
<1>10. Fits(d, s, i, client, TRUE)
  <2>1. Pending(c) <= 0
    BY <1>2, <1>3, <1>5 DEF Fits, c
  <2>2. Len(c.queue) \in Nat
    BY <1>5 DEF Link
  <2>3. Len(c.queue) = 0 /\ c.at # "apply"
    <3>1. CASE c.at = "apply"
      BY <2>1, <2>2, <3>1 DEF Pending
    <3>2. CASE c.at # "apply"
      BY <2>1, <2>2, <3>2 DEF Pending
    <3> QED
      BY <3>1, <3>2
  <2>4. Len(d.queue) = 1 /\ d.at # "apply"
    BY <1>4, <2>3 DEF Sends
  <2>5. Pending(d) = 1
    BY <2>4 DEF Pending
  <2> QED
    BY <1>3, <2>4, <2>5, JoinAssumption DEF Fits
<1>11. FullInv'
  <2> SUFFICES ASSUME NEW u \in Server, NEW j \in DOMAIN threads'[u]
               PROVE  Fits(threads'[u][j], u, j, client, TRUE)
    BY <1>2 DEF FullInv
  <2>1. j \in DOMAIN threads[u]
    BY <1>6
  <2>2. Fits(threads[u][j], u, j, client, FALSE)
    BY <1>2, <2>1 DEF LinkInv, FullInv
  <2>3. threads[u][j].from = Client => u = s /\ j = i
    BY <1>3, <2>2 DEF Fits
  <2> QED
    BY <1>6, <1>10, <2>1, <2>2, <2>3 DEF Fits
<1>12. AskInv'
  BY <1>2, <1>6, <1>8 DEF LinkInv, AskInv
<1> QED
  BY <1>9, <1>11, <1>12 DEF LinkInv

LEMMA JoinInit ==
  Init => JoinInv
<1> SUFFICES ASSUME Init
             PROVE  StartInv /\ LinkInv
  BY TypeInit DEF JoinInv
<1>1. StartInv
  BY DEF Init, StartInv, Alive
<1>2. EndInv
  BY DEF Init, EndInv, Holds
<1>3. FullInv /\ AskInv
  BY DEF Init, FullInv, AskInv
<1> QED
  BY <1>1, <1>2, <1>3 DEF LinkInv

LEMMA LinkStep ==
  ASSUME TypeInv, TypeInv', StartInv, LinkInv, [Next]_vars
  PROVE  LinkInv'
<1>1. CASE UNCHANGED vars
  <2>1. UNCHANGED <<main, prev, next, threads, copy, client, busy>>
    BY <1>1 DEF vars, nodevars, datavars, clivars
  <2>2. EndInv'
    BY <2>1 DEF LinkInv, EndInv, Holds, Alive
  <2>3. FullInv'
    BY <2>1 DEF LinkInv, FullInv
  <2>4. AskInv'
    BY <2>1 DEF LinkInv, AskInv
  <2> QED
    BY <2>2, <2>3, <2>4 DEF LinkInv
<1>2. ASSUME NEW s \in Server, AskFails(s) \/ Crash(s) \/ RewireFails(s)
      PROVE  LinkInv'
  BY <1>2, Ends, LinkStop
<1>3. CASE Next
  BY <1>2, <1>3, Cases, LinkMain, LinkAsk, LinkCopy, LinkRewire, LinkThread,
     LinkConnect, LinkWrite
<1> QED
  BY <1>1, <1>3

LEMMA JoinStep ==
  ASSUME JoinInv, [Next]_vars
  PROVE  JoinInv'
<1>1. TypeInv'
  BY TypeStep DEF JoinInv, LinkInv
<1>2. StartInv' /\ LinkInv'
  BY <1>1, StartSteps, LinkStep DEF JoinInv
<1> QED
  BY <1>1, <1>2 DEF JoinInv

(* In every state of a chain, servers have started in order, and both ends of
   a connection agree on whose it is, how full it can be and who still waits
   for an answer. *)
THEOREM JoinInvariant ==
  Spec => []JoinInv
<1>1. JoinInv /\ [Next]_vars => JoinInv'
  BY JoinStep
<1> QED
  BY JoinInit, <1>1, PTL DEF Spec

(* Whatever servers start, die and write: what the main threads, callbacks and
   connections of all servers hold has its type.  No connection ever holds more
   than its buffers, for clientThread sends only what fits; and an answer with
   a table is on its way to a server only while that server waits for it, for a
   predecessor that asked once and sent the request on does not read it. *)
THEOREM TypeCorrect ==
  Spec => []TypeOK
<1>1. JoinInv => TypeOK
  <2> SUFFICES ASSUME JoinInv
               PROVE  TypeOK
    OBVIOUS
  <2>1. /\ first \in FirstIds /\ znodes \subseteq Server /\ event \subseteq Server
        /\ main \in [Server -> Places] /\ prev \in [Server -> Server \cup {NoServer}]
    BY DEF JoinInv, TypeInv, NodeTypes, Watching
  <2>2. \A s \in Server : next[s] # Nowhere => next[s][2] \in Nat
    BY DEF JoinInv, TypeInv, LinkTypes
  <2>3. ASSUME NEW s \in Server, NEW i \in DOMAIN threads[s]
        PROVE  threads[s][i].msg \in Message /\ Len(threads[s][i].queue) <= LinkCap
    <3>1. threads[s][i] \in Link
      BY DEF JoinInv, TypeInv, LinkTypes
    <3> QED
      BY <3>1 DEF Link, JoinInv, LinkInv, FullInv, Fits
  <2>4. table \in [Server -> [Key -> Message]] /\ busy \in BOOLEAN
    BY DEF JoinInv, TypeInv, DataTypes
  <2>5. \A s \in Server : copy[s] # NoCopy => main[s] = "copy"
    BY DEF JoinInv, LinkInv, AskInv
  <2> QED
    BY <2>1, <2>2, <2>3, <2>4, <2>5 DEF TypeOK
<1> QED
  BY <1>1, JoinInvariant, PTL

(* A server that serves without having copied a table had none to copy from:
   every server before it, from the one on that it found, has died, or is the
   one with number 0.  As long as none dies and no znode has number 0, every
   server but the first copies, however main and the callbacks of its
   neighbours interleave. *)
THEOREM EmptyForAReason ==
  Spec => []StartsEmpty
<1>1. Init => StartsEmpty /\ SeekInv
  BY DEF Init, StartsEmpty, SeekInv
<1>2. JoinInv /\ StartsEmpty /\ SeekInv /\ [Next]_vars => (StartsEmpty /\ SeekInv)'
  BY EmptyStep, SeekStep DEF JoinInv
<1> QED
  BY JoinInvariant, <1>1, <1>2, PTL DEF Spec
=============================================================================
