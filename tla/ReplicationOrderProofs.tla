----------------------- MODULE ReplicationOrderProofs -----------------------
(***************************************************************************)
(* Many clients at the head: their threads race to the socket of server 2  *)
(* and to the lock of the table, and cut up each other's messages.  Every  *)
(* server still applies the writes of each client in their order, and a    *)
(* write that is applied has been sent on.                                 *)
(***************************************************************************)
EXTENDS ReplicationProofs

Unapplied == {"header", "body", "apply"}   \* a whole message, not yet applied

(* A write that its client did make, made being the writes of each client. *)
Genuine(w, made) ==
  w.by \in Client /\ w.n \in 1 .. Len(made[w.by]) /\ made[w.by][w.n] = w

(* A sequence of writes with no write twice, and before each write all the
   earlier ones of its client. *)
Ordered(q, made) ==
  \A i \in DOMAIN q :
    /\ Genuine(q[i], made)
    /\ \A j \in 1 .. i - 1 : q[j] # q[i]
    /\ \A m \in 1 .. q[i].n - 1 : \E j \in 1 .. i - 1 : q[j] = made[q[i].by][m]

(* The head has applied all that a client sent, but for the write in hand. *)
Settled(c) ==
  /\ pc[c] \in Unapplied => sent[c] # <<>> /\ msg[c] = sent[c][Len(sent[c])]
  /\ pc[c] # "gone" => \A n \in 1 .. Len(sent[c]) :
       In(sent[c][n], log[1]) <=> n < Len(sent[c]) \/ pc[c] \notin Unapplied

HeadInv ==
  /\ \A c \in Client : \A n \in 1 .. Len(sent[c]) : sent[c][n].by = c /\ sent[c][n].n = n
  /\ Ordered(log[1], sent)
  /\ \A c \in Client : Settled(c)

(* What server 2 has applied, and what it has in hand. *)
Held == IF pc[2] \in InHand THEN Append(log[2], msg[2]) ELSE log[2]

(* A part that server 2 has read, that comes before the j-th of the
   connection, that was sent at all. *)
Taken(p) ==
  \/ \E i \in DOMAIN log[2] : p = Header(log[2][i]) \/ p = Body(log[2][i])
  \/ pc[2] \in InHand /\ p = Header(msg[2])
  \/ pc[2] \in Unapplied /\ p = Body(msg[2])
Ahead(p, j) == Taken(p) \/ \E i \in 1 .. j - 1 : link[2][i] = p
OnWay(p)    == Taken(p) \/ In(p, link[2])

(* Each part is sent once, and after all the earlier ones of its client. *)
PartInOrder(j) ==
  LET p == link[2][j] IN
  /\ Genuine(p.of, sent)
  /\ ~ Ahead(p, j)
  /\ p = Body(p.of) => Ahead(Header(p.of), j)
  /\ \A m \in 1 .. p.of.n - 1 :
       LET v == sent[p.of.by][m] IN Ahead(Header(v), j) /\ Ahead(Body(v), j)

(* Which parts of its client's writes a thread has sent. *)
SentOn(c) ==
  pc[c] # "gone" => \A n \in 1 .. Len(sent[c]) :
    LET w == sent[c][n] IN
    /\ OnWay(Header(w)) <=> n < Len(sent[c]) \/ pc[c] # "header"
    /\ OnWay(Body(w)) <=> n < Len(sent[c]) \/ pc[c] \notin {"header", "body"}

SharedLink ==
  /\ \A j \in DOMAIN link[2] : PartInOrder(j)
  /\ \A c \in Client : SentOn(c)
  /\ \A i \in DOMAIN log[1] : OnWay(Body(log[1][i]))

LinkInv ==
  2 \in Inner => Ordered(Held, sent) /\ (up[2] => SharedLink)

OrderInv == HeadInv /\ LinkInv
-----------------------------------------------------------------------------
(* Nothing about a sequence of writes changes when clients make more. *)
LEMMA OrderedLater ==
  ASSUME NEW made \in [Client -> Seq(Write)], NEW later \in [Client -> Seq(Write)],
         \A c \in Client : /\ Len(made[c]) <= Len(later[c])
                           /\ \A n \in 1 .. Len(made[c]) : later[c][n] = made[c][n],
         NEW q \in Seq(Write), Ordered(q, made)
  PROVE  Ordered(q, later)
<1>1. ASSUME NEW i \in DOMAIN q
      PROVE  /\ Genuine(q[i], made) /\ Genuine(q[i], later)
             /\ \A m \in 1 .. q[i].n - 1 : later[q[i].by][m] = made[q[i].by][m]
  <2>1. Genuine(q[i], made) /\ q[i] \in Write
    BY DEF Ordered
  <2>2. q[i].by \in Client /\ q[i].n \in 1 .. Len(made[q[i].by])
    BY <2>1 DEF Genuine
  <2>3. Len(made[q[i].by]) \in Nat /\ Len(later[q[i].by]) \in Nat
    BY <2>2
  <2> QED
    BY <2>1, <2>2, <2>3 DEF Genuine
<1> QED
  BY <1>1 DEF Ordered

(* One more write of a client, after all its earlier ones. *)
LEMMA OrderedAppend ==
  ASSUME NEW made \in [Client -> Seq(Write)], NEW q \in Seq(Write), Ordered(q, made),
         NEW w \in Write, Genuine(w, made), ~ In(w, q),
         \A m \in 1 .. w.n - 1 : In(made[w.by][m], q)
  PROVE  Ordered(Append(q, w), made)
<1> DEFINE r == Append(q, w)
<1>1. /\ Len(q) \in Nat /\ DOMAIN q = 1 .. Len(q) /\ DOMAIN r = 1 .. Len(q) + 1
      /\ r[Len(q) + 1] = w /\ \A i \in 1 .. Len(q) : r[i] = q[i]
  OBVIOUS
<1>2. SUFFICES ASSUME NEW i \in DOMAIN r
               PROVE  /\ Genuine(r[i], made)
                      /\ \A j \in 1 .. i - 1 : r[j] # r[i]
                      /\ \A m \in 1 .. r[i].n - 1 :
                           \E j \in 1 .. i - 1 : r[j] = made[r[i].by][m]
  BY DEF Ordered
<1> HIDE DEF r
<1>3. CASE i \in 1 .. Len(q)
  <2>1. i \in DOMAIN q /\ r[i] = q[i] /\ \A j \in 1 .. i - 1 : r[j] = q[j]
    BY <1>1, <1>3
  <2> QED
    BY <2>1 DEF Ordered
<1>4. CASE i = Len(q) + 1
  <2>1. r[i] = w /\ 1 .. i - 1 = DOMAIN q /\ \A j \in DOMAIN q : r[j] = q[j]
    BY <1>1, <1>4
  <2>2. \A j \in DOMAIN q : q[j] # w
    BY DEF In
  <2>3. \A m \in 1 .. w.n - 1 : \E j \in DOMAIN q : q[j] = made[w.by][m]
    BY DEF In
  <2>4. Genuine(r[i], made) /\ \A j \in 1 .. i - 1 : r[j] # r[i]
    BY <2>1, <2>2
  <2>5. \A m \in 1 .. r[i].n - 1 : \E j \in 1 .. i - 1 : r[j] = made[r[i].by][m]
    BY ZenonT(40), <2>1, <2>3
  <2> QED
    BY <2>4, <2>5
<1> QED
  BY <1>1, <1>3, <1>4

LEMMA InAppend ==
  ASSUME NEW S, NEW q \in Seq(S), NEW w \in S
  PROVE  \A v : In(v, Append(q, w)) <=> In(v, q) \/ v = w
<1> DEFINE r == Append(q, w)
<1>1. /\ Len(q) \in Nat /\ DOMAIN q = 1 .. Len(q) /\ DOMAIN r = 1 .. Len(q) + 1
      /\ r[Len(q) + 1] = w /\ \A i \in 1 .. Len(q) : r[i] = q[i]
  OBVIOUS
<1> HIDE DEF r
<1>2. \A v : In(v, r) <=> In(v, q) \/ v = w
  <2> SUFFICES ASSUME NEW v PROVE In(v, r) <=> In(v, q) \/ v = w
    OBVIOUS
  <2>1. In(v, r) => In(v, q) \/ v = w
    BY <1>1 DEF In
  <2>2. In(v, q) => In(v, r)
    BY <1>1 DEF In
  <2>3. In(w, r)
    BY <1>1 DEF In
  <2> QED
    BY <2>1, <2>2, <2>3
<1> QED
  BY <1>2 DEF r

LEMMA InTail ==
  ASSUME NEW S, NEW q \in Seq(S), q # <<>>
  PROVE  \A v : In(v, q) <=> v = q[1] \/ In(v, Tail(q))
<1> DEFINE r == Tail(q)
<1>1. /\ Len(q) \in Nat \ {0} /\ DOMAIN q = 1 .. Len(q) /\ DOMAIN r = 1 .. Len(q) - 1
      /\ \A i \in 1 .. Len(q) - 1 : r[i] = q[i + 1]
  OBVIOUS
<1> HIDE DEF r
<1>2. ASSUME NEW v PROVE In(v, q) <=> v = q[1] \/ In(v, r)
  <2>1. ASSUME NEW i \in DOMAIN q, q[i] = v, i # 1 PROVE In(v, r)
    <3>1. i - 1 \in DOMAIN r /\ (i - 1) + 1 = i
      BY <1>1, <2>1
    <3>2. r[i - 1] = v
      BY <1>1, <2>1, <3>1
    <3> QED
      BY <3>1, <3>2 DEF In
  <2>2. ASSUME NEW i \in DOMAIN r, r[i] = v PROVE In(v, q)
    <3>1. i + 1 \in DOMAIN q /\ q[i + 1] = v
      BY <1>1, <2>2
    <3> QED
      BY <3>1 DEF In
  <2>3. 1 \in DOMAIN q
    BY <1>1
  <2> QED
    BY <2>1, <2>2, <2>3 DEF In
<1> QED
  BY <1>2 DEF r

(* The first writes of an ordered sequence are ordered. *)
LEMMA OrderedPrefix ==
  ASSUME NEW made, NEW q \in Seq(Write), NEW r \in Seq(Write), Ordered(q, made),
         Len(r) <= Len(q), \A i \in 1 .. Len(r) : r[i] = q[i]
  PROVE  Ordered(r, made)
<1>1. /\ Len(q) \in Nat /\ Len(r) \in Nat
      /\ DOMAIN q = 1 .. Len(q) /\ DOMAIN r = 1 .. Len(r)
  OBVIOUS
<1>2. SUFFICES ASSUME NEW i \in 1 .. Len(r)
               PROVE  /\ Genuine(r[i], made)
                      /\ \A j \in 1 .. i - 1 : r[j] # r[i]
                      /\ \A m \in 1 .. r[i].n - 1 :
                           \E j \in 1 .. i - 1 : r[j] = made[r[i].by][m]
  BY <1>1 DEF Ordered
<1>3. i \in DOMAIN q /\ r[i] = q[i] /\ \A j \in 1 .. i - 1 : r[j] = q[j]
  BY <1>1
<1> QED
  BY <1>3 DEF Ordered

(* What stands before a write of an ordered sequence, by numbers. *)
LEMMA OrderedNumbers ==
  ASSUME NEW made \in [Client -> Seq(Write)],
         \A c \in Client : \A n \in 1 .. Len(made[c]) :
           made[c][n].by = c /\ made[c][n].n = n,
         NEW q \in Seq(Write), Ordered(q, made), NEW i \in DOMAIN q
  PROVE  /\ q[i].n <= Len(made[q[i].by]) /\ q[i] = made[q[i].by][q[i].n]
         /\ {q[j].n : j \in {j \in 1 .. i - 1 : q[j].by = q[i].by}} = 1 .. q[i].n - 1
<1> DEFINE w == q[i]
           before == {j \in 1 .. i - 1 : q[j].by = w.by}
<1>1. /\ Genuine(w, made) /\ \A j \in 1 .. i - 1 : q[j] # w
      /\ \A m \in 1 .. w.n - 1 : \E j \in 1 .. i - 1 : q[j] = made[w.by][m]
  BY DEF Ordered
<1>2. /\ w.by \in Client /\ Len(made[w.by]) \in Nat /\ w.n \in 1 .. Len(made[w.by])
      /\ w = made[w.by][w.n] /\ i \in Nat
  BY <1>1 DEF Genuine
<1>3. ASSUME NEW m \in 1 .. w.n - 1 PROVE \E j \in before : q[j].n = m
  <2>1. PICK j \in 1 .. i - 1 : q[j] = made[w.by][m]
    BY <1>1
  <2>2. q[j].by = w.by /\ q[j].n = m
    BY SMTT(30), <1>2, <2>1
  <2> QED
    BY <2>2
<1>4. ASSUME NEW j \in before PROVE q[j].n \in 1 .. w.n - 1
  <2>1. j \in DOMAIN q /\ j \in 1 .. i - 1 /\ q[j].by = w.by
    BY <1>2
  <2>2. /\ Genuine(q[j], made)
        /\ \A m \in 1 .. q[j].n - 1 : \E l \in 1 .. j - 1 : q[l] = made[w.by][m]
    BY <2>1 DEF Ordered
  <2>3. q[j].n \in 1 .. Len(made[w.by]) /\ q[j] = made[w.by][q[j].n]
    BY <2>1, <2>2 DEF Genuine
  <2>4. q[j].n # w.n
    BY <1>1, <1>2, <2>1, <2>3
  <2>5. ~ (q[j].n > w.n)
    <3>1. SUFFICES ASSUME q[j].n > w.n PROVE FALSE
      OBVIOUS
    <3>2. PICK l \in 1 .. j - 1 : q[l] = made[w.by][w.n]
      <4>1. w.n \in 1 .. q[j].n - 1
        BY <1>2, <2>3, <3>1
      <4> QED
        BY <2>2, <4>1
    <3>3. l \in 1 .. i - 1
      BY <1>2, <2>1
    <3> QED
      BY <1>1, <1>2, <3>2, <3>3
  <2> QED
    BY <1>2, <2>3, <2>4, <2>5
<1>5. {q[j].n : j \in before} = 1 .. w.n - 1
  <2> HIDE DEF before
  <2> QED
    BY <1>3, <1>4
<1> QED
  BY <1>2, <1>5
-----------------------------------------------------------------------------
(* The head.  A step that applies nothing and takes no write keeps a client
   settled if its thread does not pass the lock, or is gone. *)
Stays(c) ==
  \/ pc'[c] = "gone"
  \/ /\ pc[c] # "gone" /\ (pc'[c] \in Unapplied <=> pc[c] \in Unapplied)
     /\ pc[c] \in Unapplied => msg'[c] = msg[c]

LEMMA HeadKeeps ==
  ASSUME HeadInv, log'[1] = log[1], sent' = sent, \A c \in Client : Stays(c)
  PROVE  HeadInv'
<1>1. \A c \in Client : Settled(c)'
  BY DEF HeadInv, Settled, Stays, Unapplied
<1> QED
  BY <1>1 DEF HeadInv

(* The steps that change what HeadInv speaks of are those of the threads of
   clients. *)
LEMMA OtherStays ==
  ASSUME TypeInv, NEW u \in Thread, ReceiveWrite(u) \/ Work(u) \/ Quit(u),
         NEW c \in Client, c # u
  PROVE  pc'[c] = pc[c] /\ msg'[c] = msg[c] /\ sent'[c] = sent[c] /\ Stays(c)
<1>1. pc'[c] = pc[c] /\ msg'[c] = msg[c] /\ sent'[c] = sent[c]
  BY DEF TypeInv, TypeOK, Thread, Work, ReceiveWrite, ReceiveHeader, ReceiveBody,
     ReceiveTorn, SendHeader, SendBody, Send, SendLost, SendFails, Apply, ReplyClient,
     ReplyServer, Quit, LeaveFrom, goto
<1> QED
  BY <1>1 DEF Stays

LEMMA HeadTypes ==
  ASSUME TypeInv
  PROVE  /\ 1 \in Server /\ log[1] \in Seq(Write) /\ Len(log[1]) \in Nat
         /\ DOMAIN log[1] = 1 .. Len(log[1])
         /\ sent \in [Client -> Seq(Write)]
         /\ \A c \in Client : Len(sent[c]) \in Nat
<1>1. 1 \in Server
  BY ThreadFacts DEF Server
<1>2. log[1] \in Seq(Write) /\ sent \in [Client -> Seq(Write)]
  BY <1>1 DEF TypeInv, TypeOK
<1>3. Len(log[1]) \in Nat /\ DOMAIN log[1] = 1 .. Len(log[1])
  BY <1>2
<1>4. \A c \in Client : Len(sent[c]) \in Nat
  BY <1>2
<1> QED
  BY <1>1, <1>2, <1>3, <1>4

(* A client makes a write. *)
LEMMA SentAppends ==
  ASSUME TypeInv, HeadInv, NEW c \in Thread, ReceiveWrite(c)
  PROVE  /\ c \in Client /\ sent' \in [Client -> Seq(Write)]
         /\ Len(sent'[c]) = Len(sent[c]) + 1
         /\ \A n \in 1 .. Len(sent[c]) : sent'[c][n] = sent[c][n]
         /\ msg'[c] = sent'[c][Len(sent'[c])]
         /\ sent'[c][Len(sent'[c])].by = c /\ sent'[c][Len(sent'[c])].n = Len(sent'[c])
         /\ \A d \in Client : d # c => sent'[d] = sent[d]
         /\ pc[c] = "receive" /\ pc'[c] = Onward(c) /\ log' = log
<1>1. PICK k \in Key :
        LET w == [by |-> c, n |-> Len(sent[c]) + 1, key |-> k] IN
        /\ msg' = [msg EXCEPT ![c] = w]
        /\ sent' = [sent EXCEPT ![c] = Append(@, w)]
  BY DEF ReceiveWrite
<1> DEFINE w == [by |-> c, n |-> Len(sent[c]) + 1, key |-> k]
<1>2. c \in Client /\ sent[c] \in Seq(Write) /\ Len(sent[c]) < MaxWrites
      /\ pc[c] = "receive" /\ pc' = [pc EXCEPT ![c] = Onward(c)] /\ log' = log
  BY DEF ReceiveWrite, TypeInv, TypeOK, goto
<1>3. w \in Write /\ w.by = c /\ w.n = Len(sent[c]) + 1
  BY <1>2, ThreadFacts DEF Write
<1> HIDE DEF w
<1>4. msg' = [msg EXCEPT ![c] = w] /\ sent' = [sent EXCEPT ![c] = Append(@, w)]
  BY <1>1 DEF w
<1>5. /\ Append(sent[c], w) \in Seq(Write)
      /\ Len(Append(sent[c], w)) = Len(sent[c]) + 1
      /\ \A n \in 1 .. Len(sent[c]) : Append(sent[c], w)[n] = sent[c][n]
      /\ Append(sent[c], w)[Len(sent[c]) + 1] = w
  BY <1>2, <1>3
<1>6. sent'[c] = Append(sent[c], w) /\ msg'[c] = w /\ pc'[c] = Onward(c)
  BY <1>2, <1>4, HeadTypes DEF TypeInv, TypeOK
<1>7. sent' \in [Client -> Seq(Write)] /\ \A d \in Client : d # c => sent'[d] = sent[d]
  BY <1>2, <1>4, <1>5, HeadTypes
<1> QED
  BY <1>2, <1>3, <1>5, <1>6, <1>7

LEMMA HeadReceives ==
  ASSUME TypeInv, HeadInv, NEW c \in Thread, ReceiveWrite(c)
  PROVE  HeadInv'
<1> DEFINE n == Len(sent[c])
<1> USE HeadTypes
<1>0. /\ c \in Client /\ sent' \in [Client -> Seq(Write)] /\ Len(sent'[c]) = n + 1
      /\ \A k \in 1 .. n : sent'[c][k] = sent[c][k]
      /\ sent'[c][n + 1].by = c /\ sent'[c][n + 1].n = n + 1
      /\ msg'[c] = sent'[c][n + 1] /\ n \in Nat
      /\ \A d \in Client : d # c => sent'[d] = sent[d]
      /\ pc[c] = "receive" /\ pc'[c] = Onward(c) /\ log' = log
  BY SentAppends
<1>1. \A d \in Client : /\ Len(sent[d]) <= Len(sent'[d])
                        /\ \A k \in 1 .. Len(sent[d]) : sent'[d][k] = sent[d][k]
  BY <1>0
<1>2. Ordered(log[1], sent)'
  BY <1>0, <1>1, OrderedLater DEF HeadInv
<1>3. ASSUME NEW d \in Client, NEW k \in 1 .. Len(sent'[d])
      PROVE  sent'[d][k].by = d /\ sent'[d][k].n = k
  <2>1. CASE d = c /\ k = n + 1
    BY <1>0, <2>1
  <2>2. CASE ~ (d = c /\ k = n + 1)
    <3>1. k \in 1 .. Len(sent[d]) /\ sent'[d][k] = sent[d][k]
      BY SMTT(30), <1>0, <1>3, <2>2
    <3> QED
      BY <3>1 DEF HeadInv
  <2> QED
    BY <2>1, <2>2
<1>4. ASSUME NEW d \in Client PROVE Settled(d)'
  <2>1. CASE d # c
    <3>1. pc'[d] = pc[d] /\ msg'[d] = msg[d]
      BY <2>1, OtherStays
    <3> QED
      BY <1>0, <2>1, <3>1 DEF HeadInv, Settled
  <2>2. CASE d = c
    <3>1. pc'[c] \in Unapplied /\ sent'[c] # <<>>
      BY <1>0 DEF Onward, Unapplied
    <3>2. ~ In(sent'[c][n + 1], log[1])
      <4>1. \A i \in DOMAIN log[1] : Genuine(log[1][i], sent)
        BY DEF HeadInv, Ordered
      <4> QED
        BY <1>0, <4>1 DEF Genuine, In
    <3>3. \A k \in 1 .. n : In(sent'[c][k], log[1])
      BY <1>0 DEF HeadInv, Settled, Unapplied
    <3> QED
      BY <1>0, <2>2, <3>1, <3>2, <3>3 DEF Settled
  <2> QED
    BY <2>1, <2>2
<1> QED
  BY <1>2, <1>3, <1>4 DEF HeadInv

(* The head applies a write. *)
LEMMA HeadApplies ==
  ASSUME TypeInv, HeadInv, NEW c \in Client, Apply(c)
  PROVE  HeadInv'
<1> USE HeadTypes
<1> DEFINE w == msg[c]
           last == Len(sent[c])
<1>1. /\ pc[c] = "apply" /\ pc'[c] = "reply" /\ msg' = msg /\ sent' = sent
      /\ log'[1] = Append(log[1], w) /\ w \in Write
  <2>1. At(c) = 1 /\ c \in Thread
    BY ThreadFacts DEF Thread
  <2>2. pc[c] = "apply" /\ log' = [log EXCEPT ![1] = Append(@, w)]
        /\ pc' = [pc EXCEPT ![c] = "reply"] /\ msg' = msg /\ sent' = sent
    BY <2>1 DEF Apply, goto
  <2> QED
    BY <2>1, <2>2 DEF TypeInv, TypeOK, InHand
<1>2. last \in Nat \ {0} /\ w = sent[c][last] /\ w.by = c /\ w.n = last
  <2>1. sent[c] # <<>> /\ w = sent[c][last] /\ sent[c] \in Seq(Write)
    BY <1>1 DEF HeadInv, Settled, Unapplied
  <2>2. last \in Nat \ {0}
    BY <2>1
  <2> QED
    BY <2>1, <2>2 DEF HeadInv
<1>3. \A n \in 1 .. last : In(sent[c][n], log[1]) <=> n < last
  BY <1>1 DEF HeadInv, Settled, Unapplied
<1>4. Ordered(Append(log[1], w), sent)
  <2>1. Genuine(w, sent) /\ ~ In(w, log[1])
    BY <1>2, <1>3 DEF Genuine
  <2>2. \A m \in 1 .. w.n - 1 : In(sent[w.by][m], log[1])
    BY <1>2, <1>3
  <2> QED
    BY <1>1, <2>1, <2>2, OrderedAppend DEF HeadInv
<1>5. \A v : In(v, log'[1]) <=> In(v, log[1]) \/ v = w
  BY <1>1, InAppend
<1>6. ASSUME NEW d \in Client PROVE Settled(d)'
  <2>1. CASE d # c
    <3>1. pc'[d] = pc[d] /\ msg'[d] = msg[d]
      BY <1>1, <2>1, OtherStays DEF Work, Thread
    <3>2. \A n \in 1 .. Len(sent[d]) : sent[d][n] # w
      BY <1>2, <2>1 DEF HeadInv
    <3> QED
      BY <1>1, <1>5, <2>1, <3>1, <3>2 DEF HeadInv, Settled
  <2>2. CASE d = c
    <3>1. \A n \in 1 .. last : In(sent[c][n], log'[1])
      BY <1>2, <1>3, <1>5
    <3> QED
      BY <1>1, <2>2, <3>1 DEF Settled, Unapplied
  <2> QED
    BY <2>1, <2>2
<1> QED
  BY <1>1, <1>4, <1>6 DEF HeadInv

LEMMA HeadInit ==
  Init => HeadInv
<1> SUFFICES ASSUME Init PROVE HeadInv
  OBVIOUS
<1>1. log[1] = <<>> /\ \A c \in Client : sent[c] = <<>> /\ pc[c] = "receive"
  BY ThreadFacts DEF Init, Server, Thread
<1> QED
  BY <1>1 DEF HeadInv, Ordered, Settled, Unapplied

LEMMA HeadStep ==
  ASSUME TypeInv, HeadInv, NEW u \in Thread, ReceiveWrite(u) \/ Work(u) \/ Quit(u)
  PROVE  HeadInv'
<1>1. CASE ReceiveWrite(u)
  BY <1>1, HeadReceives
<1>2. CASE u \in Client /\ Apply(u)
  BY <1>2, HeadApplies
<1>3. CASE ~ ReceiveWrite(u) /\ ~ (u \in Client /\ Apply(u))
  <2>1. log'[1] = log[1] /\ sent' = sent
    <3>1. sent' = sent
      BY <1>3 DEF Work, ReceiveHeader, ReceiveBody, ReceiveTorn, SendHeader, SendBody,
         Send, SendLost, SendFails, Apply, ReplyClient, ReplyServer, Quit, LeaveFrom
    <3>2. CASE Apply(u)
      <4>1. At(u) # 1
        BY <1>3, <3>2, ThreadFacts DEF Thread, Inner
      <4> QED
        BY <3>1, <3>2, <4>1, HeadTypes DEF Apply, TypeInv, TypeOK
    <3>3. CASE ~ Apply(u)
      BY <1>3, <3>1, <3>3 DEF Work, ReceiveHeader, ReceiveBody, ReceiveTorn, SendHeader,
         SendBody, Send, SendLost, SendFails, ReplyClient, ReplyServer, Quit, LeaveFrom
    <3> QED
      BY <3>1, <3>2, <3>3
  <2>2. ASSUME NEW c \in Client PROVE Stays(c)
    <3>1. CASE c # u
      BY <3>1, OtherStays
    <3>2. CASE c = u
      <4>1. /\ ~ ReceiveHeader(u) /\ ~ ReceiveBody(u) /\ ~ ReceiveTorn(u)
            /\ ~ ReplyServer(u) /\ ~ Apply(u)
        BY <1>3, <3>2, ThreadFacts
        DEF ReceiveHeader, ReceiveBody, ReceiveTorn, ReplyServer
      <4>2. CASE SendHeader(u) \/ SendBody(u) \/ SendLost(u) \/ ReplyClient(u)
        BY <3>2, <4>2 DEF Stays, SendHeader, SendBody, Send, SendLost, ReplyClient,
           goto, Unapplied, TypeInv, TypeOK
      <4>3. CASE SendFails(u) \/ Quit(u)
        BY <3>2, <4>3 DEF Stays, SendFails, Quit, LeaveFrom, TypeInv, TypeOK
      <4> QED
        BY <1>3, <4>1, <4>2, <4>3 DEF Work
    <3> QED
      BY <3>1, <3>2
  <2> QED
    BY <2>1, <2>2, HeadKeeps
<1> QED
  BY <1>1, <1>2, <1>3
-----------------------------------------------------------------------------
(* The connection that the threads of the head share. *)
LEMMA PartFacts ==
  /\ \A v, w : /\ (Header(v) = Header(w) <=> v = w) /\ (Body(v) = Body(w) <=> v = w)
               /\ Header(v) # Body(w) /\ Header(v).of = v /\ Body(v).of = v
  /\ \A p \in Part : p.of \in Write /\ (p = Header(p.of) \/ p = Body(p.of))
  /\ \A w \in Write : Header(w) \in Part /\ Body(w) \in Part
<1>1. \A v : /\ Header(v).of = v /\ Body(v).of = v
             /\ Header(v).part = "header" /\ Body(v).part = "body"
  BY DEF Header, Body
<1> QED
  BY <1>1 DEF Part

LEMMA LinkTypes ==
  ASSUME TypeInv, 2 \in Inner
  PROVE  /\ 2 \in Server /\ 2 \in Thread /\ At(2) = 2 /\ 2 \notin Client
         /\ link[2] \in Seq(Part) /\ Len(link[2]) \in Nat
         /\ DOMAIN link[2] = 1 .. Len(link[2])
         /\ log[2] \in Seq(Write) /\ pc[2] \in Places
         /\ pc[2] \in InHand => msg[2] \in Write
         /\ Held \in Seq(Write) /\ Len(log[2]) <= Len(Held)
         /\ \A i \in 1 .. Len(log[2]) : Held[i] = log[2][i]
         /\ up[2] <=> pc[2] # "gone"
<1>1. 2 \in Server /\ 2 \in Thread /\ At(2) = 2 /\ 2 \notin Client
  BY ThreadFacts DEF Thread
<1>2. /\ link[2] \in Seq(Part) /\ log[2] \in Seq(Write) /\ pc[2] \in Places
      /\ pc[2] \in InHand => msg[2] \in Write
      /\ up[2] <=> pc[2] # "gone"
  BY <1>1 DEF TypeInv, TypeOK
<1>3. Len(link[2]) \in Nat /\ DOMAIN link[2] = 1 .. Len(link[2])
  BY <1>2
<1>4. /\ Held \in Seq(Write) /\ Len(log[2]) <= Len(Held)
      /\ \A i \in 1 .. Len(log[2]) : Held[i] = log[2][i]
  BY <1>2 DEF Held
<1> QED
  BY <1>1, <1>2, <1>3, <1>4

(* What was taken, by writes. *)
LEMMA TakenFacts ==
  ASSUME TypeInv, 2 \in Inner, NEW w
  PROVE  /\ Taken(Header(w)) <=> In(w, Held)
         /\ Taken(Body(w)) <=> In(w, log[2]) \/ (pc[2] \in Unapplied /\ w = msg[2])
<1>1. In(w, Held) <=> In(w, log[2]) \/ (pc[2] \in InHand /\ w = msg[2])
  BY LinkTypes, InAppend DEF Held
<1>2. Taken(Header(w)) <=> In(w, log[2]) \/ (pc[2] \in InHand /\ w = msg[2])
  BY PartFacts DEF Taken, In
<1>3. Taken(Body(w)) <=> In(w, log[2]) \/ (pc[2] \in Unapplied /\ w = msg[2])
  BY PartFacts DEF Taken, In
<1> QED
  BY <1>1, <1>2, <1>3

(* Steps that send nothing, take nothing and apply nothing at the head. *)
SendsNothing(c) ==
  \/ pc'[c] = "gone"
  \/ /\ pc[c] # "gone"
     /\ pc'[c] = "header" <=> pc[c] = "header"
     /\ pc'[c] = "body" <=> pc[c] = "body"

LEMMA SharedKeeps ==
  ASSUME SharedLink, link'[2] = link[2], log'[1] = log[1], sent' = sent,
         \A p : Taken(p)' <=> Taken(p), \A c \in Client : SendsNothing(c)
  PROVE  SharedLink'
<1>1. \A p, j : Ahead(p, j)' <=> Ahead(p, j)
  BY DEF Ahead
<1>2. \A p : OnWay(p)' <=> OnWay(p)
  BY DEF OnWay
<1>3. \A j \in DOMAIN link[2] : PartInOrder(j)'
  BY <1>1 DEF SharedLink, PartInOrder
<1>4. \A c \in Client : SentOn(c)'
  BY <1>2 DEF SharedLink, SentOn, SendsNothing
<1> QED
  BY <1>2, <1>3, <1>4 DEF SharedLink

(* Only what a client has sent is on its way. *)
LEMMA OnWayGenuine ==
  ASSUME TypeInv, 2 \in Inner, Ordered(Held, sent), SharedLink,
         NEW p, OnWay(p)
  PROVE  Genuine(p.of, sent)
<1>1. CASE Taken(p)
  <2>1. PICK w : p.of = w /\ In(w, Held)
    <3>1. CASE \E i \in DOMAIN log[2] : p = Header(log[2][i]) \/ p = Body(log[2][i])
      <4>1. PICK i \in DOMAIN log[2] : p = Header(log[2][i]) \/ p = Body(log[2][i])
        BY <3>1
      <4>2. p.of = log[2][i] /\ Taken(Header(log[2][i]))
        BY <4>1, PartFacts DEF Taken
      <4> QED
        BY <4>2, TakenFacts
    <3>2. CASE pc[2] \in InHand /\ (p = Header(msg[2]) \/ p = Body(msg[2]))
      <4>1. p.of = msg[2] /\ Taken(Header(msg[2]))
        BY <3>2, PartFacts DEF Taken
      <4> QED
        BY <4>1, TakenFacts
    <3> QED
      BY <1>1, <3>1, <3>2 DEF Taken, InHand, Unapplied
  <2> QED
    BY <2>1 DEF In, Ordered
<1>2. CASE In(p, link[2])
  BY <1>2 DEF In, SharedLink, PartInOrder
<1> QED
  BY <1>1, <1>2 DEF OnWay

(* A client makes a write: no part of it is on its way. *)
LEMMA SharedReceives ==
  ASSUME TypeInv, 2 \in Inner, HeadInv, Ordered(Held, sent), SharedLink,
         NEW c \in Thread, ReceiveWrite(c)
  PROVE  SharedLink'
<1> DEFINE n == Len(sent[c])
           w == sent'[c][n + 1]
<1>0. /\ c \in Client /\ Len(sent'[c]) = n + 1 /\ n \in Nat
      /\ \A k \in 1 .. n : sent'[c][k] = sent[c][k]
      /\ w.by = c /\ w.n = n + 1
      /\ \A d \in Client : d # c => sent'[d] = sent[d]
      /\ pc[c] = "receive" /\ pc'[c] = Onward(c) /\ log' = log
  BY SentAppends, HeadTypes
<1>1. link' = link /\ pc'[2] = pc[2] /\ msg'[2] = msg[2]
  <2>1. c # 2
    BY <1>0, LinkTypes
  <2> QED
    BY <2>1, LinkTypes DEF ReceiveWrite, goto, TypeInv, TypeOK
<1>2. /\ \A p : Taken(p)' <=> Taken(p)
      /\ \A p, j : Ahead(p, j)' <=> Ahead(p, j)
      /\ \A p : OnWay(p)' <=> OnWay(p)
  <2>1. \A p : Taken(p)' <=> Taken(p)
    BY <1>0, <1>1 DEF Taken
  <2> QED
    BY <1>1, <2>1 DEF Ahead, OnWay
<1>3. \A d \in Client : /\ Len(sent[d]) \in Nat /\ Len(sent[d]) <= Len(sent'[d])
                        /\ \A k \in 1 .. Len(sent[d]) : sent'[d][k] = sent[d][k]
  <2> TAKE d \in Client
  <2>1. Len(sent[d]) \in Nat
    BY HeadTypes
  <2>2. CASE d = c
    BY <1>0, <2>1, <2>2
  <2>3. CASE d # c
    BY <1>0, <2>1, <2>3
  <2> QED
    BY <2>2, <2>3
<1>4. ASSUME NEW j \in DOMAIN link[2] PROVE PartInOrder(j)'
  <2> DEFINE p == link[2][j]
  <2>1. PartInOrder(j)
    BY DEF SharedLink
  <2>2. /\ p.of.by \in Client /\ p.of.n \in 1 .. Len(sent[p.of.by])
        /\ sent[p.of.by][p.of.n] = p.of
    BY <2>1 DEF PartInOrder, Genuine
  <2>3. Genuine(p.of, sent')
    BY <1>3, <2>2 DEF Genuine
  <2>4. \A m \in 1 .. p.of.n - 1 : sent'[p.of.by][m] = sent[p.of.by][m]
    <3>1. Len(sent[p.of.by]) \in Nat
      BY <1>3, <2>2
    <3>2. \A m \in 1 .. p.of.n - 1 : m \in 1 .. Len(sent[p.of.by])
      BY <2>2, <3>1
    <3> QED
      BY <1>3, <2>2, <3>2
  <2> QED
    BY <1>1, <1>2, <2>1, <2>3, <2>4 DEF PartInOrder
<1>5. ASSUME NEW d \in Client PROVE SentOn(d)'
  <2>1. CASE d # c
    <3>1. pc'[d] = pc[d]
      BY <2>1, OtherStays
    <3> QED
      BY <1>0, <1>2, <2>1, <3>1 DEF SharedLink, SentOn
  <2>2. CASE d = c
    <3>1. pc'[c] = "header"
      BY <1>0, ThreadFacts DEF Onward, Inner
    <3>2. ~ Genuine(w, sent)
      BY <1>0 DEF Genuine
    <3>3. ~ OnWay(Header(w)) /\ ~ OnWay(Body(w))
      BY <3>2, OnWayGenuine, PartFacts
    <3>4. \A k \in 1 .. n : OnWay(Header(sent[c][k])) /\ OnWay(Body(sent[c][k]))
      BY <1>0 DEF SharedLink, SentOn
    <3> HIDE DEF w
    <3>5. \A k \in 1 .. n + 1 : IF k = n + 1 THEN sent'[c][k] = w
                                ELSE k \in 1 .. n /\ sent'[c][k] = sent[c][k]
      BY <1>0 DEF w
    <3> QED
      BY <1>0, <1>2, <2>2, <3>1, <3>3, <3>4, <3>5 DEF SentOn
  <2> QED
    BY <2>1, <2>2
<1> QED
  BY <1>0, <1>1, <1>2, <1>4, <1>5 DEF SharedLink

(* A client's thread sends a part of its message. *)
LEMMA SharedSends ==
  ASSUME TypeInv, 2 \in Inner, HeadInv, SharedLink,
         NEW c \in Client, SendHeader(c) \/ SendBody(c)
  PROVE  SharedLink'
<1> USE LinkTypes, HeadTypes
<1> DEFINE w == msg[c]
           last == Len(sent[c])
           part == IF pc[c] = "header" THEN Header(w) ELSE Body(w)
           n == Len(link[2])
<1>1. /\ pc[c] \in {"header", "body"}
      /\ pc'[c] = IF pc[c] = "header" THEN "body" ELSE "apply"
      /\ link' = [link EXCEPT ![2] = Append(@, part)]
      /\ msg' = msg /\ up' = up /\ log' = log /\ sent' = sent /\ w \in Write
      /\ pc'[2] = pc[2]
  <2>1. At(c) + 1 = 2 /\ c # 2 /\ c \in Thread
    BY ThreadFacts DEF Thread
  <2> QED
    BY <2>1 DEF SendHeader, SendBody, Send, goto, TypeInv, TypeOK, InHand
<1>2. last \in Nat \ {0} /\ w = sent[c][last] /\ w.by = c /\ w.n = last
  <2>1. sent[c] # <<>> /\ w = sent[c][last] /\ sent[c] \in Seq(Write)
    BY <1>1 DEF HeadInv, Settled, Unapplied
  <2>2. last \in Nat \ {0}
    BY <2>1
  <2> QED
    BY <2>1, <2>2 DEF HeadInv
<1>3. part \in Part /\ part.of = w
  BY <1>1, PartFacts
<1>4. /\ Len(link'[2]) = n + 1 /\ DOMAIN link'[2] = 1 .. n + 1 /\ link'[2][n + 1] = part
      /\ \A i \in 1 .. n : link'[2][i] = link[2][i]
  <2>1. link'[2] = Append(link[2], part)
    BY <1>1 DEF TypeInv, TypeOK
  <2> HIDE DEF part
  <2> QED
    BY <1>3, <2>1
<1> HIDE DEF part
<1>5. /\ \A p : Taken(p)' <=> Taken(p)
      /\ \A p : \A j \in 1 .. n + 1 : Ahead(p, j)' <=> Ahead(p, j)
      /\ \A p : OnWay(p) <=> Ahead(p, n + 1)
      /\ \A p : OnWay(p)' <=> OnWay(p) \/ p = part
  <2>1. \A p : Taken(p)' <=> Taken(p)
    BY <1>1 DEF Taken
  <2>2. ASSUME NEW p, NEW j \in 1 .. n + 1 PROVE Ahead(p, j)' <=> Ahead(p, j)
    <3>1. \A i \in 1 .. j - 1 : link'[2][i] = link[2][i]
      BY <1>4
    <3> QED
      BY <2>1, <3>1 DEF Ahead
  <2>3. ASSUME NEW p PROVE OnWay(p) <=> Ahead(p, n + 1)
    <3>1. 1 .. (n + 1) - 1 = DOMAIN link[2]
      OBVIOUS
    <3> HIDE DEF n
    <3> QED
      BY <3>1 DEF OnWay, Ahead, In
  <2>4. ASSUME NEW p PROVE In(p, link'[2]) <=> In(p, link[2]) \/ p = part
    <3>1. link'[2] = Append(link[2], part) /\ part \in Part
      BY <1>1, <1>3 DEF TypeInv, TypeOK
    <3> QED
      BY <3>1, InAppend
  <2> QED
    BY <2>1, <2>2, <2>3, <2>4 DEF OnWay
<1>6. /\ pc[c] = "header" => ~ OnWay(Header(w))
      /\ pc[c] = "body" => ~ OnWay(Body(w)) /\ OnWay(Header(w))
      /\ \A m \in 1 .. last - 1 : OnWay(Header(sent[c][m])) /\ OnWay(Body(sent[c][m]))
  <2>1. pc[c] # "gone" /\ SentOn(c)
    BY <1>1 DEF SharedLink
  <2>2. /\ OnWay(Header(w)) <=> pc[c] # "header"
        /\ OnWay(Body(w)) <=> pc[c] \notin {"header", "body"}
    <3>1. last \in 1 .. last /\ ~ (last < last)
      BY <1>2
    <3> QED
      BY <1>2, <2>1, <3>1 DEF SentOn
  <2>3. \A m \in 1 .. last - 1 : m \in 1 .. last /\ m < last
    BY <1>2
  <2>4. \A m \in 1 .. last - 1 : OnWay(Header(sent[c][m])) /\ OnWay(Body(sent[c][m]))
    BY <2>1, <2>3 DEF SentOn
  <2> QED
    BY <1>1, <2>2, <2>4
<1>7. ASSUME NEW j \in 1 .. n + 1 PROVE PartInOrder(j)'
  <2>1. CASE j \in 1 .. n
    <3>1. PartInOrder(j)
      BY <2>1 DEF SharedLink
    <3> QED
      BY <1>1, <1>4, <1>5, <2>1, <3>1 DEF PartInOrder
  <2>2. CASE j = n + 1
    <3>1. Genuine(w, sent)
      BY <1>2 DEF Genuine
    <3>2. ~ OnWay(part) /\ (part = Body(w) => OnWay(Header(w)))
      BY <1>1, <1>6, PartFacts DEF part
    <3>3. \A m \in 1 .. w.n - 1 : OnWay(Header(sent[c][m])) /\ OnWay(Body(sent[c][m]))
      BY <1>2, <1>6
    <3>4. \A p : Ahead(p, j)' <=> OnWay(p)
      BY <1>5, <2>2
    <3>5. link'[2][j] = part
      BY <1>4, <2>2
    <3> QED
      BY ZenonT(40), <1>1, <1>2, <1>3, <3>1, <3>2, <3>3, <3>4, <3>5 DEF PartInOrder
  <2>3. n \in Nat
    OBVIOUS
  <2> HIDE DEF n
  <2> QED
    BY <2>1, <2>2, <2>3
<1>8. ASSUME NEW d \in Client PROVE SentOn(d)'
  <2>1. CASE d # c
    <3>1. pc'[d] = pc[d]
      BY <2>1, OtherStays DEF Work, Thread
    <3>2. \A k \in 1 .. Len(sent[d]) :
            Header(sent[d][k]) # part /\ Body(sent[d][k]) # part
      <4>1. \A k \in 1 .. Len(sent[d]) : sent[d][k] # w
        BY <1>2, <2>1 DEF HeadInv
      <4> QED
        BY <1>3, <4>1, PartFacts
    <3> QED
      BY <1>1, <1>5, <3>1, <3>2 DEF SharedLink, SentOn
  <2>2. CASE d = c
    <3>1. \A k \in 1 .. last : sent[c][k] = w <=> k = last
      BY <1>2 DEF HeadInv
    <3>2. CASE pc[c] = "header"
      <4>1. part = Header(w) /\ pc'[c] = "body"
        BY <1>1, <3>2 DEF part
      <4>2. \A k \in 1 .. last : OnWay(Body(sent[c][k])) <=> k < last
        BY <1>1, <3>2 DEF SharedLink, SentOn
      <4> QED
        BY <1>1, <1>2, <1>5, <1>6, <2>2, <4>1, <4>2, PartFacts DEF SentOn
    <3>3. CASE pc[c] = "body"
      <4>1. part = Body(w) /\ pc'[c] = "apply"
        BY <1>1, <3>3 DEF part
      <4>2. \A k \in 1 .. last : OnWay(Header(sent[c][k]))
        BY <1>1, <3>3 DEF SharedLink, SentOn
      <4>3. \A k \in 1 .. last : OnWay(Body(sent[c][k])) <=> k < last
        BY <1>1, <3>3 DEF SharedLink, SentOn
      <4> QED
        BY <1>1, <1>2, <1>5, <2>2, <3>1, <4>1, <4>2, <4>3, PartFacts DEF SentOn
    <3> QED
      BY <1>1, <3>2, <3>3
  <2> QED
    BY <2>1, <2>2
<1> QED
  BY <1>1, <1>4, <1>5, <1>7, <1>8 DEF SharedLink

(* The head applies a write, both parts of which its thread has sent. *)
LEMMA SharedApplies ==
  ASSUME TypeInv, 2 \in Inner, HeadInv, SharedLink, NEW c \in Client, Apply(c)
  PROVE  SharedLink'
<1> USE LinkTypes, HeadTypes
<1> DEFINE w == msg[c]
           last == Len(sent[c])
<1>1. /\ pc[c] = "apply" /\ pc'[c] = "reply" /\ link' = link /\ sent' = sent
      /\ log'[1] = Append(log[1], w) /\ w \in Write
      /\ log'[2] = log[2] /\ pc'[2] = pc[2] /\ msg' = msg
  <2>1. At(c) = 1 /\ c \in Thread /\ c # 2
    BY ThreadFacts DEF Thread
  <2>2. pc[c] = "apply" /\ log' = [log EXCEPT ![1] = Append(@, w)]
        /\ pc' = [pc EXCEPT ![c] = "reply"] /\ msg' = msg /\ sent' = sent /\ link' = link
    BY <2>1 DEF Apply, goto
  <2> QED
    BY <2>1, <2>2 DEF TypeInv, TypeOK, InHand
<1>2. OnWay(Body(w))
  <2>1. sent[c] # <<>> /\ w = sent[c][last] /\ sent[c] \in Seq(Write)
    BY <1>1 DEF HeadInv, Settled, Unapplied
  <2>2. last \in 1 .. last
    BY <2>1
  <2> QED
    BY <1>1, <2>1, <2>2 DEF SharedLink, SentOn
<1>3. /\ \A p, j : Ahead(p, j)' <=> Ahead(p, j)
      /\ \A p : OnWay(p)' <=> OnWay(p)
  <2>1. \A p : Taken(p)' <=> Taken(p)
    BY <1>1 DEF Taken
  <2> QED
    BY <1>1, <2>1 DEF Ahead, OnWay
<1>4. \A j \in DOMAIN link[2] : PartInOrder(j)'
  BY <1>1, <1>3 DEF SharedLink, PartInOrder
<1>5. ASSUME NEW d \in Client PROVE SentOn(d)'
  <2>1. SendsNothing(d)
    <3>1. d # c => pc'[d] = pc[d]
      BY OtherStays DEF Work, Thread
    <3> QED
      BY <1>1, <3>1 DEF SendsNothing
  <2> QED
    BY <1>1, <1>3, <2>1 DEF SharedLink, SentOn, SendsNothing
<1>6. \A i \in DOMAIN log'[1] : OnWay(Body(log'[1][i]))
  <2>1. /\ DOMAIN log'[1] = 1 .. Len(log[1]) + 1
        /\ log'[1][Len(log[1]) + 1] = w
        /\ \A i \in 1 .. Len(log[1]) : log'[1][i] = log[1][i]
    BY <1>1
  <2>2. \A i \in 1 .. Len(log[1]) : OnWay(Body(log[1][i]))
    BY DEF SharedLink
  <2>3. ASSUME NEW i \in 1 .. Len(log[1]) + 1
        PROVE  i = Len(log[1]) + 1 \/ i \in 1 .. Len(log[1])
    OBVIOUS
  <2> QED
    BY <1>2, <2>1, <2>2, <2>3
<1> QED
  BY <1>1, <1>3, <1>4, <1>5, <1>6 DEF SharedLink

(* Server 2 reads the first part: a header whenever it is between two
   messages, and what it then holds is still in order. *)
LEMMA TakesInOrder ==
  ASSUME TypeInv, 2 \in Inner, HeadInv, Ordered(Held, sent), SharedLink,
         ReceiveHeader(2) \/ ReceiveBody(2)
  PROVE  /\ link[2] # <<>> /\ link'[2] = Tail(link[2])
         /\ log' = log /\ sent' = sent /\ \A c \in Client : pc'[c] = pc[c]
         /\ \A p : Taken(p)' <=> Taken(p) \/ p = link[2][1]
         /\ Ordered(Held, sent)'
<1> USE LinkTypes, HeadTypes
<1> DEFINE p == link[2][1]
           w == p.of
<1>1. /\ link[2] # <<>> /\ link'[2] = Tail(link[2]) /\ log' = log /\ sent' = sent
      /\ \A c \in Client : pc'[c] = pc[c]
      /\ 1 \in DOMAIN link[2] /\ Head(link[2]) = p /\ p \in Part
  <2>1. link[2] # <<>> /\ link'[2] = Tail(link[2]) /\ log' = log /\ sent' = sent
    BY DEF ReceiveHeader, ReceiveBody, TypeInv, TypeOK
  <2>2. 1 \in DOMAIN link[2] /\ Head(link[2]) = p /\ p \in Part
    BY <2>1
  <2>3. \A c \in Client : pc'[c] = pc[c]
    BY DEF ReceiveHeader, ReceiveBody, goto, TypeInv, TypeOK, Thread
  <2> QED
    BY <2>1, <2>2, <2>3
<1>2. \A q : Ahead(q, 1) <=> Taken(q)
  BY DEF Ahead
<1>3. /\ Genuine(w, sent) /\ ~ Taken(p) /\ (p = Body(w) => Taken(Header(w)))
      /\ \A m \in 1 .. w.n - 1 : Taken(Body(sent[w.by][m]))
  BY <1>1, <1>2 DEF SharedLink, PartInOrder
<1>4. CASE ReceiveHeader(2)
  <2>1. pc[2] = "receive" /\ pc'[2] = "read" /\ msg'[2] = w
    BY <1>1, <1>4 DEF ReceiveHeader, goto, TypeInv, TypeOK
  <2>2. Held = log[2] /\ Held' = Append(log[2], w) /\ w \in Write
    BY <1>1, <2>1, PartFacts DEF Held, InHand
  <2>3. p = Header(w)
    <3>1. \A v : Taken(Header(v)) => Taken(Body(v))
      BY <2>2, TakenFacts
    <3> QED
      BY <1>1, <1>3, <3>1, PartFacts
  <2>4. \A q : Taken(q)' <=> Taken(q) \/ q = p
    BY <1>1, <2>1, <2>3 DEF Taken, InHand, Unapplied
  <2>5. ~ In(w, log[2])
    BY <1>3, <2>2, <2>3, TakenFacts
  <2>6. \A m \in 1 .. w.n - 1 : In(sent[w.by][m], log[2])
    BY <1>3, <2>1, TakenFacts DEF Unapplied
  <2>7. Ordered(Append(log[2], w), sent)
    BY <1>3, <2>2, <2>5, <2>6, OrderedAppend
  <2> QED
    BY <1>1, <2>2, <2>4, <2>7
<1>5. CASE ReceiveBody(2)
  <2>1. pc[2] = "read" /\ pc'[2] \in Unapplied /\ msg' = msg /\ p = Body(msg[2])
    BY <1>1, <1>5 DEF ReceiveBody, goto, TypeInv, TypeOK, Onward, Unapplied
  <2>2. Held' = Held
    BY <1>1, <2>1 DEF Held, InHand, Unapplied
  <2>3. \A q : Taken(q)' <=> Taken(q) \/ q = p
    BY <1>1, <2>1 DEF Taken, InHand, Unapplied
  <2> QED
    BY <1>1, <2>2, <2>3
<1> QED
  BY <1>4, <1>5

LEMMA SharedTakes ==
  ASSUME TypeInv, 2 \in Inner, HeadInv, Ordered(Held, sent), SharedLink,
         ReceiveHeader(2) \/ ReceiveBody(2)
  PROVE  SharedLink'
<1> USE LinkTypes, HeadTypes
<1> DEFINE n == Len(link[2])
<1>1. /\ link[2] # <<>> /\ link'[2] = Tail(link[2])
      /\ log' = log /\ sent' = sent /\ \A c \in Client : pc'[c] = pc[c]
      /\ \A p : Taken(p)' <=> Taken(p) \/ p = link[2][1]
  BY TakesInOrder
<1>2. /\ n \in Nat \ {0} /\ DOMAIN link[2] = 1 .. n /\ DOMAIN link'[2] = 1 .. n - 1
      /\ \A i \in 1 .. n - 1 : link'[2][i] = link[2][i + 1]
  BY <1>1
<1> HIDE DEF n
<1>3. ASSUME NEW p, NEW j \in 1 .. n PROVE Ahead(p, j)' <=> Ahead(p, j + 1)
  <2>1. ASSUME NEW i \in 1 .. j - 1, link'[2][i] = p
        PROVE  \E k \in 1 .. j : link[2][k] = p
    <3>1. i + 1 \in 1 .. j /\ link[2][i + 1] = p
      BY <1>2, <2>1
    <3> QED
      BY <3>1
  <2>2. ASSUME NEW k \in 1 .. j, link[2][k] = p, k # 1
        PROVE  \E i \in 1 .. j - 1 : link'[2][i] = p
    <3>1. k - 1 \in 1 .. j - 1 /\ k - 1 \in 1 .. n - 1 /\ (k - 1) + 1 = k
      BY <1>2, <2>2
    <3>2. link'[2][k - 1] = p
      BY <1>2, <2>2, <3>1
    <3> QED
      BY <3>1, <3>2
  <2>3. (j + 1) - 1 = j /\ 1 \in 1 .. j
    OBVIOUS
  <2> QED
    BY <1>1, <2>1, <2>2, <2>3 DEF Ahead
<1>4. ASSUME NEW p PROVE OnWay(p)' <=> OnWay(p)
  <2>1. In(p, link[2]) <=> p = link[2][1] \/ In(p, link'[2])
    BY <1>1, InTail
  <2> QED
    BY <1>1, <2>1 DEF OnWay
<1>5. ASSUME NEW j \in 1 .. n - 1 PROVE PartInOrder(j)'
  <2>1. j + 1 \in DOMAIN link[2] /\ link'[2][j] = link[2][j + 1] /\ j \in 1 .. n
    BY <1>2
  <2>2. PartInOrder(j + 1)
    BY <2>1 DEF SharedLink
  <2>3. \A p : Ahead(p, j)' <=> Ahead(p, j + 1)
    BY <1>3, <2>1
  <2> QED
    BY <1>1, <2>1, <2>2, <2>3 DEF PartInOrder
<1>6. \A c \in Client : SentOn(c)'
  BY <1>1, <1>4 DEF SharedLink, SentOn
<1> QED
  BY <1>1, <1>2, <1>4, <1>5, <1>6 DEF SharedLink

(* Every step, first for what server 2 holds, *)
LEMMA HeldStep ==
  ASSUME TypeInv, 2 \in Inner, HeadInv, LinkInv,
         NEW u \in Thread, ReceiveWrite(u) \/ Work(u) \/ Quit(u)
  PROVE  Ordered(Held, sent)'
<1> USE LinkTypes, HeadTypes
<1>0. Ordered(Held, sent) /\ (up[2] => SharedLink)
  BY DEF LinkInv
<1>1. CASE ReceiveWrite(u)
  <2>1. Held' = Held
    <3>1. u # 2 /\ log' = log
      BY <1>1 DEF ReceiveWrite
    <3>2. pc'[2] = pc[2] /\ msg'[2] = msg[2]
      BY <1>1, <3>1 DEF ReceiveWrite, goto, TypeInv, TypeOK
    <3> QED
      BY <3>1, <3>2 DEF Held
  <2>2. /\ sent' \in [Client -> Seq(Write)]
        /\ \A c \in Client : /\ Len(sent[c]) <= Len(sent'[c])
                             /\ \A n \in 1 .. Len(sent[c]) : sent'[c][n] = sent[c][n]
    <3>1. /\ u \in Client /\ sent' \in [Client -> Seq(Write)]
          /\ Len(sent'[u]) = Len(sent[u]) + 1
          /\ \A n \in 1 .. Len(sent[u]) : sent'[u][n] = sent[u][n]
          /\ \A c \in Client : c # u => sent'[c] = sent[c]
      BY <1>1, SentAppends
    <3>2. Len(sent[u]) \in Nat
      BY <3>1
    <3>3. ASSUME NEW c \in Client
          PROVE  /\ Len(sent[c]) <= Len(sent'[c])
                 /\ \A n \in 1 .. Len(sent[c]) : sent'[c][n] = sent[c][n]
      <4>1. CASE c = u
        BY <3>1, <3>2, <4>1
      <4>2. CASE c # u
        <5>1. sent'[c] = sent[c] /\ Len(sent[c]) \in Nat
          BY <3>1, <4>2
        <5> QED
          BY <5>1
      <4> QED
        BY <4>1, <4>2
    <3> QED
      BY <3>1, <3>3
  <2> QED
    BY <1>0, <2>1, <2>2, OrderedLater
<1>2. CASE u # 2 /\ (Work(u) \/ Quit(u))
  <2>1. sent' = sent /\ pc'[2] = pc[2] /\ msg'[2] = msg[2]
    BY SMTT(30), <1>2 DEF TypeInv, TypeOK, Work,
       ReceiveHeader, ReceiveBody, ReceiveTorn, SendHeader,
       SendBody, Send, SendLost, SendFails, Apply, ReplyClient, ReplyServer, Quit,
       LeaveFrom, goto
  <2>2. log'[2] = log[2]
    <3>1. At(u) # 2
      BY <1>2, ThreadFacts DEF Thread
    <3> QED
      BY <1>2, <3>1 DEF TypeInv, TypeOK, Work, ReceiveHeader, ReceiveBody, ReceiveTorn,
         SendHeader, SendBody, Send, SendLost, SendFails, Apply, ReplyClient,
         ReplyServer, Quit, LeaveFrom
  <2> QED
    BY <1>0, <2>1, <2>2 DEF Held
<1>3. CASE ReceiveHeader(2) \/ ReceiveBody(2)
  BY <1>0, <1>3, TakesInOrder DEF ReceiveHeader, ReceiveBody, goto
<1>4. ASSUME NEW places, LeaveFrom(2, places)
      PROVE  Ordered(Held, sent)'
  <2>1. Held' = log[2] /\ sent' = sent
    BY <1>4 DEF LeaveFrom, Held, InHand, TypeInv, TypeOK
  <2> QED
    BY <1>0, <2>1, OrderedPrefix
<1>5. CASE SendHeader(2) \/ SendBody(2) \/ SendLost(2) \/ ReplyServer(2)
  <2>1. sent' = sent /\ log' = log /\ (pc'[2] \in InHand <=> pc[2] \in InHand)
        /\ (pc[2] \in InHand => msg'[2] = msg[2])
    BY <1>5 DEF TypeInv, TypeOK, SendHeader, SendBody, Send, SendLost, ReplyServer, goto,
       InHand
  <2> QED
    BY <1>0, <2>1 DEF Held
<1>6. CASE Apply(2)
  <2>1. /\ sent' = sent /\ pc[2] = "apply" /\ pc'[2] = "reply"
        /\ log'[2] = Append(log[2], msg[2])
    BY <1>6 DEF TypeInv, TypeOK, Apply, goto
  <2> QED
    BY <1>0, <2>1 DEF Held, InHand
<1> QED
  BY <1>1, <1>2, <1>3, <1>4, <1>5, <1>6
  DEF Work, ReceiveTorn, SendFails, ReplyClient, Quit

(* then for the connection, while it is open. *)
LEMMA SharedStep ==
  ASSUME TypeInv, 2 \in Inner, HeadInv, LinkInv, up'[2],
         NEW u \in Thread, ReceiveWrite(u) \/ Work(u) \/ Quit(u)
  PROVE  SharedLink'
<1> USE LinkTypes, HeadTypes
<1>0. up[2] /\ Ordered(Held, sent) /\ SharedLink
  <2>1. up'[2] => up[2]
    BY DEF ReceiveWrite, Work, ReceiveHeader, ReceiveBody, ReceiveTorn, SendHeader,
       SendBody, Send, SendLost, SendFails, Apply, ReplyClient, ReplyServer, Quit,
       LeaveFrom
  <2> QED
    BY <2>1 DEF LinkInv
<1>1. CASE ReceiveWrite(u)
  BY <1>0, <1>1, SharedReceives
<1>2. CASE u \in Client /\ (SendHeader(u) \/ SendBody(u))
  BY <1>0, <1>2, SharedSends
<1>3. CASE u \in Client /\ Apply(u)
  BY <1>0, <1>3, SharedApplies
<1>4. CASE ReceiveHeader(2) \/ ReceiveBody(2)
  BY <1>0, <1>4, SharedTakes
<1>5. CASE u \in Client /\ (SendLost(u) \/ SendFails(u) \/ ReplyClient(u) \/ Quit(u))
  <2>1. u # 2 /\ At(u) = 1
    BY <1>5, ThreadFacts
  <2>2. link'[2] = link[2] /\ log' = log /\ sent' = sent /\ pc'[2] = pc[2]
        /\ msg'[2] = msg[2]
    BY <1>5, <2>1 DEF TypeInv, TypeOK, SendLost, SendFails, ReplyClient, Quit, LeaveFrom,
       goto
  <2>3. \A p : Taken(p)' <=> Taken(p)
    BY <2>2 DEF Taken
  <2>4. ASSUME NEW c \in Client PROVE SendsNothing(c)
    <3>1. CASE c # u
      <4>1. pc'[c] = pc[c]
        BY <3>1, OtherStays
      <4> QED
        BY <4>1 DEF SendsNothing
    <3>2. CASE c = u
      <4>1. ~ SendLost(u)
        BY <1>0, <2>1 DEF SendLost
      <4>2. pc'[u] = "gone" \/ (pc[u] = "reply" /\ pc'[u] = "receive")
        <5>1. CASE SendFails(u) \/ Quit(u)
          BY <5>1 DEF SendFails, Quit, LeaveFrom, TypeInv, TypeOK
        <5>2. CASE ReplyClient(u)
          BY <5>2 DEF ReplyClient, goto, TypeInv, TypeOK
        <5> QED
          BY <1>5, <4>1, <5>1, <5>2
      <4> QED
        BY <3>2, <4>2 DEF SendsNothing
    <3> QED
      BY <3>1, <3>2
  <2> QED
    BY <1>0, <2>2, <2>3, <2>4, SharedKeeps
<1>6. CASE u \in Inner /\ u # 2 /\ Work(u)
  <2>1. At(u) = u /\ u \notin Client /\ u + 1 # 2 /\ u # 1
    BY <1>6, ThreadFacts DEF Inner
  <2>2. /\ link'[2] = link[2] /\ log'[1] = log[1] /\ log'[2] = log[2] /\ sent' = sent
        /\ pc'[2] = pc[2] /\ msg'[2] = msg[2]
    BY <1>6, <2>1 DEF TypeInv, TypeOK, Work, ReceiveHeader, ReceiveBody, ReceiveTorn,
       SendHeader, SendBody, Send, SendLost, SendFails, Apply, ReplyClient, ReplyServer,
       LeaveFrom, goto
  <2>3. \A p : Taken(p)' <=> Taken(p)
    BY <2>2 DEF Taken
  <2>4. \A c \in Client : SendsNothing(c)
    BY <1>6, <2>1, OtherStays DEF SendsNothing
  <2> QED
    BY <1>0, <2>2, <2>3, <2>4, SharedKeeps
<1>7. CASE SendHeader(2) \/ SendBody(2) \/ SendLost(2) \/ ReplyServer(2) \/ Apply(2)
  <2>1. /\ link'[2] = link[2] /\ log'[1] = log[1] /\ sent' = sent
        /\ \A c \in Client : pc'[c] = pc[c]
    <3>0. At(2) + 1 # 2 /\ \A c \in Client : c # 2
      OBVIOUS
    <3>1. ASSUME NEW from, NEW to, NEW part, Send(2, from, to, part)
          PROVE  /\ link'[2] = link[2] /\ log'[1] = log[1] /\ sent' = sent
                 /\ \A c \in Client : pc'[c] = pc[c]
      <4>1. /\ link' = [link EXCEPT ![At(2) + 1] = Append(@, part)]
            /\ log' = log /\ sent' = sent /\ pc' = [pc EXCEPT ![2] = to]
        BY <3>1 DEF Send, goto
      <4>2. link'[2] = link[2]
        BY <3>0, <4>1 DEF TypeInv, TypeOK
      <4>3. \A c \in Client : pc'[c] = pc[c]
        BY <3>0, <4>1 DEF TypeInv, TypeOK
      <4> QED
        BY <4>1, <4>2, <4>3
    <3>2. CASE SendLost(2)
      <4>1. /\ link' = link /\ log' = log /\ sent' = sent
            /\ pc' = [pc EXCEPT ![2] = "body"] \/ pc' = [pc EXCEPT ![2] = "apply"]
        BY <3>2 DEF SendLost, goto
      <4>2. ASSUME NEW to, pc' = [pc EXCEPT ![2] = to], NEW c \in Client
            PROVE  pc'[c] = pc[c]
        BY <3>0, <4>2 DEF TypeInv, TypeOK, Thread
      <4> QED
        BY <4>1, <4>2
    <3>4. CASE ReplyServer(2)
      BY <3>0, <3>4 DEF ReplyServer, goto, TypeInv, TypeOK
    <3>3. CASE Apply(2)
      BY <3>3 DEF Apply, goto, TypeInv, TypeOK
    <3> QED
      BY <1>7, <3>1, <3>2, <3>3, <3>4 DEF SendHeader, SendBody
  <2>2. \A p : Taken(p)' <=> Taken(p)
    <3>1. CASE Apply(2)
      <4>1. /\ pc[2] = "apply" /\ pc'[2] = "reply" /\ msg[2] \in Write
            /\ log'[2] = Append(log[2], msg[2])
        BY <3>1 DEF TypeInv, TypeOK, Apply, goto, InHand
      <4>2. \A v : In(v, log'[2]) <=> In(v, log[2]) \/ v = msg[2]
        BY <4>1, InAppend
      <4>3. ASSUME NEW p
            PROVE  (\E i \in DOMAIN log'[2] : p = Header(log'[2][i]) \/ p = Body(log'[2][i]))
                     <=> \/ \E i \in DOMAIN log[2] : p = Header(log[2][i]) \/ p = Body(log[2][i])
                         \/ p = Header(msg[2]) \/ p = Body(msg[2])
        <5>1. ASSUME NEW q
              PROVE  (\E i \in DOMAIN q : p = Header(q[i]) \/ p = Body(q[i]))
                       <=> \E v : In(v, q) /\ (p = Header(v) \/ p = Body(v))
          BY DEF In
        <5>2. (\E i \in DOMAIN log'[2] : p = Header(log'[2][i]) \/ p = Body(log'[2][i]))
                <=> \E v : In(v, log'[2]) /\ (p = Header(v) \/ p = Body(v))
          BY <5>1
        <5>3. (\E i \in DOMAIN log[2] : p = Header(log[2][i]) \/ p = Body(log[2][i]))
                <=> \E v : In(v, log[2]) /\ (p = Header(v) \/ p = Body(v))
          BY <5>1
        <5> QED
          BY <4>2, <5>2, <5>3
      <4> QED
        BY <4>1, <4>3 DEF Taken, InHand, Unapplied
    <3>2. CASE ~ Apply(2)
      <4>1. /\ log' = log /\ (pc'[2] \in InHand <=> pc[2] \in InHand)
            /\ (pc'[2] \in Unapplied <=> pc[2] \in Unapplied)
            /\ (pc[2] \in InHand => msg'[2] = msg[2])
        BY SMTT(30), <1>7, <3>2 DEF TypeInv, TypeOK, SendHeader, SendBody, Send, SendLost,
           ReplyServer, goto, InHand, Unapplied
      <4> QED
        BY <4>1 DEF Taken, InHand, Unapplied
    <3> QED
      BY <3>1, <3>2
  <2>3. \A c \in Client : SendsNothing(c)
    BY <2>1 DEF SendsNothing
  <2> QED
    BY <1>0, <2>1, <2>2, <2>3, SharedKeeps
<1>8. ~ ReceiveTorn(2) /\ ~ SendFails(2) /\ ~ ReplyClient(2) /\ ~ Quit(2)
  BY DEF ReceiveTorn, SendFails, LeaveFrom, ReplyClient, Quit
<1>9. u \in Client => ~ ReceiveHeader(u) /\ ~ ReceiveBody(u) /\ ~ ReceiveTorn(u)
                      /\ ~ ReplyServer(u)
  BY ThreadFacts DEF ReceiveHeader, ReceiveBody, ReceiveTorn, ReplyServer
<1>10. u \in Inner => ~ Quit(u)
  BY ThreadFacts DEF Quit
<1> QED
  BY <1>1, <1>2, <1>3, <1>4, <1>5, <1>6, <1>7, <1>8, <1>9, <1>10 DEF Work, Thread

LEMMA OrderInit ==
  Init => OrderInv
<1> SUFFICES ASSUME Init, 2 \in Inner PROVE LinkInv
  BY HeadInit DEF OrderInv, LinkInv
<1>1. /\ log[1] = <<>> /\ log[2] = <<>> /\ link[2] = <<>> /\ pc[2] = "receive"
      /\ \A c \in Client : sent[c] = <<>>
  BY ThreadFacts DEF Init, Thread, Server
<1>2. Held = <<>> /\ Ordered(Held, sent)
  BY <1>1 DEF Held, InHand, Ordered
<1>3. SharedLink
  BY <1>1 DEF SharedLink, SentOn
<1> QED
  BY <1>2, <1>3 DEF LinkInv

LEMMA OrderStep ==
  TypeInv /\ OrderInv /\ [Next]_vars => OrderInv'
<1> SUFFICES ASSUME TypeInv, OrderInv, [Next]_vars PROVE OrderInv'
  OBVIOUS
<1>1. CASE UNCHANGED vars
  <2>1. HeadInv'
    BY <1>1 DEF vars, OrderInv, HeadInv, Settled
  <2>2. Held' = Held /\ (2 \in Inner => Ordered(Held, sent)')
    BY <1>1 DEF vars, OrderInv, LinkInv, Held
  <2>3. \A p : Taken(p)' <=> Taken(p)
    BY <1>1 DEF vars, Taken
  <2>4. \A p : OnWay(p)' <=> OnWay(p)
    BY <1>1, <2>3 DEF vars, OnWay
  <2>5. \A p, j : Ahead(p, j)' <=> Ahead(p, j)
    BY <1>1, <2>3 DEF vars, Ahead
  <2>6. SharedLink => SharedLink'
    BY <1>1, <2>4, <2>5 DEF vars, SharedLink, PartInOrder, SentOn
  <2> QED
    BY <1>1, <2>1, <2>2, <2>6 DEF vars, OrderInv, LinkInv
<1>2. ASSUME NEW u \in Thread, ReceiveWrite(u) \/ Work(u) \/ Quit(u)
      PROVE  OrderInv'
  <2>1. HeadInv'
    BY <1>2, HeadStep DEF OrderInv
  <2>2. 2 \in Inner => Ordered(Held, sent)'
    BY <1>2, HeldStep DEF OrderInv
  <2>3. 2 \in Inner /\ up'[2] => SharedLink'
    BY <1>2, SharedStep DEF OrderInv
  <2> QED
    BY <2>1, <2>2, <2>3 DEF OrderInv, LinkInv
<1> QED
  BY <1>1, <1>2 DEF Next
-----------------------------------------------------------------------------
LEMMA OrderedEverywhere ==
  ASSUME TypeInv, FifoInv, OrderInv, NEW s \in Server
  PROVE  Ordered(log[s], sent)
<1>1. CASE s = 1
  BY <1>1 DEF OrderInv, HeadInv
<1>2. CASE s # 1
  <2>1. s \in Inner /\ 2 \in Inner
    BY <1>2, ThreadFacts DEF Server, Inner
  <2>2. /\ At(s) = s /\ At(2) = 2 /\ s \in Thread /\ 2 \in Thread
        /\ log[s] \in Seq(Write) /\ log[2] \in Seq(Write)
        /\ Length(s) = Len(log[s]) /\ Length(2) = Len(log[2])
    BY <2>1, ThreadFacts DEF Thread, Length, TypeInv, TypeOK
  <2>3. Prefix(s, 2)
    BY <2>1, PrefixOfFirstInner
  <2>4. /\ Held \in Seq(Write) /\ Len(Held) = Holds(2)
        /\ \A k \in 1 .. Holds(2) : Held[k] = Nth(2, k)
    <3>1. CASE pc[2] \in InHand
      <4>1. msg[2] \in Write /\ Held = Append(log[2], msg[2]) /\ Holds(2) = Len(log[2]) + 1
        BY <2>1, <2>2, <3>1, LinkTypes DEF Held, Holds
      <4> QED
        BY <2>2, <4>1 DEF Nth
    <3>2. CASE pc[2] \notin InHand
      <4>1. Held = log[2] /\ Holds(2) = Len(log[2])
        BY <2>2, <3>2 DEF Held, Holds
      <4> QED
        BY <2>2, <4>1 DEF Nth
    <3> QED
      BY <3>1, <3>2
  <2>5. Len(log[s]) <= Len(Held) /\ \A k \in 1 .. Len(log[s]) : log[s][k] = Held[k]
    BY <2>2, <2>3, <2>4, HoldsNatural DEF Prefix, Nth
  <2> QED
    BY <2>1, <2>2, <2>4, <2>5, OrderedPrefix DEF OrderInv, LinkInv
<1> QED
  BY <1>1, <1>2

LEMMA OrderImplies ==
  ASSUME TypeInv, FifoInv, OrderInv
  PROVE  PerClientOrder
<1> SUFFICES ASSUME NEW s \in Server, NEW i \in DOMAIN log[s]
             PROVE  LET w == log[s][i]
                        before == {j \in 1 .. i - 1 : log[s][j].by = w.by}
                    IN  /\ w.n <= Len(sent[w.by]) /\ w = sent[w.by][w.n]
                        /\ {log[s][j].n : j \in before} = 1 .. w.n - 1
  BY DEF PerClientOrder
<1>1. log[s] \in Seq(Write) /\ sent \in [Client -> Seq(Write)]
  BY DEF TypeInv, TypeOK
<1>2. Ordered(log[s], sent)
  BY OrderedEverywhere
<1>3. \A c \in Client : \A n \in 1 .. Len(sent[c]) : sent[c][n].by = c /\ sent[c][n].n = n
  BY DEF OrderInv, HeadInv
<1> QED
  BY <1>1, <1>2, <1>3, OrderedNumbers

(* At server 2 a write that the head has applied is on its way; further down
   the connection holds what the log does not. *)
LEMMA OrderNoOrphans ==
  ASSUME TypeInv, FifoInv, OrderInv
  PROVE  NoOrphanWrites
<1> SUFFICES ASSUME NEW s \in Inner, up[s], NEW i \in DOMAIN log[s - 1]
             PROVE  LET w == log[s - 1][i] IN
                    In(w, log[s]) \/ In(Body(w), link[s]) \/ (msg[s] = w /\ pc[s] # "read")
  BY DEF NoOrphanWrites
<1> DEFINE w == log[s - 1][i]
<1>1. CASE s = 2
  <2>1. OnWay(Body(w))
    BY <1>1 DEF OrderInv, LinkInv, SharedLink
  <2> QED
    BY <1>1, <2>1, TakenFacts DEF OnWay, Unapplied
<1>2. CASE s # 2
  <2> DEFINE t == s - 1
             n == Len(link[s])
  <2>1. t \in Inner /\ t \in Thread /\ At(t) = t /\ At(t) + 1 = s /\ At(s) = s
    BY <1>2, ThreadFacts DEF Inner, Thread
  <2>2. Only(t)
    BY <2>1, ThreadFacts DEF Only, Thread, Inner
  <2>3. InOrderFrom(t) /\ LinkInOrder(t)
    BY <2>1, <2>2 DEF FifoInv, InOrderFrom
  <2>4. /\ i \in 1 .. Length(t) /\ Nth(t, i) = w
        /\ Length(t) \in Nat /\ Length(s) \in Nat /\ log[s] \in Seq(Write)
        /\ DOMAIN log[s] = 1 .. Length(s) /\ i \in Nat
    BY <2>1, <2>2, FifoFacts DEF Length, Nth
  <2>5. CASE i <= Length(s)
    <3>1. log[s][i] = w /\ i \in DOMAIN log[s]
      BY <2>1, <2>3, <2>4, <2>5 DEF InOrderFrom, LogInOrder
    <3> QED
      BY <3>1 DEF In
  <2>6. CASE i > Length(s) /\ ~ (i = Length(s) + 1 /\ pc[s] \in InHand \ {"read"})
    <3>1. /\ PartsTaken(s) \in Nat /\ n \in Nat /\ PartsTaken(s) + n >= 2 * Length(t)
          /\ DOMAIN link[s] = 1 .. n
      <4>1. /\ PartsTaken(s) \in Nat /\ n \in Nat /\ PartsTaken(s) + n = PartsSent(t)
            /\ DOMAIN link[s] = 1 .. n
        BY <2>1, <2>2, <2>3, FifoBounds
      <4>2. PartsSent(t) >= 2 * Length(t)
        BY <2>4 DEF PartsSent
      <4> QED
        BY <2>4, <4>1, <4>2
    <3>2. PartsTaken(s) < 2 * i
      BY <2>4, <2>6 DEF PartsTaken
    <3> HIDE DEF n
    <3>3. 2 * i - PartsTaken(s) \in DOMAIN link[s]
      BY <2>4, <3>1, <3>2
    <3>4. link[s][2 * i - PartsTaken(s)] = Body(w)
      BY <2>1, <2>3, <2>4, <3>3 DEF LinkInOrder
    <3> QED
      BY <3>3, <3>4 DEF In
  <2>7. CASE i = Length(s) + 1 /\ pc[s] \in InHand \ {"read"}
    BY <2>1, <2>3, <2>4, <2>7 DEF InOrderFrom, LogInOrder
  <2> QED
    BY <2>4, <2>5, <2>6, <2>7
<1> QED
  BY <1>1, <1>2

LEMMA OrderAlways ==
  Spec => [](TypeInv /\ FifoInv /\ OrderInv)
<1>1. Init => TypeInv /\ FifoInv /\ OrderInv
  BY TypeInit, FifoInit, OrderInit
<1>2. TypeInv /\ FifoInv /\ OrderInv /\ [Next]_vars => (TypeInv /\ FifoInv /\ OrderInv)'
  BY TypeStep, FifoStep, OrderStep
<1> QED
  BY <1>1, <1>2, PTL DEF Spec

(* Every server applies the writes of each client in the client's order,
   none twice and none left out, for any number of clients whose threads cut
   up each other's messages on the socket they share: a message that was cut
   ends the connection before anything of it is applied. *)
THEOREM ClientOrder ==
  Spec => []PerClientOrder
  BY OrderAlways, OrderImplies, PTL

(* What a server has applied is on its way to its successor, in its hand or
   applied there, as long as their connection is open. *)
THEOREM NoOrphans ==
  Spec => []NoOrphanWrites
  BY OrderAlways, OrderNoOrphans, PTL
=============================================================================
