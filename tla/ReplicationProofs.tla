-------------------------- MODULE ReplicationProofs --------------------------
(***************************************************************************)
(* What a chain of any length keeps true for any number of clients: the    *)
(* types of its state, and that a connection with one thread at its        *)
(* sending end delivers whole messages in the order in which that server   *)
(* applies them.  From this the servers after the head apply one order of  *)
(* all the writes.                                                         *)
(***************************************************************************)
EXTENDS Replication, TLAPS, WellFoundedInduction

InHand == {"read", "header", "body", "apply"}   \* received, not yet applied

TypeInv ==
  /\ TypeOK
  /\ \A t \in Thread :
       /\ pc[t] \in InHand \cup {"reply"} => msg[t] \in Write
       /\ pc[t] \in {"header", "body"} => At(t) < N
  /\ \A s \in Inner : up[s] <=> pc[s] # "gone"
  /\ \A c \in Client :
       /\ pc[c] # "read"
       /\ Len(sent[c]) <= MaxWrites
       /\ acked[c] <= Len(sent[c])
       /\ pc[c] \in InHand \cup {"reply"} => acked[c] < Len(sent[c])
-----------------------------------------------------------------------------
(* The server of a thread, and the clients are no numbers. *)
LEMMA ThreadFacts ==
  /\ Client \cap Inner = {}
  /\ \A t \in Thread : At(t) \in Server
  /\ \A c \in Client : At(c) = 1
  /\ \A s \in Inner : At(s) = s /\ s \in Server /\ s - 1 \in Server
  /\ \A t \in Thread : At(t) < N => At(t) + 1 \in Inner
  /\ N \in Nat \ {0} /\ MaxWrites \in Nat /\ UnreadCap \in Nat
  /\ LinkCap \in Nat \ {0}
  BY ChainAssumption DEF Thread, Inner, Server, At

LEMMA TypeInit ==
  Init => TypeInv
<1> SUFFICES ASSUME Init PROVE TypeInv
  OBVIOUS
<1>1. \A s \in Inner : Len(link[s]) <= LinkCap
  BY ThreadFacts DEF Init
<1> QED
  BY <1>1, ThreadFacts DEF Init, TypeInv, TypeOK, Places, Thread, NoWrite, InHand, Part

(* A client's thread takes the next write of its client. *)
LEMMA TypeReceiveWrite ==
  ASSUME TypeInv, NEW c \in Thread, ReceiveWrite(c)
  PROVE  TypeInv'
<1> USE ThreadFacts
<1>1. PICK k \in Key :
        LET w == [by |-> c, n |-> Len(sent[c]) + 1, key |-> k] IN
        /\ msg' = [msg EXCEPT ![c] = w]
        /\ sent' = [sent EXCEPT ![c] = Append(@, w)]
  BY DEF ReceiveWrite
<1> DEFINE w == [by |-> c, n |-> Len(sent[c]) + 1, key |-> k]
<1>2. c \in Client /\ sent[c] \in Seq(Write) /\ Len(sent[c]) < MaxWrites
  BY DEF ReceiveWrite, TypeInv, TypeOK
<1>3. w \in Write
  BY <1>2 DEF Write
<1> HIDE DEF w
<1>4. msg' = [msg EXCEPT ![c] = w] /\ sent' = [sent EXCEPT ![c] = Append(@, w)]
  BY <1>1 DEF w
<1>5. Append(sent[c], w) \in Seq(Write) /\ Len(Append(sent[c], w)) = Len(sent[c]) + 1
  BY <1>2, <1>3
<1>6. TypeOK'
  BY <1>2, <1>3, <1>4, <1>5
  DEF TypeInv, TypeOK, ReceiveWrite, goto, Onward, Places, Thread
<1>7. pc' = [pc EXCEPT ![c] = Onward(c)]
  BY DEF ReceiveWrite, goto
<1> QED
  BY SMTT(30), <1>2, <1>3, <1>4, <1>5, <1>6, <1>7
  DEF TypeInv, TypeOK, ReceiveWrite, goto, Onward, Thread, InHand

(* The length of a message, and then its body. *)
LEMMA TypeReceive ==
  ASSUME TypeInv, NEW s \in Thread, ReceiveHeader(s) \/ ReceiveBody(s)
  PROVE  TypeInv'
<1> USE ThreadFacts
<1>1. s \in Inner /\ link[s] \in Seq(Part) /\ link[s] # <<>>
  BY DEF TypeInv, TypeOK, ReceiveHeader, ReceiveBody
<1>2. /\ Tail(link[s]) \in Seq(Part) /\ Head(link[s]) \in Part
      /\ Len(Tail(link[s])) <= LinkCap
  <2>1. Len(link[s]) \in Nat /\ Len(link[s]) <= LinkCap /\ Len(Tail(link[s])) = Len(link[s]) - 1
    BY <1>1 DEF TypeInv, TypeOK
  <2> QED
    BY <1>1, <2>1
<1>3. Head(link[s]).of \in Write
  BY <1>2 DEF Part, Header, Body
<1>4. /\ msg' = [msg EXCEPT ![s] = Head(link[s]).of] \/ msg' = msg
      /\ link' = [link EXCEPT ![s] = Tail(@)]
      /\ up' = up /\ unread' = unread /\ log' = log /\ sent' = sent /\ acked' = acked
  BY DEF ReceiveHeader, ReceiveBody
<1>5. pc' \in [Thread -> Places]
  BY DEF TypeInv, TypeOK, ReceiveHeader, ReceiveBody, goto, Onward, Places
<1>6. TypeOK'
  <2>1. \A r \in Inner : link'[r] = IF r = s THEN Tail(link[s]) ELSE link[r]
    BY <1>1, <1>4 DEF TypeInv, TypeOK
  <2>2. link' \in [Inner -> Seq(Part)] /\ \A r \in Inner : Len(link'[r]) <= LinkCap
    BY <1>2, <1>4, <2>1 DEF TypeInv, TypeOK
  <2> QED
    BY <1>3, <1>4, <1>5, <2>2 DEF TypeInv, TypeOK
<1>7. /\ pc' = [pc EXCEPT ![s] = "read"] \/ pc' = [pc EXCEPT ![s] = Onward(s)]
      /\ pc[s] = "read" => msg' = msg
      /\ pc[s] # "read" => msg' = [msg EXCEPT ![s] = Head(link[s]).of]
      /\ pc[s] \in {"receive", "read"}
  BY DEF ReceiveHeader, ReceiveBody, goto
<1>8. \A t \in Thread : t # s => pc'[t] = pc[t] /\ msg'[t] = msg[t]
  BY <1>4, <1>7 DEF TypeInv, TypeOK
<1>9. /\ pc'[s] \in {"read", Onward(s)}
      /\ msg'[s] \in Write
      /\ pc'[s] \in {"header", "body"} => At(s) < N
  BY <1>3, <1>4, <1>7 DEF TypeInv, TypeOK, Onward, InHand
<1>10. s \notin Client /\ pc[s] # "gone" /\ pc'[s] # "gone"
  BY <1>1, <1>7, <1>9 DEF Onward
<1>11. \A t \in Thread :
         /\ pc'[t] \in InHand \cup {"reply"} => msg'[t] \in Write
         /\ pc'[t] \in {"header", "body"} => At(t) < N
  BY <1>8, <1>9 DEF TypeInv
<1>12. \A r \in Inner : up'[r] <=> pc'[r] # "gone"
  BY <1>4, <1>8, <1>10 DEF TypeInv, Thread
<1>13. \A c \in Client : pc'[c] = pc[c]
  BY <1>8, <1>10 DEF Thread
<1> QED
  BY <1>4, <1>6, <1>11, <1>12, <1>13 DEF TypeInv

(* A thread that leaves closes its connection. *)
LEMMA TypeLeave ==
  ASSUME TypeInv, NEW t \in Thread, NEW places, LeaveFrom(t, places)
  PROVE  TypeInv'
<1>1. TypeOK'
  <2>1. link' \in [Inner -> Seq(Part)] /\ \A s \in Inner : Len(link'[s]) <= LinkCap
    BY ThreadFacts DEF TypeInv, TypeOK, LeaveFrom
  <2> QED
    BY <2>1 DEF TypeInv, TypeOK, LeaveFrom, Places
<1> QED
  BY <1>1, ThreadFacts DEF TypeInv, TypeOK, LeaveFrom, InHand, Thread

(* The parts of a message on their way to the successor. *)
LEMMA TypeSend ==
  ASSUME TypeInv, NEW t \in Thread, SendHeader(t) \/ SendBody(t) \/ SendLost(t)
  PROVE  TypeInv'
<1> USE ThreadFacts
<1>1. pc[t] \in {"header", "body"} /\ At(t) + 1 \in Inner /\ msg[t] \in Write
  BY DEF TypeInv, SendHeader, SendBody, Send, SendLost, goto, InHand
<1>2. Header(msg[t]) \in Part /\ Body(msg[t]) \in Part
  BY <1>1 DEF Part
<1>3. /\ pc' = [pc EXCEPT ![t] = "body"] \/ pc' = [pc EXCEPT ![t] = "apply"]
      /\ \/ link' = link
         \/ /\ Len(link[At(t) + 1]) < LinkCap
            /\ \E part \in Part : link' = [link EXCEPT ![At(t) + 1] = Append(@, part)]
      /\ msg' = msg /\ up' = up /\ unread' = unread /\ log' = log
      /\ sent' = sent /\ acked' = acked
  <2>1. CASE SendHeader(t)
    BY <2>1, <1>2 DEF SendHeader, Send, goto
  <2>2. CASE SendBody(t)
    BY <2>2, <1>2 DEF SendBody, Send, goto
  <2>3. CASE SendLost(t)
    BY <2>3 DEF SendLost, goto
  <2> QED
    BY <2>1, <2>2, <2>3
<1>4. link' \in [Inner -> Seq(Part)] /\ \A s \in Inner : Len(link'[s]) <= LinkCap
  <2>1. link[At(t) + 1] \in Seq(Part)
    BY <1>1 DEF TypeInv, TypeOK
  <2>2. \A part \in Part : /\ Append(link[At(t) + 1], part) \in Seq(Part)
                           /\ Len(Append(link[At(t) + 1], part)) = Len(link[At(t) + 1]) + 1
    BY <2>1
  <2>3. CASE link' = link
    BY <2>3 DEF TypeInv, TypeOK
  <2>4. ASSUME NEW part \in Part, link' = [link EXCEPT ![At(t) + 1] = Append(@, part)],
               Len(link[At(t) + 1]) < LinkCap
        PROVE  link' \in [Inner -> Seq(Part)] /\ \A s \in Inner : Len(link'[s]) <= LinkCap
    <3>1. \A s \in Inner : link'[s] = IF s = At(t) + 1 THEN Append(link[s], part) ELSE link[s]
      BY <1>1, <2>4 DEF TypeInv, TypeOK
    <3>2. Len(link[At(t) + 1]) + 1 <= LinkCap
      BY <2>1, <2>4
    <3> QED
      BY <2>2, <2>4, <3>1, <3>2 DEF TypeInv, TypeOK
  <2> QED
    BY <1>3, <2>3, <2>4
<1>5. TypeOK'
  <2>1. pc' \in [Thread -> Places]
    BY <1>3 DEF TypeInv, TypeOK, Places
  <2> QED
    BY <1>3, <1>4, <2>1 DEF TypeInv, TypeOK
<1>6. \A u \in Thread : pc'[u] # pc[u] =>
        u = t /\ pc'[u] \in {"body", "apply"} /\ (pc'[u] = "body" => At(u) < N)
  BY <1>1, <1>3 DEF TypeInv, TypeOK
<1>7. msg' = msg /\ up' = up /\ sent' = sent /\ acked' = acked
  BY <1>3
<1> QED
  BY <1>1, <1>5, <1>6, <1>7 DEF TypeInv, InHand, Thread

(* A write that is applied, and answered. *)
LEMMA TypeAnswer ==
  ASSUME TypeInv, NEW t \in Thread, Apply(t) \/ ReplyClient(t) \/ ReplyServer(t)
  PROVE  TypeInv'
<1> USE ThreadFacts
<1>1. CASE Apply(t)
  <2>1. At(t) \in Server /\ msg[t] \in Write
    BY <1>1 DEF TypeInv, Apply, goto, InHand
  <2>2. log' \in [Server -> Seq(Write)]
    BY <1>1, <2>1 DEF TypeInv, TypeOK, Apply
  <2>3. TypeOK'
    BY <1>1, <2>2 DEF TypeInv, TypeOK, Apply, goto, Places
  <2> QED
    BY <1>1, <2>1, <2>3 DEF TypeInv, TypeOK, Apply, goto, InHand, Thread
<1>2. CASE ReplyClient(t)
  <2>1. t \in Client /\ acked[t] + 1 \in 0 .. MaxWrites /\ acked[t] + 1 <= Len(sent[t])
    BY <1>2 DEF TypeInv, TypeOK, ReplyClient, goto, InHand
  <2>2. TypeOK'
    BY <1>2, <2>1 DEF TypeInv, TypeOK, ReplyClient, goto, Places
  <2> QED
    BY <1>2, <2>1, <2>2 DEF TypeInv, TypeOK, ReplyClient, goto, InHand, Thread
<1>3. CASE ReplyServer(t)
  <2>1. t \in Inner /\ unread[t] + 1 \in 0 .. UnreadCap
    BY <1>3 DEF TypeInv, TypeOK, ReplyServer
  <2>2. TypeOK'
    BY <1>3, <2>1 DEF TypeInv, TypeOK, ReplyServer, goto, Places
  <2> QED
    BY <1>3, <2>1, <2>2 DEF TypeInv, TypeOK, ReplyServer, goto, InHand, Thread
<1> QED
  BY <1>1, <1>2, <1>3

LEMMA TypeStep ==
  TypeInv /\ [Next]_vars => TypeInv'
<1> SUFFICES ASSUME TypeInv, [Next]_vars PROVE TypeInv'
  OBVIOUS
<1>1. CASE UNCHANGED vars
  BY <1>1 DEF vars, TypeInv, TypeOK
<1>2. ASSUME NEW t \in Thread, ReceiveWrite(t) \/ Work(t) \/ Quit(t)
      PROVE  TypeInv'
  BY <1>2, TypeReceiveWrite, TypeReceive, TypeLeave, TypeSend, TypeAnswer
  DEF Work, Quit, ReceiveTorn, SendFails
<1> QED
  BY <1>1, <1>2 DEF Next

(* The variables of a chain have their types, a client never counts more
   answers than it sent writes, and a thread holds a message whenever its
   place in clientThread needs one. *)
THEOREM TypeCorrect ==
  Spec => []TypeOK
<1>1. Spec => []TypeInv
  BY TypeInit, TypeStep, PTL DEF Spec
<1>2. TypeInv => TypeOK
  BY DEF TypeInv
<1> QED
  BY <1>1, <1>2, PTL
-----------------------------------------------------------------------------
(* The thread is the only one of its server, and the server has a successor:
   one thread writes to the connection.  True of every inner server, and of
   the head with one client. *)
Only(t) == At(t) < N /\ \A u \in Thread : At(u) = At(t) => u = t

Length(t) == Len(log[At(t)])

(* The writes that a thread's server has applied, then the one in hand. *)
Nth(t, k) == IF k <= Length(t) THEN log[At(t)][k] ELSE msg[t]

(* The parts that a thread has written to the successor, and read. *)
PartsSent(t) ==
  2 * Length(t) + (IF pc[t] = "apply" THEN 2 ELSE IF pc[t] = "body" THEN 1 ELSE 0)
PartsTaken(t) ==
  2 * Length(t) + (IF pc[t] = "read" THEN 1 ELSE IF pc[t] \in InHand THEN 2 ELSE 0)

(* The connection holds what the thread has sent and the successor has not
   read: header and body of each write in turn. *)
LinkInOrder(t) ==
  LET s == At(t) + 1 IN
  /\ PartsTaken(s) + Len(link[s]) = PartsSent(t)
  /\ \A k \in 1 .. Length(t) + 1 :
       /\ 2 * k - 1 - PartsTaken(s) \in DOMAIN link[s] =>
            link[s][2 * k - 1 - PartsTaken(s)] = Header(Nth(t, k))
       /\ 2 * k - PartsTaken(s) \in DOMAIN link[s] =>
            link[s][2 * k - PartsTaken(s)] = Body(Nth(t, k))

(* The successor has applied the writes that the thread's server has, or
   the first of them, or one more: the one the thread has sent on and is
   about to apply. *)
LogInOrder(t) ==
  LET s == At(t) + 1 IN
  /\ Length(s) <= Length(t) + (IF pc[t] = "apply" THEN 1 ELSE 0)
  /\ \A k \in 1 .. Length(s) : log[s][k] = Nth(t, k)
  /\ pc[s] \in InHand => msg[s] = Nth(t, Length(s) + 1)

InOrderFrom(t) ==
  /\ LogInOrder(t)
  /\ up[At(t) + 1] => LinkInOrder(t)

FifoInv == \A t \in Thread : Only(t) => InOrderFrom(t)

(* What InOrderFrom speaks of, with its types. *)
LEMMA FifoFacts ==
  ASSUME TypeInv, NEW t \in Thread, Only(t)
  PROVE  /\ At(t) \in Server /\ At(t) + 1 \in Inner /\ At(At(t) + 1) = At(t) + 1
         /\ At(t) + 1 \in Thread /\ At(t) + 1 \in Server
         /\ At(t) # At(t) + 1 /\ t # At(t) + 1
         /\ log[At(t)] \in Seq(Write) /\ log[At(t) + 1] \in Seq(Write)
         /\ Length(t) \in Nat /\ Length(At(t) + 1) \in Nat
         /\ link[At(t) + 1] \in Seq(Part)
         /\ pc[t] \in Places /\ pc[At(t) + 1] \in Places
         /\ pc[At(t) + 1] \in InHand => up[At(t) + 1]
         /\ up[At(t) + 1] <=> pc[At(t) + 1] # "gone"
<1>1. At(t) \in Server /\ At(t) + 1 \in Inner
  BY ThreadFacts DEF Only
<1>2. /\ At(At(t) + 1) = At(t) + 1 /\ At(t) + 1 \in Thread /\ At(t) + 1 \in Server
      /\ At(t) # At(t) + 1 /\ t # At(t) + 1
  BY <1>1, ThreadFacts DEF Thread, Server
<1>3. /\ log[At(t)] \in Seq(Write) /\ log[At(t) + 1] \in Seq(Write)
      /\ link[At(t) + 1] \in Seq(Part)
      /\ pc[t] \in Places /\ pc[At(t) + 1] \in Places
  BY <1>1, <1>2 DEF TypeInv, TypeOK
<1>4. Length(t) \in Nat /\ Length(At(t) + 1) \in Nat
  BY <1>2, <1>3 DEF Length
<1>5. up[At(t) + 1] <=> pc[At(t) + 1] # "gone"
  BY <1>1 DEF TypeInv
<1> QED
  BY <1>1, <1>2, <1>3, <1>4, <1>5 DEF InHand

(* A step that leaves alone all that InOrderFrom(t) speaks of, *)
Untouched(t) ==
  LET s == At(t) + 1 IN
  /\ pc'[t] = pc[t] /\ pc'[s] = pc[s] /\ msg'[t] = msg[t] /\ msg'[s] = msg[s]
  /\ log'[At(t)] = log[At(t)] /\ log'[s] = log[s]
  /\ link'[s] = link[s] /\ up'[s] = up[s]

LEMMA FifoUntouched ==
  ASSUME TypeInv, NEW t \in Thread, Only(t), InOrderFrom(t), Untouched(t)
  PROVE  InOrderFrom(t)'
<1> DEFINE s == At(t) + 1
<1>3. \A k : Nth(t, k)' = Nth(t, k)
  BY DEF Untouched, Nth, Length
<1>4. /\ Length(t)' = Length(t) /\ Length(s)' = Length(s)
      /\ PartsSent(t)' = PartsSent(t) /\ PartsTaken(s)' = PartsTaken(s)
  BY FifoFacts DEF Untouched, Length, PartsSent, PartsTaken
<1> QED
  BY <1>3, <1>4 DEF Untouched, InOrderFrom, LogInOrder, LinkInOrder

(* as one of another thread does. *)
LEMMA FifoOther ==
  ASSUME TypeInv, NEW t \in Thread, Only(t), InOrderFrom(t),
         NEW u \in Thread, u # t, u # At(t) + 1,
         ReceiveWrite(u) \/ Work(u) \/ Quit(u)
  PROVE  InOrderFrom(t)'
<1> DEFINE s == At(t) + 1
<1>1. At(u) # At(t) /\ At(u) # s /\ At(u) + 1 # s
  BY ThreadFacts, FifoFacts DEF Only, At, Thread, Server, Inner
<1>2. Untouched(t)
  <2> USE <1>1, FifoFacts DEF Untouched
  <2>1. CASE ReceiveWrite(u)
    BY <2>1 DEF ReceiveWrite, goto, TypeInv, TypeOK
  <2>2. CASE ReceiveHeader(u) \/ ReceiveBody(u)
    BY <2>2 DEF ReceiveHeader, ReceiveBody, goto, TypeInv, TypeOK
  <2>3. ASSUME NEW places, LeaveFrom(u, places)
        PROVE  Untouched(t)
    BY <2>3 DEF LeaveFrom, TypeInv, TypeOK
  <2>4. CASE SendHeader(u) \/ SendBody(u) \/ SendLost(u)
    BY <2>4 DEF SendHeader, SendBody, Send, SendLost, goto, TypeInv, TypeOK
  <2>5. CASE Apply(u) \/ ReplyClient(u) \/ ReplyServer(u)
    BY <2>5 DEF Apply, ReplyClient, ReplyServer, goto, TypeInv, TypeOK
  <2> QED
    BY <2>1, <2>2, <2>3, <2>4, <2>5 DEF Work, Quit, ReceiveTorn, SendFails
<1> QED
  BY <1>2, FifoUntouched

(* The successor has taken no more than was sent. *)
LEMMA FifoBounds ==
  ASSUME TypeInv, NEW t \in Thread, Only(t), InOrderFrom(t),
         up[At(t) + 1]
  PROVE  LET s == At(t) + 1 IN
         /\ PartsSent(t) \in Nat /\ PartsTaken(s) \in Nat /\ Len(link[s]) \in Nat
         /\ PartsTaken(s) + Len(link[s]) = PartsSent(t)
         /\ DOMAIN link[s] = 1 .. Len(link[s])
         /\ pc[s] = "read" => PartsTaken(s) = 2 * Length(s) + 1
         /\ pc[s] \in InHand \ {"read"} => PartsTaken(s) = 2 * Length(s) + 2
         /\ pc[s] \notin InHand => PartsTaken(s) = 2 * Length(s)
         /\ pc[t] = "apply" => PartsSent(t) = 2 * Length(t) + 2
         /\ pc[t] = "body" => PartsSent(t) = 2 * Length(t) + 1
         /\ pc[t] \notin {"body", "apply"} => PartsSent(t) = 2 * Length(t)
<1> DEFINE s == At(t) + 1
<1>1. PartsSent(t) \in Nat /\ PartsTaken(s) \in Nat
  BY FifoFacts DEF PartsSent, PartsTaken
<1>2. PartsTaken(s) + Len(link[s]) = PartsSent(t)
  BY DEF InOrderFrom, LinkInOrder
<1>3. link[s] \in Seq(Part)
  BY FifoFacts
<1>4. Len(link[s]) \in Nat /\ DOMAIN link[s] = 1 .. Len(link[s])
  BY <1>3
<1> QED
  BY <1>1, <1>2, <1>4, FifoFacts DEF PartsSent, PartsTaken, InHand

(* A step in which the thread takes another write, sends nothing, or ends
   in between two writes. *)
LEMMA FifoSenderKeeps ==
  ASSUME TypeInv, NEW t \in Thread, Only(t), InOrderFrom(t),
         LET s == At(t) + 1 IN
         /\ pc'[s] = pc[s] /\ msg'[s] = msg[s] /\ log' = log /\ link'[s] = link[s]
         /\ up'[s] = up[s],
         pc[t] # "apply", pc[t] = "body" => ~ up[At(t) + 1],
         pc'[t] \in {"body", "apply"} => ~ up[At(t) + 1]
  PROVE  InOrderFrom(t)'
<1> DEFINE s == At(t) + 1
<1>1. /\ Length(t)' = Length(t) /\ Length(s)' = Length(s) /\ PartsTaken(s)' = PartsTaken(s)
  BY FifoFacts DEF Length, PartsTaken
<1>2. \A k \in 1 .. Length(t) : Nth(t, k)' = Nth(t, k)
  BY <1>1 DEF Nth
<1>3. up[s] => PartsSent(t) = 2 * Length(t) /\ PartsSent(t)' = PartsSent(t)
  BY <1>1 , FifoFacts DEF PartsSent
<1>4. Length(s) <= Length(t)
  BY FifoFacts DEF InOrderFrom, LogInOrder
<1>5. pc[s] \in InHand => Length(s) + 1 <= Length(t)
  BY SMTT(30), <1>3, FifoFacts, FifoBounds
<1>6. LogInOrder(t)'
  BY <1>1, <1>2, <1>4, <1>5, FifoFacts DEF InOrderFrom, LogInOrder
<1>7. ASSUME up[s] PROVE LinkInOrder(t)'
  <2>1. ASSUME NEW k \in 1 .. Length(t) + 1,
               2 * k - 1 - PartsTaken(s) \in DOMAIN link[s]
                 \/ 2 * k - PartsTaken(s) \in DOMAIN link[s]
        PROVE  k \in 1 .. Length(t)
    BY SMTT(30), <1>3, <1>7, <2>1, FifoFacts, FifoBounds
  <2> QED
    BY <1>1, <1>2, <1>3, <1>7, <2>1 DEF InOrderFrom, LinkInOrder
<1> QED
  BY <1>6, <1>7 DEF InOrderFrom

(* A part of the message in hand goes to the end of the connection. *)
LEMMA FifoSenderSends ==
  ASSUME TypeInv, NEW t \in Thread, Only(t), InOrderFrom(t),
         SendHeader(t) \/ SendBody(t)
  PROVE  InOrderFrom(t)'
<1> DEFINE s == At(t) + 1
           part == IF pc[t] = "header" THEN Header(msg[t]) ELSE Body(msg[t])
           n == Len(link[s])
<1>1. /\ pc[t] \in {"header", "body"} /\ up[s]
      /\ pc' = [pc EXCEPT ![t] = IF pc[t] = "header" THEN "body" ELSE "apply"]
      /\ link' = [link EXCEPT ![s] = Append(@, part)]
      /\ msg' = msg /\ up' = up /\ log' = log
  BY DEF SendHeader, SendBody, Send, goto
<1>2. /\ pc'[s] = pc[s] /\ link'[s] = Append(link[s], part)
      /\ pc'[t] = IF pc[t] = "header" THEN "body" ELSE "apply"
  BY <1>1, FifoFacts DEF TypeInv, TypeOK
<1>3. /\ Length(t)' = Length(t) /\ Length(s)' = Length(s) /\ PartsTaken(s)' = PartsTaken(s)
      /\ \A k : Nth(t, k)' = Nth(t, k)
  BY <1>1, <1>2 DEF Length, PartsTaken, Nth
<1>4. /\ PartsSent(t)' = PartsSent(t) + 1
      /\ PartsSent(t) = 2 * Length(t) + IF pc[t] = "header" THEN 0 ELSE 1
  BY <1>1, <1>2, <1>3, FifoFacts DEF PartsSent
<1>5. LogInOrder(t)'
  BY <1>1, <1>2, <1>3, FifoFacts DEF InOrderFrom, LogInOrder
<1>6. /\ n \in Nat /\ link'[s] \in Seq(Part \cup {part}) /\ Len(link'[s]) = n + 1
      /\ DOMAIN link'[s] = 1 .. n + 1 /\ DOMAIN link[s] = 1 .. n
      /\ link'[s][n + 1] = part /\ \A i \in 1 .. n : link'[s][i] = link[s][i]
  <2>1. link[s] \in Seq(Part \cup {part}) /\ part \in Part \cup {part}
    BY FifoFacts
  <2> HIDE DEF part
  <2> QED
    BY <1>2, <2>1
<1>7. /\ PartsTaken(s) \in Nat /\ Length(t) \in Nat
      /\ PartsTaken(s) + n + 1 = PartsSent(t)'
      /\ pc[t] = "header" => PartsTaken(s) + n + 1 = 2 * Length(t) + 1
      /\ pc[t] = "body" => PartsTaken(s) + n + 1 = 2 * Length(t) + 2
  BY <1>1, <1>4, FifoBounds, FifoFacts
<1>8. ASSUME NEW k \in 1 .. Length(t) + 1
      PROVE  /\ 2 * k - 1 - PartsTaken(s) \in 1 .. n + 1 =>
                  link'[s][2 * k - 1 - PartsTaken(s)] = Header(Nth(t, k))
             /\ 2 * k - PartsTaken(s) \in 1 .. n + 1 =>
                  link'[s][2 * k - PartsTaken(s)] = Body(Nth(t, k))
  <2>1. /\ 2 * k - 1 - PartsTaken(s) \in 1 .. n =>
                  link[s][2 * k - 1 - PartsTaken(s)] = Header(Nth(t, k))
        /\ 2 * k - PartsTaken(s) \in 1 .. n =>
                  link[s][2 * k - PartsTaken(s)] = Body(Nth(t, k))
    BY <1>1, <1>6 DEF InOrderFrom, LinkInOrder
  <2>2. ASSUME 2 * k - 1 - PartsTaken(s) = n + 1
        PROVE  part = Header(Nth(t, k))
    <3>1. pc[t] = "header" /\ k = Length(t) + 1
      BY <1>1, <1>6, <1>7, <2>2
    <3> QED
      BY <1>7, <3>1 DEF Nth
  <2>3. ASSUME 2 * k - PartsTaken(s) = n + 1
        PROVE  part = Body(Nth(t, k))
    <3>1. pc[t] = "body" /\ k = Length(t) + 1
      BY <1>1, <1>6, <1>7, <2>3
    <3> QED
      BY <1>7, <3>1 DEF Nth
  <2> HIDE DEF part
  <2>4. 2 * k - 1 - PartsTaken(s) \in Int /\ 2 * k - PartsTaken(s) \in Int
    BY <1>7
  <2> QED
    BY SMTT(30), <1>6, <2>1, <2>2, <2>3, <2>4
<1>9. LinkInOrder(t)'
  <2>1. (PartsTaken(s) + Len(link[s]) = PartsSent(t))'
    BY <1>3, <1>6, <1>7
  <2>2. DOMAIN link'[s] = 1 .. n + 1 /\ Length(t)' = Length(t)
    BY <1>3, <1>6
  <2> HIDE DEF n
  <2> QED
    BY <1>3, <1>8, <2>1, <2>2 DEF LinkInOrder
<1> QED
  BY <1>5, <1>9 DEF InOrderFrom

(* The thread applies the message it has sent on. *)
LEMMA FifoSenderApplies ==
  ASSUME TypeInv, NEW t \in Thread, Only(t), InOrderFrom(t), Apply(t)
  PROVE  InOrderFrom(t)'
<1> DEFINE s == At(t) + 1
<1>1. /\ pc[t] = "apply" /\ pc' = [pc EXCEPT ![t] = "reply"]
      /\ log' = [log EXCEPT ![At(t)] = Append(@, msg[t])]
      /\ msg' = msg /\ up' = up /\ link' = link
  BY DEF Apply, goto
<1>2. /\ pc'[s] = pc[s] /\ pc'[t] = "reply" /\ log'[s] = log[s]
      /\ log'[At(t)] = Append(log[At(t)], msg[t])
  BY <1>1, FifoFacts DEF TypeInv, TypeOK
<1>3. /\ Length(t)' = Length(t) + 1 /\ Length(s)' = Length(s)
      /\ \A k \in 1 .. Length(t) + 1 : Nth(t, k)' = Nth(t, k)
  <2>1. msg[t] \in Write
    BY <1>1 DEF TypeInv, InHand
  <2> QED
    BY <1>2, <2>1, FifoFacts DEF Length, Nth
<1>4. /\ PartsTaken(s)' = PartsTaken(s) /\ PartsTaken(s) \in Nat
      /\ PartsSent(t)' = PartsSent(t) /\ PartsSent(t) = 2 * Length(t) + 2
  <2>1. PartsTaken(s)' = PartsTaken(s) /\ PartsTaken(s) \in Nat
    BY <1>2, <1>3, FifoFacts DEF PartsTaken
  <2>2. Length(t)' = Length(t) + 1 /\ Length(t) \in Nat
    BY <1>3, FifoFacts
  <2> QED
    BY <1>1, <1>2, <2>1, <2>2 DEF PartsSent
<1>5. pc[s] \in InHand => Length(s) + 1 <= Length(t) + 1
  BY SMTT(30), <1>1, FifoFacts, FifoBounds
<1>6. LogInOrder(t)'
  BY <1>1, <1>2, <1>3, <1>5, FifoFacts DEF InOrderFrom, LogInOrder
<1>7. ASSUME up[s] PROVE LinkInOrder(t)'
  <2>1. ASSUME NEW k \in 1 .. Length(t) + 2,
               2 * k - 1 - PartsTaken(s) \in DOMAIN link[s]
                 \/ 2 * k - PartsTaken(s) \in DOMAIN link[s]
        PROVE  k \in 1 .. Length(t) + 1
    <3>1. PartsTaken(s) + Len(link[s]) = 2 * Length(t) + 2 /\ Len(link[s]) \in Nat
          /\ DOMAIN link[s] = 1 .. Len(link[s]) /\ Length(t) \in Nat
      BY <1>4, <1>7, FifoFacts, FifoBounds
    <3> QED
      BY SMTT(30), <1>4, <2>1, <3>1
  <2>2. Length(t)' = Length(t) + 1 /\ link'[s] = link[s]
    BY <1>1, <1>3
  <2>3. (PartsTaken(s) + Len(link[s]) = PartsSent(t))'
    BY <1>4, <1>7, <2>2 DEF InOrderFrom, LinkInOrder
  <2>4. \A k \in 1 .. Length(t) + 1 :
          /\ 2 * k - 1 - PartsTaken(s) \in DOMAIN link[s] =>
               link[s][2 * k - 1 - PartsTaken(s)] = Header(Nth(t, k)')
          /\ 2 * k - PartsTaken(s) \in DOMAIN link[s] =>
               link[s][2 * k - PartsTaken(s)] = Body(Nth(t, k)')
    BY <1>3, <1>7 DEF InOrderFrom, LinkInOrder
  <2>5. \A k \in 1 .. Length(t)' + 1 : k \in 1 .. Length(t) + 2
    BY <2>2, FifoFacts
  <2> QED
    BY <1>4, <2>1, <2>2, <2>3, <2>4, <2>5 DEF LinkInOrder
<1> QED
  BY <1>1, <1>6, <1>7 DEF InOrderFrom

(* A step in which the successor takes nothing from the connection. *)
LEMMA FifoReceiverKeeps ==
  ASSUME TypeInv, NEW t \in Thread, Only(t), InOrderFrom(t),
         LET s == At(t) + 1 IN
         /\ pc'[t] = pc[t] /\ msg'[t] = msg[t] /\ log' = log
         /\ pc'[s] \in InHand => pc[s] \in InHand /\ msg'[s] = msg[s]
         /\ up'[s] => up[s] /\ link'[s] = link[s] /\ PartsTaken(s)' = PartsTaken(s)
  PROVE  InOrderFrom(t)'
<1> DEFINE s == At(t) + 1
<1>1. /\ Length(t)' = Length(t) /\ Length(s)' = Length(s)
      /\ \A k : Nth(t, k)' = Nth(t, k)
  BY DEF Length, Nth
<1>2. PartsSent(t)' = PartsSent(t)
  BY <1>1 DEF PartsSent
<1>3. LogInOrder(t)'
  BY <1>1, FifoFacts DEF InOrderFrom, LogInOrder
<1>4. up'[s] => LinkInOrder(t)'
  BY <1>1, <1>2 DEF InOrderFrom, LinkInOrder
<1> QED
  BY <1>3, <1>4 DEF InOrderFrom

(* The successor reads the first part of the connection. *)
LEMMA FifoReceiverTakes ==
  ASSUME TypeInv, NEW t \in Thread, Only(t), InOrderFrom(t),
         ReceiveHeader(At(t) + 1) \/ ReceiveBody(At(t) + 1)
  PROVE  InOrderFrom(t)'
<1> DEFINE s == At(t) + 1
           n == Len(link[s])
<1>1. /\ pc[s] \in {"receive", "read"} /\ link[s] # <<>>
      /\ pc' = [pc EXCEPT ![s] = IF pc[s] = "receive" THEN "read" ELSE Onward(s)]
      /\ link' = [link EXCEPT ![s] = Tail(@)]
      /\ msg' = IF pc[s] = "receive" THEN [msg EXCEPT ![s] = Head(link[s]).of] ELSE msg
      /\ up' = up /\ log' = log
  BY DEF ReceiveHeader, ReceiveBody, goto
<1>2. /\ pc'[s] = IF pc[s] = "receive" THEN "read" ELSE Onward(s)
      /\ pc'[t] = pc[t] /\ msg'[t] = msg[t] /\ link'[s] = Tail(link[s])
      /\ msg'[s] = IF pc[s] = "receive" THEN Head(link[s]).of ELSE msg[s]
      /\ up[s]
  BY <1>1, FifoFacts DEF TypeInv, TypeOK
<1>3. /\ Length(t)' = Length(t) /\ Length(s)' = Length(s)
      /\ \A k : Nth(t, k)' = Nth(t, k)
  BY <1>1, <1>2 DEF Length, Nth
<1>4. PartsSent(t)' = PartsSent(t)
  BY <1>2, <1>3 DEF PartsSent
<1>5. /\ PartsTaken(s) = 2 * Length(s) + (IF pc[s] = "receive" THEN 0 ELSE 1)
      /\ PartsTaken(s)' = PartsTaken(s) + 1
      /\ PartsTaken(s) \in Nat /\ Length(s) \in Nat
  <2>1. CASE pc[s] = "receive"
    BY <1>2, <1>3, <2>1, FifoFacts DEF PartsTaken, InHand
  <2>2. CASE pc[s] = "read"
    BY <1>2, <1>3, <2>2, FifoFacts DEF PartsTaken, InHand, Onward
  <2> QED
    BY <1>1, <2>1, <2>2
<1>6. /\ n \in Nat \ {0} /\ DOMAIN link[s] = 1 .. n
      /\ Len(link'[s]) = n - 1 /\ DOMAIN link'[s] = 1 .. n - 1
      /\ Head(link[s]) = link[s][1]
      /\ \A i \in 1 .. n - 1 : link'[s][i] = link[s][i + 1]
  <2>1. link[s] \in Seq(Part) /\ link[s] # <<>>
    BY <1>1, FifoFacts
  <2> QED
    BY <1>2, <2>1
<1>7. (PartsTaken(s) + Len(link[s]) = PartsSent(t))'
  BY SMTT(30), <1>2, <1>4, <1>5, <1>6, FifoBounds
<1>8. \A k \in 1 .. Length(t) + 1 :
        /\ 2 * k - 1 - PartsTaken(s) \in 1 .. n =>
             link[s][2 * k - 1 - PartsTaken(s)] = Header(Nth(t, k))
        /\ 2 * k - PartsTaken(s) \in 1 .. n =>
             link[s][2 * k - PartsTaken(s)] = Body(Nth(t, k))
  BY <1>2, <1>6 DEF InOrderFrom, LinkInOrder
<1>9. LinkInOrder(t)'
  <2>1. ASSUME NEW k \in 1 .. Length(t) + 1
        PROVE  /\ 2 * k - 1 - PartsTaken(s)' \in 1 .. n - 1 =>
                    link'[s][2 * k - 1 - PartsTaken(s)'] = Header(Nth(t, k))
               /\ 2 * k - PartsTaken(s)' \in 1 .. n - 1 =>
                    link'[s][2 * k - PartsTaken(s)'] = Body(Nth(t, k))
    <3> DEFINE i == 2 * k - 1 - PartsTaken(s)'
               j == 2 * k - PartsTaken(s)'
    <3>1. /\ i \in Int /\ j \in Int
          /\ i + 1 = 2 * k - 1 - PartsTaken(s) /\ j + 1 = 2 * k - PartsTaken(s)
      BY <1>5
    <3> HIDE DEF i, j, n
    <3>2. /\ i \in 1 .. n - 1 => link'[s][i] = Header(Nth(t, k))
          /\ j \in 1 .. n - 1 => link'[s][j] = Body(Nth(t, k))
      <4>1. /\ i + 1 \in 1 .. n => link[s][i + 1] = Header(Nth(t, k))
            /\ j + 1 \in 1 .. n => link[s][j + 1] = Body(Nth(t, k))
        BY <1>8, <3>1
      <4> QED
        BY <1>6, <3>1, <4>1
    <3> QED
      BY <3>2 DEF i, j
  <2> HIDE DEF n
  <2> QED
    BY <1>3, <1>6, <1>7, <2>1 DEF LinkInOrder
<1>10. pc'[s] \in InHand => msg'[s] = Nth(t, Length(s) + 1)
  <2>1. ASSUME pc[s] = "receive" PROVE msg'[s] = Nth(t, Length(s) + 1)
    <3>1. Length(s) + 1 \in 1 .. Length(t) + 1
      <4>1. PartsSent(t) <= 2 * Length(t) + 2 /\ Length(t) \in Nat
        BY FifoFacts DEF PartsSent
      <4>2. PartsTaken(s) + n = PartsSent(t)
        BY <1>2, FifoBounds
      <4>3. PartsTaken(s) = 2 * Length(s)
        BY <1>5, <2>1
      <4> HIDE DEF n
      <4> QED
        BY SMTT(30), <1>5, <1>6, <4>1, <4>2, <4>3
    <3>2. Head(link[s]) = Header(Nth(t, Length(s) + 1))
      <4>1. 2 * (Length(s) + 1) - 1 - PartsTaken(s) = 1
        BY <1>5, <2>1
      <4> HIDE DEF n
      <4> QED
        BY <1>6, <1>8, <3>1, <4>1
    <3> QED
      BY <1>2, <2>1, <3>2 DEF Header
  <2>2. ASSUME pc[s] = "read" PROVE msg'[s] = Nth(t, Length(s) + 1)
    BY <1>2, <2>2 DEF InOrderFrom, LogInOrder, InHand
  <2> QED
    BY <1>1, <2>1, <2>2
<1>11. LogInOrder(t)'
  BY <1>1, <1>2, <1>3, <1>10, FifoFacts DEF InOrderFrom, LogInOrder
<1> QED
  BY <1>9, <1>11 DEF InOrderFrom

(* The successor applies the message in its hand. *)
LEMMA FifoReceiverApplies ==
  ASSUME TypeInv, NEW t \in Thread, Only(t), InOrderFrom(t), Apply(At(t) + 1)
  PROVE  InOrderFrom(t)'
<1> DEFINE s == At(t) + 1
<1>1. /\ pc[s] = "apply" /\ pc' = [pc EXCEPT ![s] = "reply"]
      /\ log' = [log EXCEPT ![s] = Append(@, msg[s])]
      /\ msg' = msg /\ up' = up /\ link' = link
  BY FifoFacts DEF Apply, goto
<1>2. /\ pc'[t] = pc[t] /\ pc'[s] = "reply" /\ log'[At(t)] = log[At(t)]
      /\ log'[s] = Append(log[s], msg[s]) /\ up[s]
  BY <1>1, FifoFacts DEF TypeInv, TypeOK, InHand
<1>3. /\ Length(t)' = Length(t) /\ Length(s)' = Length(s) + 1
      /\ \A k : Nth(t, k)' = Nth(t, k)
      /\ \A k \in 1 .. Length(s) : log'[s][k] = log[s][k]
      /\ log'[s][Length(s) + 1] = msg[s]
  <2>1. msg[s] \in Write
    BY <1>1, FifoFacts DEF TypeInv, InHand
  <2> QED
    BY <1>1, <1>2, <2>1, FifoFacts DEF Length, Nth
<1>4. PartsSent(t)' = PartsSent(t)
  BY <1>2, <1>3 DEF PartsSent
<1>5. PartsTaken(s) = 2 * Length(s) + 2 /\ PartsTaken(s)' = 2 * (Length(s) + 1) + 0
  BY <1>1, <1>2, <1>3, FifoFacts DEF PartsTaken, InHand
<1>6. PartsTaken(s)' = PartsTaken(s)
  BY <1>5, FifoFacts
<1>7. Length(s) + 1 <= Length(t) + (IF pc[t] = "apply" THEN 1 ELSE 0)
  <2>1. PartsTaken(s) <= PartsSent(t)
    BY <1>2, FifoBounds
  <2> QED
    BY <1>5, <2>1, FifoFacts DEF PartsSent
<1>8. msg[s] = Nth(t, Length(s) + 1)
  BY <1>1 DEF InOrderFrom, LogInOrder, InHand
<1>9. LogInOrder(t)'
  <2>1. \A k \in 1 .. Length(s) + 1 : log'[s][k] = Nth(t, k)
    BY <1>3, <1>8, FifoFacts DEF InOrderFrom, LogInOrder
  <2> QED
    BY <1>2, <1>3, <1>7, <2>1 DEF LogInOrder, InHand
<1>10. LinkInOrder(t)'
  BY <1>1, <1>2, <1>3, <1>4, <1>6 DEF InOrderFrom, LinkInOrder
<1> QED
  BY <1>9, <1>10 DEF InOrderFrom

(* The steps of the sending thread, *)
LEMMA FifoSender ==
  ASSUME TypeInv, NEW t \in Thread, Only(t), InOrderFrom(t),
         ReceiveWrite(t) \/ Work(t) \/ Quit(t)
  PROVE  InOrderFrom(t)'
<1> DEFINE s == At(t) + 1
<1> USE FifoFacts
<1>1. CASE ReceiveWrite(t)
  <2>1. /\ pc'[s] = pc[s] /\ msg'[s] = msg[s] /\ log' = log /\ link' = link /\ up' = up
        /\ pc[t] = "receive" /\ pc'[t] = "header"
    BY <1>1 DEF ReceiveWrite, goto, Onward, Only, TypeInv, TypeOK
  <2> QED
    BY <2>1, FifoSenderKeeps
<1>2. CASE ReceiveHeader(t) \/ ReceiveBody(t)
  <2>1. /\ pc'[s] = pc[s] /\ msg'[s] = msg[s] /\ log' = log /\ up' = up
        /\ link'[s] = link[s]
        /\ pc[t] \in {"receive", "read"} /\ pc'[t] \in {"read", "header"}
    BY SMTT(30), <1>2, ThreadFacts
       DEF ReceiveHeader, ReceiveBody, goto, Onward, Only, TypeInv,
       TypeOK
  <2> QED
    BY <2>1, FifoSenderKeeps
<1>3. ASSUME NEW places, LeaveFrom(t, places), places \subseteq Places \ {"apply"},
             pc[t] = "body" => ~ up[s]
      PROVE  InOrderFrom(t)'
  <2>1. /\ pc'[s] = pc[s] /\ msg'[s] = msg[s] /\ log' = log
        /\ up'[s] = up[s] /\ link'[s] = link[s]
        /\ pc[t] # "apply" /\ pc'[t] = "gone"
    BY <1>3 DEF LeaveFrom, TypeInv, TypeOK
  <2> QED
    BY <1>3, <2>1, FifoSenderKeeps
<1>4. CASE SendLost(t)
  <2>1. /\ pc'[s] = pc[s] /\ msg' = msg /\ log' = log /\ up' = up /\ link' = link
        /\ pc[t] # "apply" /\ ~ up[s]
    BY <1>4 DEF SendLost, goto, TypeInv, TypeOK
  <2> QED
    BY <2>1, FifoSenderKeeps
<1>5. CASE ReplyClient(t) \/ ReplyServer(t)
  <2>1. /\ pc'[s] = pc[s] /\ msg'[s] = msg[s] /\ log' = log /\ up' = up /\ link' = link
        /\ pc[t] = "reply" /\ pc'[t] = "receive"
    BY <1>5 DEF ReplyClient, ReplyServer, goto, TypeInv, TypeOK
  <2> QED
    BY <2>1, FifoSenderKeeps
<1> QED
  <2>1. CASE ReceiveTorn(t) \/ SendFails(t) \/ Quit(t)
    <3>1. \E places : /\ LeaveFrom(t, places) /\ places \subseteq Places \ {"apply"}
                      /\ pc[t] = "body" => ~ up[s]
      BY <2>1 DEF ReceiveTorn, SendFails, Quit, LeaveFrom, Places
    <3> QED
      BY <1>3, <3>1
  <2> QED
    BY <1>1, <1>2, <1>4, <1>5, <2>1, FifoSenderSends, FifoSenderApplies DEF Work

(* and those of the successor. *)
LEMMA FifoReceiver ==
  ASSUME TypeInv, NEW t \in Thread, Only(t), InOrderFrom(t),
         LET s == At(t) + 1 IN ReceiveWrite(s) \/ Work(s) \/ Quit(s)
  PROVE  InOrderFrom(t)'
<1> DEFINE s == At(t) + 1
<1> USE FifoFacts
<1>1. s \notin Client /\ s \in Inner /\ s # t
  BY ThreadFacts
<1>2. CASE ReceiveHeader(s) \/ ReceiveBody(s)
  BY <1>2, FifoReceiverTakes
<1>3. ASSUME NEW places, LeaveFrom(s, places)
      PROVE  InOrderFrom(t)'
  <2>1. /\ pc'[t] = pc[t] /\ msg'[t] = msg[t] /\ log' = log
        /\ pc'[s] = "gone" /\ ~ up'[s]
    BY <1>1, <1>3 DEF LeaveFrom, TypeInv, TypeOK
  <2> QED
    BY <2>1, FifoReceiverKeeps DEF InHand
<1>4. CASE SendHeader(s) \/ SendBody(s) \/ SendLost(s)
  <2>1. /\ pc[s] \in {"header", "body"} /\ pc'[s] \in {"body", "apply"}
        /\ pc'[t] = pc[t] /\ msg' = msg /\ log' = log /\ up' = up /\ link'[s] = link[s]
    <3>1. At(s) + 1 # s
      BY <1>1, ThreadFacts DEF Server
    <3>2. CASE SendHeader(s)
      BY <1>1, <3>1, <3>2 DEF SendHeader, Send, goto, TypeInv, TypeOK
    <3>3. CASE SendBody(s)
      BY <1>1, <3>1, <3>3 DEF SendBody, Send, goto, TypeInv, TypeOK
    <3>4. CASE SendLost(s)
      BY <1>1, <3>4 DEF SendLost, goto, TypeInv, TypeOK
    <3> QED
      BY <1>4, <3>2, <3>3, <3>4
  <2>2. PartsTaken(s)' = PartsTaken(s)
    BY <2>1 DEF PartsTaken, Length, InHand
  <2> QED
    BY <2>1, <2>2, FifoReceiverKeeps DEF InHand
<1>5. CASE ReplyServer(s)
  <2>1. /\ pc[s] = "reply" /\ pc'[s] = "receive"
        /\ pc'[t] = pc[t] /\ msg'[t] = msg[t] /\ log' = log /\ up' = up /\ link' = link
    BY <1>5, <1>1 DEF ReplyServer, goto, TypeInv, TypeOK
  <2>2. PartsTaken(s)' = PartsTaken(s)
    BY <2>1 DEF PartsTaken, Length, InHand
  <2> QED
    BY <2>1, <2>2, FifoReceiverKeeps DEF InHand
<1> QED
  BY <1>1, <1>2, <1>3, <1>4, <1>5, FifoReceiverApplies
  DEF Work, ReceiveWrite, ReceiveTorn, SendFails, ReplyClient, Quit

LEMMA FifoInit ==
  Init => FifoInv
<1> SUFFICES ASSUME Init, NEW t \in Thread, Only(t) PROVE InOrderFrom(t)
  BY DEF FifoInv
<1>1. /\ log[At(t)] = <<>> /\ log[At(t) + 1] = <<>> /\ link[At(t) + 1] = <<>>
      /\ pc[t] = "receive" /\ pc[At(t) + 1] = "receive"
  BY TypeInit, FifoFacts DEF Init
<1>2. /\ Length(t) = 0 /\ Length(At(t) + 1) = 0
      /\ PartsSent(t) = 0 /\ PartsTaken(At(t) + 1) = 0
  BY <1>1, TypeInit, FifoFacts DEF Length, PartsSent, PartsTaken, InHand
<1> QED
  BY <1>1, <1>2 DEF InOrderFrom, LogInOrder, LinkInOrder, InHand

LEMMA FifoStep ==
  TypeInv /\ FifoInv /\ [Next]_vars => FifoInv'
<1> SUFFICES ASSUME TypeInv, FifoInv, [Next]_vars, NEW t \in Thread, Only(t)
             PROVE  InOrderFrom(t)'
  BY DEF FifoInv, Only
<1>1. InOrderFrom(t)
  BY DEF FifoInv
<1>2. CASE UNCHANGED vars
  BY <1>1, <1>2, FifoUntouched DEF vars, Untouched
<1>3. ASSUME NEW u \in Thread, ReceiveWrite(u) \/ Work(u) \/ Quit(u)
      PROVE  InOrderFrom(t)'
  BY <1>1, <1>3, FifoOther, FifoSender, FifoReceiver
<1> QED
  BY <1>2, <1>3 DEF Next
-----------------------------------------------------------------------------
(* What a server holds: the writes it has applied, and the one in hand. *)
Holds(t) == Length(t) + (IF pc[t] \in InHand THEN 1 ELSE 0)

Prefix(s, t) ==
  /\ Holds(s) <= Holds(t)
  /\ \A k \in 1 .. Holds(s) : Nth(s, k) = Nth(t, k)

LEMMA HoldsNatural ==
  ASSUME TypeInv, NEW t \in Thread
  PROVE  Length(t) \in Nat /\ Holds(t) \in Nat /\ Length(t) <= Holds(t)
<1>1. Length(t) \in Nat
  BY ThreadFacts DEF TypeInv, TypeOK, Length
<1> QED
  BY <1>1 DEF Holds

(* Two neighbours: what the second holds are the first writes that the other
   one does. *)
LEMMA PrefixOfPredecessor ==
  ASSUME TypeInv, NEW t \in Thread, Only(t), InOrderFrom(t)
  PROVE  Prefix(At(t) + 1, t)
<1> DEFINE s == At(t) + 1
<1> USE FifoFacts
<1>1. Length(s) <= Length(t) + (IF pc[t] = "apply" THEN 1 ELSE 0)
  BY DEF InOrderFrom, LogInOrder
<1>2. CASE pc[s] \in InHand
  <2>1. PartsTaken(s) <= PartsSent(t) /\ PartsTaken(s) >= 2 * Length(s) + 1
    BY <1>2, FifoBounds DEF PartsTaken
  <2>2. Length(s) + 1 <= Length(t) + (IF pc[t] \in {"body", "apply"} THEN 1 ELSE 0)
    <3>1. CASE pc[t] = "apply"
      BY <1>2, <2>1, <3>1, FifoBounds
    <3>2. CASE pc[t] = "body"
      BY <1>2, <2>1, <3>2, FifoBounds
    <3>3. CASE pc[t] \notin {"body", "apply"}
      BY <1>2, <2>1, <3>3, FifoBounds
    <3> QED
      BY <3>1, <3>2, <3>3
  <2>3. Holds(s) = Length(s) + 1 /\ Holds(s) <= Holds(t)
    BY <1>2, <2>2 DEF Holds, InHand
  <2>4. \A k \in 1 .. Length(s) + 1 : Nth(s, k) = Nth(t, k)
    BY <1>2 DEF InOrderFrom, LogInOrder, Nth
  <2> QED
    BY <2>3, <2>4 DEF Prefix
<1>3. CASE pc[s] \notin InHand
  <2>1. Holds(s) = Length(s) /\ Holds(s) <= Holds(t)
    BY <1>1, <1>3 DEF Holds, InHand
  <2>2. \A k \in 1 .. Length(s) : Nth(s, k) = Nth(t, k)
    BY DEF InOrderFrom, LogInOrder, Nth
  <2> QED
    BY <2>1, <2>2 DEF Prefix
<1> QED
  BY <1>2, <1>3

(* A set of numbers that is not empty has a least one. *)
LEMMA LeastNatural ==
  ASSUME NEW S \in SUBSET Nat, S # {}
  PROVE  \E n \in S : \A m \in S : n <= m
<1>1. IsWellFoundedOn(OpToRel(<, Nat), Nat)
  BY NatLessThanWellFounded
<1>2. PICK n \in S : \A m \in S : ~ (<<m, n>> \in OpToRel(<, Nat))
  BY <1>1, WFMin
<1>3. \A m \in S : ~ (m < n)
  BY <1>2 DEF OpToRel
<1> QED
  BY <1>3

(* So down the chain: what an inner server holds are the first writes that
   server 2 does.  The first server of which this is not true would come
   after one of which it is. *)
LEMMA PrefixOfFirstInner ==
  ASSUME TypeInv, FifoInv, NEW s \in Inner
  PROVE  Prefix(s, 2)
<1> DEFINE bad == {r \in Inner : ~ Prefix(r, 2)}
<1>1. SUFFICES ASSUME bad # {} PROVE FALSE
  OBVIOUS
<1>2. bad \in SUBSET Nat
  BY ThreadFacts DEF Server
<1>3. PICK r \in bad : \A m \in bad : r <= m
  BY <1>1, <1>2, LeastNatural
<1>4. r # 2
  BY <1>3, HoldsNatural DEF Prefix, Thread
<1> DEFINE t == r - 1
<1>5. t \in Inner /\ 2 \in Inner /\ t \in Thread /\ r \in Thread /\ t + 1 = r /\ At(t) = t
  BY <1>3, <1>4, ThreadFacts DEF Inner, Thread
<1>6. Only(t)
  BY <1>3, <1>5, ThreadFacts DEF Only, Thread, Inner
<1>7. Prefix(r, t)
  BY <1>5, <1>6, PrefixOfPredecessor DEF FifoInv
<1>8. Prefix(t, 2)
  BY <1>3, <1>5 DEF Inner
<1>9. Prefix(r, 2)
  BY <1>5, <1>7, <1>8, HoldsNatural DEF Prefix, Thread
<1> QED
  BY <1>3, <1>9

LEMMA FifoOrders ==
  TypeInv /\ FifoInv => InnerSameOrder
<1> SUFFICES ASSUME TypeInv, FifoInv, NEW s \in Inner, NEW r \in Inner,
                    NEW i \in DOMAIN log[s] \cap DOMAIN log[r]
             PROVE  log[s][i] = log[r][i]
  BY DEF InnerSameOrder
<1>1. \A q \in Inner : /\ log[q] \in Seq(Write) /\ At(q) = q /\ q \in Thread
                       /\ DOMAIN log[q] = 1 .. Length(q)
  BY ThreadFacts DEF TypeInv, TypeOK, Length, Thread
<1>2. i \in 1 .. Length(s) /\ i \in 1 .. Length(r)
  BY <1>1
<1>3. i \in 1 .. Holds(s) /\ i \in 1 .. Holds(r)
  BY <1>1, <1>2, HoldsNatural
<1>4. Nth(s, i) = Nth(2, i) /\ Nth(r, i) = Nth(2, i)
  BY <1>3, PrefixOfFirstInner DEF Prefix
<1> QED
  BY <1>1, <1>2, <1>4 DEF Nth

(* The servers after the head apply their writes in one order, for any
   number of servers and of clients, whatever connections break: one thread
   reads and sends on whole messages, however the threads of the head cut
   up each other's. *)
THEOREM SameOrder ==
  Spec => []InnerSameOrder
<1>1. Init => TypeInv /\ FifoInv
  BY TypeInit, FifoInit
<1>2. TypeInv /\ FifoInv /\ [Next]_vars => (TypeInv /\ FifoInv)'
  BY TypeStep, FifoStep
<1>3. Spec => [](TypeInv /\ FifoInv)
  BY <1>1, <1>2, PTL DEF Spec
<1> QED
  BY <1>3, FifoOrders, PTL
-----------------------------------------------------------------------------
(* One client: the head too has a single thread, and what it holds is what
   the client sent. *)
HeadHolds(c) ==
  /\ \A k \in 1 .. Holds(c) : Nth(c, k) = sent[c][k]
  /\ Holds(c) <= Len(sent[c])
  /\ pc[c] # "gone" => Holds(c) = Len(sent[c])

LEMMA HeadHoldsInit ==
  ASSUME NEW c \in Client, Init
  PROVE  HeadHolds(c)
<1>1. pc[c] = "receive" /\ log[At(c)] = <<>> /\ sent[c] = <<>>
  BY ThreadFacts DEF Init, Thread
<1> QED
  BY <1>1 DEF HeadHolds, Holds, Length, InHand

LEMMA HeadHoldsStep ==
  ASSUME NEW c, Client = {c}, TypeInv, HeadHolds(c),
         NEW u \in Thread, ReceiveWrite(u) \/ Work(u) \/ Quit(u)
  PROVE  HeadHolds(c)'
<1> DEFINE n == Len(log[1])
<1>0. /\ At(c) = 1 /\ c \in Thread /\ c \in Client /\ 1 \in Server
      /\ log[1] \in Seq(Write) /\ sent[c] \in Seq(Write)
      /\ n \in Nat /\ Len(sent[c]) \in Nat /\ Length(c) = n /\ pc[c] # "read"
  <2>1. At(c) = 1 /\ c \in Thread /\ c \in Client /\ 1 \in Server
    BY ThreadFacts DEF Thread, Server
  <2>2. log[1] \in Seq(Write) /\ sent[c] \in Seq(Write) /\ pc[c] # "read"
    BY <2>1 DEF TypeInv, TypeOK
  <2>3. n \in Nat /\ Len(sent[c]) \in Nat
    BY <2>2
  <2> QED
    BY <2>1, <2>2, <2>3 DEF Length
<1>1. CASE u # c
  <2>1. u \in Inner /\ At(u) # 1
    BY <1>1, ThreadFacts DEF Thread, Inner
  <2>2. pc'[c] = pc[c] /\ msg'[c] = msg[c]
    BY <1>0, <1>1 DEF TypeInv, TypeOK, Work, ReceiveWrite, ReceiveHeader, ReceiveBody,
       ReceiveTorn, SendHeader, SendBody, Send, SendLost, SendFails, Apply, ReplyClient,
       ReplyServer, Quit, LeaveFrom, goto
  <2>3. sent' = sent /\ log'[1] = log[1]
    BY <1>0, <1>1, <2>1 DEF TypeInv, TypeOK, Work, ReceiveWrite, ReceiveHeader,
       ReceiveBody, ReceiveTorn, SendHeader, SendBody, Send, SendLost, SendFails, Apply,
       ReplyClient, ReplyServer, Quit, LeaveFrom, goto
  <2> QED
    BY <1>0, <2>2, <2>3 DEF HeadHolds, Holds, Length, Nth
<1>2. CASE ReceiveWrite(c)
  <2>1. PICK w \in Write : msg' = [msg EXCEPT ![c] = w]
                           /\ sent' = [sent EXCEPT ![c] = Append(@, w)]
    <3>1. PICK k \in Key :
            LET w == [by |-> c, n |-> Len(sent[c]) + 1, key |-> k] IN
            /\ msg' = [msg EXCEPT ![c] = w]
            /\ sent' = [sent EXCEPT ![c] = Append(@, w)]
      BY <1>2 DEF ReceiveWrite
    <3>2. [by |-> c, n |-> Len(sent[c]) + 1, key |-> k] \in Write
      BY <1>0, <1>2, ThreadFacts DEF ReceiveWrite, Write
    <3> QED
      BY <3>1, <3>2
  <2>2. /\ pc[c] = "receive" /\ pc'[c] \in {"header", "apply"} /\ log' = log
        /\ msg'[c] = w /\ sent'[c] = Append(sent[c], w)
    BY <1>0, <1>2, <2>1 DEF ReceiveWrite, goto, Onward, TypeInv, TypeOK
  <2>3. /\ Len(sent'[c]) = Len(sent[c]) + 1 /\ sent'[c][Len(sent[c]) + 1] = w
        /\ \A k \in 1 .. Len(sent[c]) : sent'[c][k] = sent[c][k]
    BY <1>0, <2>2
  <2>4. Holds(c) = n /\ Len(sent[c]) = n /\ Holds(c)' = n + 1 /\ Length(c)' = n
    <3>1. Length(c)' = n /\ Len(log'[1]) = n
      BY <1>0, <2>2 DEF Length
    <3>5. pc[c] \notin InHand /\ pc'[c] \in InHand
      BY <2>2 DEF InHand
    <3> HIDE DEF n
    <3>2. Holds(c) = n /\ Holds(c)' = n + 1
      BY <1>0, <3>1, <3>5 DEF Holds
    <3>3. Len(sent[c]) = Holds(c)
      BY <2>2 DEF HeadHolds
    <3> QED
      BY <3>1, <3>2, <3>3
  <2>5. \A k \in 1 .. n : Nth(c, k)' = sent[c][k]
    BY <1>0, <2>2, <2>4 DEF HeadHolds, Nth
  <2>6. \A k : k = n + 1 => Nth(c, k)' = w
    BY <1>0, <2>2, <2>4 DEF Nth
  <2> QED
    BY <1>0, <2>2, <2>3, <2>4, <2>5, <2>6 DEF HeadHolds
<1>3. CASE Apply(c)
  <2>1. /\ pc[c] = "apply" /\ pc'[c] = "reply" /\ msg' = msg /\ sent' = sent
        /\ log'[1] = Append(log[1], msg[c]) /\ msg[c] \in Write
    BY <1>0, <1>3 DEF Apply, goto, TypeInv, TypeOK, InHand
  <2>2. /\ Len(log'[1]) = n + 1 /\ log'[1][n + 1] = msg[c]
        /\ \A k \in 1 .. n : log'[1][k] = log[1][k]
    BY <1>0, <2>1
  <2>3. Holds(c) = n + 1 /\ Holds(c)' = n + 1 /\ Length(c)' = n + 1
    BY <1>0, <2>1, <2>2 DEF Holds, Length, InHand
  <2>4. \A k \in 1 .. n + 1 : Nth(c, k)' = Nth(c, k)
    BY <1>0, <2>1, <2>2, <2>3 DEF Nth
  <2> QED
    BY <1>0, <2>1, <2>3, <2>4 DEF HeadHolds
<1>4. ASSUME sent' = sent, log' = log, pc'[c] # "gone" => pc[c] # "gone",
             pc'[c] \in InHand => pc[c] \in InHand /\ msg'[c] = msg[c],
             pc'[c] # "gone" => (pc'[c] \in InHand <=> pc[c] \in InHand)
      PROVE  HeadHolds(c)'
  <2>1. Length(c)' = n /\ Holds(c)' <= Holds(c) /\ Holds(c) \in Nat /\ Holds(c)' \in Nat
    <3>1. Length(c)' = n
      BY <1>0, <1>4 DEF Length
    <3>2. Holds(c) = n + IF pc[c] \in InHand THEN 1 ELSE 0
      BY <1>0 DEF Holds
    <3>3. Holds(c)' = n + IF pc'[c] \in InHand THEN 1 ELSE 0
      BY <3>1 DEF Holds
    <3>4. n \in Nat
      BY <1>0
    <3> HIDE DEF n
    <3>5. CASE pc'[c] \in InHand
      BY <1>4, <3>1, <3>2, <3>3, <3>4, <3>5
    <3>6. CASE pc'[c] \notin InHand
      BY <3>1, <3>2, <3>3, <3>4, <3>6
    <3> QED
      BY <3>5, <3>6
  <2>2. pc'[c] # "gone" => Holds(c)' = Holds(c)
    BY <1>0, <1>4, <2>1 DEF Holds
  <2>3. \A k \in 1 .. Holds(c)' : Nth(c, k)' = Nth(c, k)
    <3>1. ASSUME NEW k \in 1 .. Holds(c)', ~ (k <= n)
          PROVE  msg'[c] = msg[c]
      <4>1. pc'[c] \notin InHand => Holds(c)' = n
        BY <1>0, <2>1 DEF Holds
      <4> QED
        BY <1>0, <1>4, <3>1, <4>1
    <3> QED
      BY <1>0, <1>4, <2>1, <3>1 DEF Nth
  <2> QED
    BY <1>0, <1>4, <2>1, <2>2, <2>3 DEF HeadHolds
<1>5. CASE SendHeader(c) \/ SendBody(c) \/ ReplyClient(c)
  <2>1. /\ sent' = sent /\ log' = log
        /\ pc'[c] \in InHand <=> pc[c] \in InHand
        /\ pc[c] \in InHand => msg'[c] = msg[c]
        /\ pc[c] # "gone"
    BY <1>0, <1>5 DEF SendHeader, SendBody, Send, ReplyClient, goto, InHand,
       TypeInv, TypeOK
  <2> QED
    BY <1>4, <2>1
<1>6. CASE SendLost(c)
  <2>1. /\ sent' = sent /\ log' = log /\ msg' = msg
        /\ pc[c] \in {"header", "body"} /\ pc'[c] \in {"body", "apply"}
    BY <1>0, <1>6 DEF SendLost, goto, TypeInv, TypeOK
  <2> QED
    BY <1>4, <2>1 DEF InHand
<1>7. CASE SendFails(c) \/ Quit(c)
  <2>1. sent' = sent /\ log' = log /\ pc'[c] = "gone"
    BY <1>0, <1>7 DEF SendFails, Quit, LeaveFrom, TypeInv, TypeOK
  <2> QED
    BY <1>4, <2>1 DEF InHand
<1>8. ~ ReceiveHeader(c) /\ ~ ReceiveBody(c) /\ ~ ReceiveTorn(c) /\ ~ ReplyServer(c)
  BY <1>0, ThreadFacts DEF ReceiveHeader, ReceiveBody, ReceiveTorn, ReplyServer
<1> QED
  BY <1>1, <1>2, <1>3, <1>5, <1>6, <1>7, <1>8 DEF Work

OneInv(c) == TypeInv /\ FifoInv /\ HeadHolds(c)

LEMMA OneAlways ==
  ASSUME NEW c, Client = {c}
  PROVE  Spec => []OneInv(c)
<1>1. Init => OneInv(c)
  BY TypeInit, FifoInit, HeadHoldsInit DEF OneInv
<1>2. OneInv(c) /\ [Next]_vars => OneInv(c)'
  <2> SUFFICES ASSUME OneInv(c), [Next]_vars PROVE HeadHolds(c)'
    BY TypeStep, FifoStep DEF OneInv
  <2>1. CASE UNCHANGED vars
    BY <2>1 DEF OneInv, vars, HeadHolds, Holds, Length, Nth
  <2>2. CASE Next
    BY <2>2, HeadHoldsStep DEF OneInv, Next
  <2> QED
    BY <2>1, <2>2
<1> QED
  BY <1>1, <1>2, PTL DEF Spec

(* What any thread holds are the first writes that the client sent. *)
LEMMA HoldsSent ==
  ASSUME NEW c, Client = {c}, OneInv(c), NEW t \in Thread
  PROVE  /\ Holds(t) <= Len(sent[c])
         /\ \A k \in 1 .. Holds(t) : Nth(t, k) = sent[c][k]
<1>0. c \in Client /\ c \in Thread /\ At(c) = 1
  BY ThreadFacts DEF Thread
<1>1. CASE t = c
  BY <1>1 DEF OneInv, HeadHolds
<1>2. CASE t # c
  <2>1. t \in Inner /\ 2 \in Inner /\ 2 \in Thread
    BY <1>2, ThreadFacts DEF Thread, Inner
  <2>2. Only(c)
    BY <1>0, <2>1, ThreadFacts DEF Only, Thread, Inner
  <2>3. Prefix(2, c)
    BY <1>0, <2>2, PrefixOfPredecessor DEF OneInv, FifoInv
  <2>4. Prefix(t, 2)
    BY <2>1, PrefixOfFirstInner DEF OneInv
  <2>5. /\ Holds(t) \in Nat /\ Holds(2) \in Nat /\ Holds(c) \in Nat
        /\ Len(sent[c]) \in Nat
    BY <1>0, <2>1, HoldsNatural DEF OneInv, TypeInv, TypeOK
  <2> QED
    BY <2>3, <2>4, <2>5 DEF Prefix, OneInv, HeadHolds
<1> QED
  BY <1>1, <1>2

(* With one client no server is more than one write ahead of its
   predecessor: it has all that the predecessor will apply from that thread
   itself, one message at a time. *)
THEOREM OneAhead ==
  ASSUME NEW c, Client = {c}
  PROVE  Spec => []AtMostOneAhead
<1>1. OneInv(c) => AtMostOneAhead
  <2> SUFFICES ASSUME OneInv(c), NEW s \in Inner
               PROVE  Len(log[s]) <= Len(log[s - 1]) + 1
    BY DEF AtMostOneAhead
  <2>1. PICK t \in Thread : At(t) = s - 1 /\ Only(t)
    <3>1. CASE s = 2
      BY <3>1, ThreadFacts DEF Only, Thread, Inner
    <3>2. CASE s # 2
      BY <3>2, ThreadFacts DEF Only, Thread, Inner
    <3> QED
      BY <3>1, <3>2
  <2>2. InOrderFrom(t) /\ At(t) + 1 = s /\ At(s) = s
    BY <2>1, ThreadFacts DEF OneInv, FifoInv, Server
  <2>3. Length(s) \in Nat /\ Length(t) \in Nat
    BY <2>1, <2>2, FifoFacts DEF OneInv
  <2>4. Length(s) <= Length(t) + (IF pc[t] = "apply" THEN 1 ELSE 0)
    BY <2>2 DEF InOrderFrom, LogInOrder
  <2>5. Length(s) <= Length(t) + 1
    BY <2>3, <2>4
  <2> QED
    BY <2>1, <2>2, <2>5 DEF Length
<1> QED
  BY <1>1, OneAlways, PTL

LEMMA OneRefines ==
  ASSUME NEW c, Client = {c}, OneInv(c), Next
  PROVE  RL!Next \/ UNCHANGED RL!rlvars
<1> DEFINE history == sent[CHOOSE d \in Client : TRUE]
<1>0. history = sent[c] /\ history' = sent'[c] /\ c \in Client /\ c \in Thread
  BY DEF Thread
<1>1. PICK u \in Thread : ReceiveWrite(u) \/ Work(u) \/ Quit(u)
  BY DEF Next
<1>2. CASE ReceiveWrite(u)
  <2>1. u = c
    BY <1>2 DEF ReceiveWrite
  <2>2. PICK k \in Key :
          sent' = [sent EXCEPT ![c] =
                     Append(@, [by |-> c, n |-> Len(sent[c]) + 1, key |-> k])]
    BY <1>2, <2>1 DEF ReceiveWrite
  <2>3. [by |-> c, n |-> Len(sent[c]) + 1, key |-> k] \in Write
    <3>1. sent[c] \in Seq(Write) /\ Len(sent[c]) < MaxWrites
      BY <1>0, <1>2, <2>1 DEF ReceiveWrite, OneInv, TypeInv, TypeOK
    <3> QED
      BY <1>0, <3>1, ThreadFacts DEF Write
  <2>4. sent'[c] = Append(sent[c], [by |-> c, n |-> Len(sent[c]) + 1, key |-> k])
    BY <1>0, <2>2 DEF OneInv, TypeInv, TypeOK
  <2>5. log' = log
    BY <1>2 DEF ReceiveWrite
  <2> HIDE DEF history
  <2>6. RL!Order
    BY <1>0, <2>3, <2>4, <2>5 DEF RL!Order, history
  <2> QED
    BY <2>6 DEF RL!Next
<1>3. CASE Apply(u)
  <2> DEFINE s == At(u)
  <2>1. /\ s \in Server /\ pc[u] = "apply" /\ sent' = sent
        /\ log' = [log EXCEPT ![s] = Append(@, msg[u])]
        /\ log[s] \in Seq(Write) /\ sent[c] \in Seq(Write)
    BY <1>0, <1>3, ThreadFacts DEF Apply, goto, OneInv, TypeInv, TypeOK
  <2>2. Length(u) = Len(log[s]) /\ Len(log[s]) \in Nat /\ Len(sent[c]) \in Nat
    BY <2>1 DEF Length
  <2>3. Holds(u) = Len(log[s]) + 1
    BY <2>1, <2>2 DEF Holds, InHand
  <2>4. Len(log[s]) < Len(sent[c]) /\ Nth(u, Len(log[s]) + 1) = sent[c][Len(log[s]) + 1]
    BY <2>2, <2>3, HoldsSent
  <2>5. msg[u] = sent[c][Len(log[s]) + 1]
    BY <2>2, <2>4 DEF Nth
  <2>6. RL!ApplyNext(s)
    BY <1>0, <2>1, <2>4, <2>5 DEF RL!ApplyNext
  <2> QED
    BY <2>1, <2>6 DEF RL!Next
<1>4. CASE (Work(u) \/ Quit(u)) /\ ~ Apply(u)
  <2>1. sent' = sent /\ log' = log
    BY <1>4 DEF Work, ReceiveHeader, ReceiveBody, ReceiveTorn, SendHeader, SendBody, Send,
       SendLost, SendFails, ReplyClient, ReplyServer, Quit, LeaveFrom
  <2> QED
    BY <2>1 DEF RL!rlvars
<1> QED
  BY <1>1, <1>2, <1>3, <1>4

(* With one client a chain of any length implements ReplicatedLog: its
   writes have one order, the one the client made them in, and every server
   applies them in that order, whatever connections break. *)
THEOREM Implements ==
  ASSUME NEW c, Client = {c}
  PROVE  Spec => InOrder
<1>1. Init => RL!Init
  BY DEF Init, RL!Init
<1>2. OneInv(c) /\ [Next]_vars => [RL!Next]_(RL!rlvars)
  <2>1. ASSUME UNCHANGED vars PROVE UNCHANGED RL!rlvars
    BY <2>1 DEF vars, RL!rlvars
  <2>2. OneInv(c) /\ Next => RL!Next \/ UNCHANGED RL!rlvars
    BY OneRefines
  <2> QED
    BY <2>1, <2>2
<1> QED
  BY <1>1, <1>2, OneAlways, PTL DEF Spec, InOrder, RL!Spec
=============================================================================
