--------------------------- MODULE ReplicatedLog ---------------------------
(***************************************************************************)
(* What a chain of replicas promises: the writes have one order, and every *)
(* server applies them in that order, each once and at its own pace.  The  *)
(* chain of Replication implements it as long as one client writes.        *)
(***************************************************************************)
EXTENDS Naturals, Sequences

CONSTANTS Server, Write

VARIABLES
  history,   \* the writes, in their order
  applied    \* per server, the writes it has applied, in its order

rlvars == <<history, applied>>

Init ==
  /\ history = <<>>
  /\ applied = [s \in Server |-> <<>>]

Order ==
  /\ \E w \in Write : history' = Append(history, w)
  /\ UNCHANGED applied

ApplyNext(s) ==
  LET n == Len(applied[s]) IN
  /\ n < Len(history)
  /\ applied' = [applied EXCEPT ![s] = Append(@, history[n + 1])]
  /\ UNCHANGED history

Next == Order \/ \E s \in Server : ApplyNext(s)

Spec == Init /\ [][Next]_rlvars
=============================================================================
