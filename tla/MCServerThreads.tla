-------------------------- MODULE MCServerThreads --------------------------
(* Small instances of ServerThreads for TLC. *)
EXTENDS ServerThreads

CONSTANTS k1, k2, v1, v2

MCKey   == {k1, k2}
MCValue == {v1, v2}

Req(op, k, v) == [op |-> op, typed |-> TRUE, key |-> k, val |-> v]

(* Every handler of invoke on both branches: replacement and insertion, a
   missing key, an empty value, a c_type that does not fit, a bad opcode. *)
MCRequests ==
  {Req("put", k1, v1), Req("put", k1, v2), Req("put", k2, v1),
   Req("put", k1, NoValue), [Req("put", k1, v1) EXCEPT !.typed = FALSE],
   Req("get", k1, NoValue), Req("del", k1, NoValue),
   Req("size", k1, NoValue), Req("getkeys", k1, NoValue),
   Req("gettable", k1, NoValue), Req("stats", k1, NoValue),
   Req("other", k1, NoValue)}
=============================================================================
