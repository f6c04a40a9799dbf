SPECIFICATION FairSpec
CONSTANTS
  Client = {c1}
  Key = {k1, k2}
  N = 3
  MaxWrites = 3
  LinkCap = 2
  UnreadCap = 3
INVARIANTS
  AtMostOneAhead
PROPERTIES
  InOrder
  WritesReachTail
CHECK_DEADLOCK FALSE
