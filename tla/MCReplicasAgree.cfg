SPECIFICATION Spec
CONSTANTS
  Client = {c1, c2}
  Key = {k1}
  N = 2
  MaxWrites = 1
  LinkCap = 4
  UnreadCap = 2
INVARIANTS
  ReplicasAgree
CHECK_DEADLOCK FALSE
