SPECIFICATION Spec
CONSTANTS
  Client = {c1, c2}
  Key = {k1}
  N = 3
  MaxWrites = 2
  LinkCap = 3
  UnreadCap = 3
INVARIANTS
  TypeOK
  PerClientOrder
  InnerSameOrder
  NoOrphanWrites
CHECK_DEADLOCK FALSE
