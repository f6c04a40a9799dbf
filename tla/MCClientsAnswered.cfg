SPECIFICATION FairSpec
CONSTANTS
  Client = {c1}
  Key = {k1}
  N = 2
  MaxWrites = 4
  LinkCap = 2
  UnreadCap = 1
PROPERTIES
  ClientsAnswered
CHECK_DEADLOCK FALSE
