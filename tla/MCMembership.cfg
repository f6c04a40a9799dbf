SPECIFICATION FairSpec
CONSTANTS
  Server = {s1, s2, s3}
  NoServer = NoServer
  Closed = Closed
INVARIANTS
  TypeOK
  NextIsConnected
  ToldKnowsNext
PROPERTIES
  LeavesTheDead
CHECK_DEADLOCK FALSE
