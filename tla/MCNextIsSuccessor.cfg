SPECIFICATION Spec
CONSTANTS
  Server = {s1, s2, s3}
  NoServer = NoServer
  Closed = Closed
INVARIANTS
  NextIsSuccessor
CHECK_DEADLOCK FALSE
