SPECIFICATION FairSpec
CONSTANTS
  k1 = k1
  k2 = k2
  v1 = v1
  v2 = v2
  NoValue = NoValue
  NoThread = NoThread
  Thread = {t1, t2}
  Key <- MCKey
  Value <- MCValue
  Requests <- MCRequests
  IntRange = 2
  HasNext = TRUE
INVARIANTS
  Inv
  NoConcurrentMutation
  SizeMatchesTable
  OpsAccounted
  ClientsAccounted
PROPERTIES
  Atomic
  LocksReleased
  ReadsAnswered
