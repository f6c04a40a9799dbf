SPECIFICATION Spec
CONSTANTS
  Key <- MCKey
  Block = {b1, b2}
  NULL = NULL
  CharSum <- MCCharSum
  n_lists = 2
INVARIANTS
  DestroySucceeds
CHECK_DEADLOCK FALSE
