SPECIFICATION FairSpec
CONSTANTS
  N = 2
  MaxFd = 4
  MaxCalls = 2
  Mortal = {1, 2}
INVARIANTS
  TypeOK
  
  
PROPERTIES
  AnswersMatch
  
CHECK_DEADLOCK FALSE
