SPECIFICATION FairSpec
CONSTANTS
  N = 3
  Key = {k1}
  MaxWrites = 2
  FirstIds = {0, 1}
  Mortal = {2}
  LinkCap = 1
INVARIANTS
  TypeOK
  KeepsNewest
  JoinsWhole
  StartsEmpty
PROPERTIES
  JoinsEnd
CHECK_DEADLOCK FALSE
