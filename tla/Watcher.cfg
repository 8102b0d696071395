SPECIFICATION FairSpec
CONSTANTS
  Watchers = {w1, w2}
  MaxBlocks = 2
  MaxPerBlock = 2
  MaxCalls = 3
  MaxCrashes = 1
CHECK_DEADLOCK FALSE
INVARIANTS
  TypeOK
  NothingSkipped
  OnceInOrder
PROPERTIES
  EveryRevocationArrives
