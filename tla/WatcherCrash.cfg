SPECIFICATION Spec
CONSTANTS
  Watchers = {w1, w2}
  MaxBlocks = 2
  MaxPerBlock = 1
  MaxCalls = 2
  MaxCrashes = 1
CHECK_DEADLOCK FALSE
INVARIANTS
  CrashRedelivers
