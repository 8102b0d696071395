SPECIFICATION Spec
CONSTANTS
  Slots = 2
  MaxTickets = 3
  MaxStacks = 3
CHECK_DEADLOCK FALSE
INVARIANTS
  TypeOK
  RouterIsListed
  ListedAreCurrent
  PoolCovers
