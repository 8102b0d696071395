SPECIFICATION Spec
CONSTANTS
  r1 = r1
  r2 = r2
  r3 = r3
  r4 = r4
  Requests = {r1, r2, r3, r4}
  Demand <- Sizes
  Capacity = 3
  QuoteHold = 2
  End = 5
  AnswerWithin <- Within
  MaxBusy <- AtOnce
  MaxTime <- Until
INVARIANTS
  TypeOK
  WithinCapacity
  PromisesFit
  BooksBalance
CHECK_DEADLOCK FALSE
