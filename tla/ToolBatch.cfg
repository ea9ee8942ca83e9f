SPECIFICATION FairSpec
CONSTANTS
  N = 4
  MaxParallel = 2
  UpdateCapacity = 1
  MaxUpdates = 1
  MayPanic = TRUE
CHECK_DEADLOCK FALSE
INVARIANTS
  StartsAndEndsPair
  ResultsInSourceOrder
  LateOnlyAfterPanic
PROPERTIES
  CancelSettles
