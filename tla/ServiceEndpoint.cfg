SPECIFICATION FairSpec
CONSTANTS
  MaxCalls = 2
  MaxUpdates = 3
  QueueLimit = 2
CHECK_DEADLOCK FALSE
INVARIANTS
  GaplessDelivery
  NeverSilent
  DisposeLeavesNothing
PROPERTIES
  DisposeReturns
