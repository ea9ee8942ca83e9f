SPECIFICATION FairSpec
CONSTANTS
  Subs = {s1}
  Exts = {x1}
  SubCapacity = 1
  ExtCapacity = 2
  MaxEvents = 6
CHECK_DEADLOCK FALSE
INVARIANTS
  LossIsObservable
  NewestTerminalRetained
  ExtensionContract
PROPERTIES
  ReceiverReturns
