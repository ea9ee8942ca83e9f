SPECIFICATION Spec
CONSTANTS
  Intents = {"run"}
  NCalls = 1
  MaxAttempts = 2
  MaxIds = 2
  MaxQueued = 0
  MaxAborts = 0
  MaxTogether = 3
  MaxCrashes = 1
CHECK_DEADLOCK FALSE
INVARIANT Restorable
