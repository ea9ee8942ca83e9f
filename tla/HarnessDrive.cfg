SPECIFICATION Spec
CONSTANTS
  Intents = {"run", "compaction", "navigation", "summary"}
  NCalls = 2
  MaxAttempts = 2
  MaxIds = 3
  MaxQueued = 1
  MaxAborts = 1
  MaxTogether = 4
  MaxCrashes = 1
CHECK_DEADLOCK FALSE
INVARIANTS
  EffectsAtMostOnce
  DuplicatesExplained
  MemoryFollowsDisk
  CompletedIsAnswered
  RetriesBounded
PROPERTIES
  SettledForGood
