SPECIFICATION Spec
CONSTANTS
  Procs = {p1, p2}
  ReusesInodes = FALSE
  MaxTokens = 3
  MaxWrites = 3
  MaxCrashes = 1
SYMMETRY ProcSymmetry
CHECK_DEADLOCK FALSE
INVARIANTS
  FreshLockSpared
  TokenUsedOnce
  AckedSurvives
