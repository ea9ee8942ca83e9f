SPECIFICATION Spec
CONSTANTS
  Clients = {c1, c2}
  Kinds = {"steer"}
  OneAtATime = TRUE
  Reuse = FALSE
  MaxEntries = 3
  MaxOps = 2
  MaxWork = 4
  MaxWaits = 1
  MaxCrashes = 1
SYMMETRY ClientSymmetry
CHECK_DEADLOCK FALSE
INVARIANTS
  ExactlyOnce
  NeverForks
  NoLostIdle
