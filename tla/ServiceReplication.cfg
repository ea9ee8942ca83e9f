SPECIFICATION Spec
CONSTANTS
  Publishers = {p1, p2}
  Starter = start
  Rebinder = rebind
  NoThread = none
  MaxPubs = 2
  MaxRebinds = 1
  MaxWithdrawals = 1
  MaxCalls = 2
SYMMETRY PublisherSymmetry
CHECK_DEADLOCK FALSE
INVARIANTS
  HoldsItsLabel
  NoResurrection
  NothingStranded
  SettledIsCurrent
