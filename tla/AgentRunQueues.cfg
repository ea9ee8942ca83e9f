SPECIFICATION Spec
CONSTANTS
  Callers = {c1, c2}
  Waiters = {}
  Msgs = {m1, m2, m3}
  NoCaller = NoCaller
  NoMsg = NoMsg
  MaxTurns = 1
  MaxRuns = 2
  QueueModes = {"one-at-a-time"}
  HookPowers = {}
SYMMETRY Symmetry
CHECK_DEADLOCK FALSE
INVARIANTS
  Conservation
  SteeringInOrder
