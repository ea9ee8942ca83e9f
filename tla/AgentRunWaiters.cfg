SPECIFICATION FairSpec
CONSTANTS
  Callers = {c1, c2}
  Waiters = {w1}
  Msgs = {m1}
  NoCaller = NoCaller
  NoMsg = NoMsg
  MaxTurns = 1
  MaxRuns = 2
  QueueModes = {"one-at-a-time"}
  HookPowers = {}
CHECK_DEADLOCK FALSE
INVARIANTS
  NoLostWakeup
PROPERTIES
  AbortLeadsToIdle
  WaiterReturns
