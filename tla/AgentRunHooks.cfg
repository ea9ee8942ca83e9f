SPECIFICATION Spec
CONSTANTS
  Callers = {c1, c2}
  Waiters = {}
  Msgs = {m1, m2}
  NoCaller = NoCaller
  NoMsg = NoMsg
  MaxTurns = 1
  MaxRuns = 2
  QueueModes = {"all", "one-at-a-time"}
  HookPowers = {"fail", "inject", "replace"}
SYMMETRY Symmetry
CHECK_DEADLOCK FALSE
INVARIANTS
  SingleRun
  TranscriptContract
  ContextFollowsTranscript
  EventProtocol
  ContinueHonoured
PROPERTIES
  ImplementsContract
