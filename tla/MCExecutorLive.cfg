SPECIFICATION FairSpec
CONSTANTS
  None = None
  ReqId = {r1}
  Flows = 1
  QueueBound = 0
  EventKinds = {}
  Task = {t1, t2}
  SessionId = {s1, s2}
  Call = {c1, c2}
  MaxLive = 1
  Faults = {"cancel"}
INVARIANTS NoLeakedStream PromptAnswerable
PROPERTIES AdmissionEventually CancelledPumpEnds
CHECK_DEADLOCK FALSE
