SPECIFICATION Spec
CONSTANTS
  None = None
  ReqId = {r1}
  Flows = 1
  QueueBound = 1
  EventKinds = {"text"}
  Task = {t1, t2}
  SessionId = {s1, s2}
  Call = {c1, c2}
  MaxLive = 2
  Faults = {"disconnect"}
INVARIANTS NoLeakedSession
CHECK_DEADLOCK FALSE
