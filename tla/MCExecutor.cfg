SPECIFICATION Spec
CONSTANTS
  None = None
  ReqId = {r1}
  Flows = 1
  QueueBound = 1
  EventKinds = {"text", "tool"}
  Task = {t1, t2}
  SessionId = {s1, s2, s3}
  Call = {c1, c2}
  MaxLive = 1
  Faults = {}
SYMMETRY Symmetry
INVARIANTS BoundedRegistry NoFalseCompletion NoOrphanRunner NoLeakedSession NoLeakedStream PromptAnswerable
CHECK_DEADLOCK FALSE
