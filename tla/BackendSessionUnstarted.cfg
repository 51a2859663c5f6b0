SPECIFICATION Spec
CONSTANTS
  None = None
  ReqId = {r1}
  Flows = 1
  QueueBound = 2
  EventKinds = {"text"}
INVARIANTS SentinelReachesDrain
CHECK_DEADLOCK FALSE
