SPECIFICATION FairSpec
CONSTANTS
  None = None
  ReqId = {r1, r2, r3}
  Flows = 2
  QueueBound = 2
  EventKinds = {"text"}
INVARIANTS TypeOK NoHungDrain ParkedIsQuiescent
PROPERTIES CancelReleasesDrain RequestSurfaces
CHECK_DEADLOCK FALSE
