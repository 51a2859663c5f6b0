SPECIFICATION ServiceSpec
CONSTANTS
  None = None
  ReqId = {r1, r2}
  Flows = 3
  QueueBound = 1
  EventKinds = {"text", "tool", "file"}
  CommandLines <- MCCommandLines
  Requests <- MCRequests
  Blocks <- MCBlocks
  Messages <- MCMessages
  Updates <- MCUpdates
  OptionSets <- MCOptionSets
  MaxReceived = 2
  Line = {"a", "b", "c"}
  Texts <- MCTexts
  Numbers <- MCNumbers
  Allows = {"yes"}
  Undocumented = {"allow not"}
  Denies = {"no"}
  Faults = {}
INVARIANTS OutcomeMatchesDecision
CHECK_DEADLOCK FALSE
