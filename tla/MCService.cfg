SPECIFICATION ServiceSpec
CONSTANTS
  None = None
  ReqId = {r1, r2}
  Flows = 3
  QueueBound = 1
  EventKinds = {"text", "tool", "file"}
  CommandLines <- MCCommandLines
  Requests <- MCRequests
  Blocks <- MCBlocks
  Messages <- MCMessages
  Updates <- MCUpdates
  OptionSets <- MCOptionSets
  MaxReceived = 2
  Line = {"a", "b", "c"}
  Texts <- MCTexts
  Numbers <- MCNumbers
  Allows = {"yes"}
  Undocumented = {}
  Denies = {"no"}
  Faults = {"loss", "retry", "close", "disconnect"}
SYMMETRY MCSymmetry
INVARIANTS ReadIsWindow CardTellsAccess CardIsHonest OptionsHonoured OutcomeMatchesDecision
PROPERTIES ImplementsSession OnlyCallersAct
CHECK_DEADLOCK FALSE
