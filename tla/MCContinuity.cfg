SPECIFICATION Spec
CONSTANTS
  None = None
  Context = {x1, x2, x3, x4}
  Conversation = {v1, v2, v3, v4, v5}
  Run = {q1, q2}
  MaxContexts = 3
SYMMETRY Symmetry
INVARIANTS TypeOK BoundedContinuity KeptWhileRecent ConversationOfOneContext
