SPECIFICATION Spec
CONSTANTS
  None = None
  Chunk = {a, b}
  Meta = {m1, m2}
  MaxChunks = 4
INVARIANTS TypeOK ClosedAtEnd
PROPERTIES NothingAfterLast ImplementsText
CHECK_DEADLOCK FALSE
