SPECIFICATION Spec
CONSTANTS
  c1 = c1
  c2 = c2
  Server = {s1, s2}
  None = None
  Caller = {c1, c2}
  ChunkSize = 2
  Size <- MCSize
  Capacity = 3
  Inner = 2
  Outer = 0
  MaxChunks = 2
  MaxAttempts = 6
  Scenario <- MCScenario
INVARIANTS TypeOK BufferBounded
PROPERTIES AppendSpec CallsEnd
CHECK_DEADLOCK FALSE
