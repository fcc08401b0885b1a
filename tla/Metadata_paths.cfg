SPECIFICATION Spec
CONSTANTS
  Call = {c1, c2}
  Source <- MCSource
  Target <- MCTarget
  Stamp = {1}
  Retention = 1
  MaxDepth = 2
  MaxHandle = 1
  MaxChunks = 1
  MaxVersion = 1
SYMMETRY Symmetry
INVARIANTS TypeOK TreeShape ChecksStillHold
CHECK_DEADLOCK FALSE
