SPECIFICATION Spec
CONSTANTS
  Call = {c1, c2}
  Source <- MCFlat
  Target <- MCFlat
  Stamp = {1}
  Retention = 1
  MaxDepth = 2
  MaxHandle = 2
  MaxChunks = 1
  MaxVersion = 1
SYMMETRY Symmetry
INVARIANT LeaseOnFilesChunk
CHECK_DEADLOCK FALSE
