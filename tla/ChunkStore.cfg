SPECIFICATION Spec
CONSTANTS
  Handle = {h1, h2}
  Version = {1, 2}
  NewVersion = {1}
  ChunkSize = 4
  BlockSize = 2
  Range <- MCRange
  PadFrom = {1, 3}
  Fault = {"io", "short", "crash", "rot"}
  MaxOps = 2
  MaxFaults = 2
SYMMETRY Handles
INVARIANTS TypeOK AckedReadable ReadTrue VersionKept
CHECK_DEADLOCK FALSE
