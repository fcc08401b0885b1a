SPECIFICATION Spec
CONSTANTS
  MaxRecord = 2
  MaxSegment = 2
  Threshold = 2
  SinkMayFail = TRUE
INVARIANT AckedDurable
