SPECIFICATION Spec
CONSTANTS
  MaxRecord = 4
  MaxSegment = 4
  Threshold = 1
  SinkMayFail = FALSE
INVARIANTS TypeOK AckedDurable RecoveredIsPrefix ReplayedInOrder NothingInFlightLost
PROPERTY DiskNeverForgets
