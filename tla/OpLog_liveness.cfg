SPECIFICATION FairSpec
CONSTANTS
  MaxRecord = 3
  MaxSegment = 3
  Threshold = 1
  SinkMayFail = TRUE
PROPERTIES WaitersReturn StopEnds
