SPECIFICATION Spec
CONSTANTS
  Server = {s1, s2}
  None = none
  Call = {c1, c2}
  Write = {w1}
  MinReplicas = 1
  Late = TRUE
  Failure = {"timeout", "refusal", "sweep", "crash"}
  MaxVersion = 3
  MaxEvents = 2
SYMMETRY Symmetry
INVARIANTS TypeOK GrantsUnique StayersCurrent SnapshotIsolated
CHECK_DEADLOCK FALSE
