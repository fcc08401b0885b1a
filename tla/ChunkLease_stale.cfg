SPECIFICATION Spec
CONSTANTS
  Server = {s1, s2}
  None = none
  Call = {c1, c2}
  Write = {w1}
  MinReplicas = 1
  Late = FALSE
  Failure = {"timeout"}
  MaxVersion = 3
  MaxEvents = 2
SYMMETRY Symmetry
INVARIANTS LocationsCurrent
CHECK_DEADLOCK FALSE
