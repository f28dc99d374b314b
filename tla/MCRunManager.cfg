SPECIFICATION Spec
CONSTANTS
  Runs = {r1, r2}
  Bars = 4
CHECK_DEADLOCK FALSE
INVARIANTS
  StopHeeded
PROPERTIES
  VerdictStands
  RunConcludes
