CONSTANTS
  Workers <- MCWorkers
  Good = {"nifty", "bank"}
  Bad = {"typo"}
  Lists <- MCLists
  MaxAttempts = 1
  MaxCalls = 5
SPECIFICATION Spec
INVARIANTS TypeOK OneStreamServesAll TruthfulStatus
PROPERTIES RetriesEnd DisconnectConcludes
CHECK_DEADLOCK FALSE
