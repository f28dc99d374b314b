SPECIFICATION Spec
CONSTANTS
  Gap = 2
  Step = 2
  Entries <- MCEntries
  Prices <- MCPrices
  Times <- MCTimes
  WaitForOpen = TRUE
  MaxTicks = 2
CHECK_DEADLOCK FALSE
INVARIANTS
  TypeOK
  BooksAgree
  SealedFlatUnlessTorn
  NoTriggeredPosition
PROPERTIES
  TriggerClosesGroup
  SessionEnds
