SPECIFICATION Spec
CONSTANTS
  Capital = 100
  Fee = 1
  MaxUtilization = 60
  MarginCeiling = 85
  DrawdownLimit = 5
  MaxLots = 5
  LotSize = 1
  Modes = {"feed", "live", "mock"}
  Qty = 5
  Prices <- MCPrices
  Spread = 1
  Strict = TRUE
  Timed = FALSE
  MaxTicks = 4
  MaxBars = 3
  FeedLength = 5
  Interrupts = 2
CHECK_DEADLOCK FALSE
INVARIANTS
  TypeOK
  FlagIsPositionUnlessRefused
  DossierIsTrue
PROPERTIES
  BreakerOnlyCloses
  StopConcludes
  InterruptEndsRun
