SPECIFICATION Spec
CONSTANTS
  Capital = 100
  Fee = 1
  MaxUtilization = 60
  MarginCeiling = 85
  DrawdownLimit = 5
  MaxLots = 5
  LotSize = 1
  Modes = {"feed"}
  Qty = 5
  Prices = {9}
  Spread = 1
  Strict = FALSE
  Timed = FALSE
  MaxTicks = 4
  MaxBars = 3
  FeedLength = 5
  Interrupts = 1
CHECK_DEADLOCK FALSE
PROPERTIES
  InterruptConcludes
