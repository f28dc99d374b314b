SPECIFICATION Spec
CONSTANTS
  Gap = 2
  Step = 2
  Entries <- MCEntries
  Prices <- MCPrices
  Times = {600, 916}
  WaitForOpen = TRUE
  MaxTicks = 2
CHECK_DEADLOCK FALSE
INVARIANTS
  SealedFlat
