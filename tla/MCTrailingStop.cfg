SPECIFICATION Spec
CONSTANTS
  Gap = 2
  Step = 4
  Entries <- MCEntries
  Prices <- MCPrices
  Times <- MCTimes
INVARIANTS
  TypeOK
  StopTrailsPeak
  StateMatchesPrice
PROPERTIES
  NeverLoosens
