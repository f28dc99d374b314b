SPECIFICATION Spec
CONSTANTS
  Interval = 2
  Prices <- MCPrices
  Volumes <- MCVolumes
  Times <- MCTimes
  MaxTicks = 4
CHECK_DEADLOCK FALSE
INVARIANTS
  TypeOK
  BarIsItsTicks
  VwapWithinBar
  BarsAdvance
  VolumeCountedOnce
