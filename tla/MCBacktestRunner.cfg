SPECIFICATION Spec
CONSTANTS
  Capital = 100
  Fee = 3
  MaxUtilization = 60
  MarginCeiling = 85
  DrawdownLimit = 8
  MaxLots = 4
  LotSize = 1
  Configs <- MCConfigs
  Qty = 2
  Candles <- MCCandles
  Spread = 1
  MaxBars = 5
CHECK_DEADLOCK FALSE
INVARIANTS
  LongUnlessTruncated
  SessionsSeparate
  LedgerReconciles
