SPECIFICATION Spec
CONSTANTS
  SlippageBps = 5
  SlippagePoints = 0
  Symbols = {"NIFTY"}
  InitialCapital = 50000
  MarginPct = 85
  Instrument = "FUTURES"
  Quantities <- MCQuantities
  LimitPrices <- MCLimitPrices
  Ticks <- MCTicks
  Quotes <- MCQuotes
  MarketPrices <- MCMarketPrices
  ExactPrices <- MCExactPrices
  MaxOrders = 2
INVARIANTS
  TypeOK
  FillsMatchTrades
  LimitNeverWorse
  LedgerReconciles
  CashReconciles
  MarkedPnLReconciles
PROPERTIES
  CloseNeverRefused
  ImplementsLifecycle
