---------------------------- MODULE MCPaperBroker ---------------------------
(* Small instances of PaperBroker.  Prices around Rs 100 whose averages do *)
(* not come out in whole paise; capital for four units, not for six.       *)
EXTENDS PaperBroker

MCQuantities   == {1, 3}
MCLimitPrices  == {10000}
MCTicks        == {0, 9990, 10003}
MCQuotes       == {0, 10000}
MCMarketPrices == {0}
MCExactPrices  == {0, 10050}
=============================================================================
