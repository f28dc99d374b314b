--------------------------- MODULE MCTrailingStop ---------------------------
(* A stop whose step is wider than its gap, on both sides of the market,   *)
(* with an entry below the gap so that a long stop is floored at zero.     *)
EXTENDS TrailingStop

MCEntries == {1, 13}
MCPrices  == 0 .. 18
MCTimes   == 0 .. 1
=============================================================================
