-------------------------- MODULE MCTickAggregator --------------------------
(* Buckets of two seconds: two ticks of one bucket, or of different ones,  *)
(* in any order, with prices whose weighted mean is not a whole paisa.     *)
EXTENDS TickAggregator

MCPrices  == {0, 100, 103}
MCVolumes == {1, 3}
MCTimes   == {0, 1, 2, 4}
=============================================================================
