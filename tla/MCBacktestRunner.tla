--------------------------- MODULE MCBacktestRunner ---------------------------
(* Candles around 10, where two units are affordable, and around 35, where *)
(* they are not: an ample bar, a thin one, one without volume or room for  *)
(* slippage, a rally, a slump.                                             *)
EXTENDS BacktestRunner

Candle(open, close, room, allowed) ==
  [open |-> open, close |-> close, high |-> Greater(open, close) + room,
   low |-> Lesser(open, close) - room, allowed |-> allowed]

MCCandles == { Candle(10, 10, 1, 2), Candle(10, 10, 1, 1), Candle(10, 10, 0, 2),
               Candle(10, 35, 1, 2), Candle(35, 10, 1, 1) }

AllConfigs == [intraday : BOOLEAN, squareOff : BOOLEAN, sameBar : BOOLEAN,
               partial : BOOLEAN, strict : BOOLEAN]
MCConfigs == { c \in AllConfigs : (c.squareOff => c.intraday) /\ (c.strict => ~c.partial) }
=============================================================================
