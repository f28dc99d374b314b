---------------------------- MODULE CostSchedule ----------------------------
(***************************************************************************)
(* The two pure functions every simulated fill goes through: the NSE       *)
(* statutory charges (CostCalculator) and the slippage applied to a price  *)
(* (SlippageModel), both in core/costs.py.  Amounts are paise and a rate   *)
(* of the source is a fraction <<numerator, denominator>>.                 *)
(***************************************************************************)
EXTENDS Money

CONSTANTS
  SlippageBps,     \* SlippageModel.percentage, in basis points
  SlippagePoints   \* SlippageModel.fixed_points, in paise

(* max(0.0, ...) in SlippageModel.__init__ makes both non-negative. *)
ASSUME SlippageAssumption == SlippageBps \in Nat /\ SlippagePoints \in Nat

Side == {"BUY", "SELL"}
InstrumentClass == {"OPTIONS", "FUTURES", "EQUITY_INTRADAY", "EQUITY_DELIVERY"}

AtRate(amount, rate) == RoundHalfEven(amount * rate[1], rate[2])

Brokerage == 2000
SebiRate  == <<1, 1000000>>
GstRate   == <<18, 100>>
NoRate    == <<0, 1>>

(* Sellers pay STT; on a delivery trade the buyer does too. *)
SttRate(side, instrument) ==
  IF instrument = "EQUITY_DELIVERY" THEN <<1, 1000>>
  ELSE IF side = "BUY" THEN NoRate
  ELSE IF instrument = "OPTIONS" THEN <<1, 1000>>
  ELSE IF instrument = "FUTURES" THEN <<1, 5000>>
  ELSE <<1, 4000>>

ExchangeRate(instrument) ==
  IF instrument = "OPTIONS" THEN <<1, 2000>>
  ELSE IF instrument = "FUTURES" THEN <<1, 50000>>
  ELSE <<69, 2000000>>

(* Buyers pay stamp duty. *)
StampRate(side, instrument) ==
  IF side = "SELL" THEN NoRate
  ELSE IF instrument = "FUTURES" THEN <<1, 50000>>
  ELSE IF instrument = "EQUITY_DELIVERY" THEN <<3, 20000>>
  ELSE <<3, 100000>>

TotalCharges(side, qty, price, instrument) ==
  LET turnover == qty * price
      exchange == AtRate(turnover, ExchangeRate(instrument))
      sebi     == AtRate(turnover, SebiRate)
      gst      == AtRate(Brokerage + exchange + sebi, GstRate)
  IN  Brokerage + AtRate(turnover, SttRate(side, instrument)) + exchange
        + sebi + AtRate(turnover, StampRate(side, instrument)) + gst

(* A SELL never slips below five paise. *)
TickFloor == 5

SlippedPrice(price, side) ==
  LET slip == RoundHalfEven(price * SlippageBps + SlippagePoints * 10000, 10000)
  IN  IF side = "BUY" THEN price + slip ELSE Greater(TickFloor, price - slip)
=============================================================================
