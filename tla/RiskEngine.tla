----------------------------- MODULE RiskEngine -----------------------------
(***************************************************************************)
(* The pre-trade risk engine, core/risk/engine.py: an intraday drawdown    *)
(* breaker that latches until the next session, a margin ceiling and a     *)
(* ceiling on lots.  Orders that only reduce a position pass every gate.   *)
(* Its state is a record: the peak equity of the session and the breaker.  *)
(* The runners keep it in a variable and ask for a verdict on each order.  *)
(* Left out are the peak since the start, which decides nothing, and the   *)
(* gate on naked short options: neither runner says that an order is one.  *)
(***************************************************************************)
EXTENDS Account

CONSTANTS
  MarginCeiling,   \* max_margin_utilization_pct, in percent
  DrawdownLimit,   \* portfolio_drawdown_limit_pct, in percent
  MaxLots,         \* max_concurrent_lots
  LotSize          \* of the symbol; 1 when none is registered

ASSUME RiskAssumption ==
  /\ MarginCeiling \in 0 .. 100 /\ DrawdownLimit \in 0 .. 100
  /\ MaxLots \in Nat \ {0} /\ LotSize \in Nat \ {0}

Risk == [sessionPeak : Int, breaker : BOOLEAN]
Fresh == [sessionPeak |-> Capital, breaker |-> FALSE]

(* on_session_start *)
SessionStarted(equity) == [sessionPeak |-> equity, breaker |-> FALSE]

Drawdown(peak, equity) ==
  peak > 0 /\ 100 * (peak - equity) >= DrawdownLimit * peak

(* update_equity: the breaker goes on and stays on. *)
EquityUpdated(r, equity) ==
  LET top == Greater(r.sessionPeak, equity)
  IN  [sessionPeak |-> top, breaker |-> r.breaker \/ Drawdown(top, equity)]

Lots(n) == (Abs(n) + LotSize - 1) \div LotSize

PureClosing(a, side, n) == Sign(side) * a.qty < 0 /\ n <= Abs(a.qty)

(* Gate 3: margin released by the closed part, margin of the rest. *)
AboveMarginCeiling(a, side, n, price) ==
  LET closed == ClosingQty(a, side, n)
      used   == Greater(0, UsedMargin(a) - closed * price)
                  + NetNewQty(a, side, n) * price
      total  == IF TotalCapital(a) > 0 THEN TotalCapital(a) ELSE Capital
  IN  IF total > 0 THEN 100 * used > MarginCeiling * total ELSE MarginCeiling < 100

(* Gate 4 *)
AboveLots(a, side, n) ==
  LET existing == Lots(IF Sign(side) * a.qty < 0 THEN a.qty ELSE 0)
  IN  Lots(a.qty) - existing + Greater(0, Lots(n) - existing) > MaxLots

(* validate_order *)
(* Mutant: the breaker asks for an open position. *)
MutRiskRefuses(r, a, side, n, price) ==
  /\ ~PureClosing(a, side, n)
  /\ \/ r.breaker /\ a.qty # 0
     \/ AboveMarginCeiling(a, side, n, price)
     \/ AboveLots(a, side, n)

RiskRefuses(r, a, side, n, price) ==
  /\ ~PureClosing(a, side, n)
  /\ \/ r.breaker
     \/ AboveMarginCeiling(a, side, n, price)
     \/ AboveLots(a, side, n)
=============================================================================
