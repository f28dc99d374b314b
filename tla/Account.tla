------------------------------- MODULE Account -------------------------------
(***************************************************************************)
(* The paper broker as the strategy runners use it: one symbol, market     *)
(* orders that fill whole at once or are refused, cash settled at the fill *)
(* (core/broker.py; PaperBroker models books, partial fills and rounding). *)
(* An account is a record of its cash, its signed quantity and the last    *)
(* price the broker has seen.  Amounts are whole units of money; Fee is    *)
(* the statutory charge of one fill, CostSchedule has the schedule.        *)
(***************************************************************************)
EXTENDS Money

CONSTANTS
  Capital,         \* initial_capital
  Fee,             \* total charges of one fill
  MaxUtilization   \* max_margin_utilization, in percent

ASSUME AccountAssumption ==
  Capital \in Nat /\ Fee \in Nat /\ MaxUtilization \in 0 .. 100

Account == [cash : Int, qty : Int, mark : Nat]
Opening == [cash |-> Capital, qty |-> 0, mark |-> 0]

Sign(side) == IF side = "BUY" THEN 1 ELSE -1
CloseSide(qty) == IF qty > 0 THEN "SELL" ELSE "BUY"

TotalCapital(a) == a.cash + a.qty * a.mark
UsedMargin(a) == Abs(a.qty) * a.mark

(* In hundredths, to stay whole. *)
AvailableMargin(a) ==
  Greater(0, TotalCapital(a) * MaxUtilization - 100 * UsedMargin(a))

(* The part of an order that meets an opposite position only closes it. *)
ClosingQty(a, side, n) ==
  IF Sign(side) * a.qty < 0 THEN Lesser(n, Abs(a.qty)) ELSE 0
NetNewQty(a, side, n) == n - ClosingQty(a, side, n)

(* "Insufficient available margin" *)
BrokerRefuses(a, side, n, price) ==
  100 * (NetNewQty(a, side, n) * price) > AvailableMargin(a)

Filled(a, side, n, price) ==
  [a EXCEPT !.qty  = @ + Sign(side) * n,
            !.cash = @ - Sign(side) * n * price - Fee]

Marked(a, price) == [a EXCEPT !.mark = price]
=============================================================================
