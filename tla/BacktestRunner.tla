---------------------------- MODULE BacktestRunner ----------------------------
(***************************************************************************)
(* A backtest, BacktestRunner.run: for each bar of a data set the signal of*)
(* the bar before is filled at the open, the account is marked at the      *)
(* close, the strategy decides, and past 15:15 an intraday run squares off.*)
(* At the end the fills become the roundtrip ledger.  The runner is one    *)
(* thread; its steps within a bar are named by `phase`.                    *)
(*                                                                         *)
(* A bar is its prices, the quantity its volume lets an order have, whether*)
(* it is past the cutoff and whether it starts a date.  The strategy's     *)
(* conditions are a free choice at each bar.                               *)
(***************************************************************************)
EXTENDS RiskEngine, RoundtripLedger

CONSTANTS
  Configs,  \* BacktestConfig, with the strategy's timeframe
  Qty,      \* trade_lots
  Candles,  \* prices of a bar, and the quantity its volume allows
  Spread,   \* SlippageModel: distance of a fill from the price
  MaxBars   \* bound on the data set

ASSUME BacktestAssumption ==
  /\ Configs \subseteq [intraday : BOOLEAN, squareOff : BOOLEAN, sameBar : BOOLEAN,
                        partial : BOOLEAN, strict : BOOLEAN]
  /\ Qty \in Nat \ {0} /\ Spread \in Nat /\ MaxBars \in Nat /\ Candles # {}
  /\ \A c \in Candles : /\ {c.open, c.close, c.high, c.low, c.allowed} \subseteq Nat
                        /\ c.low <= Lesser(c.open, c.close)
                        /\ Greater(c.open, c.close) <= c.high

VARIABLES
  config,   \* self.config
  phase,    \* the step of the loop body to come
  bars,     \* bars taken from the data set
  candle,   \* bar: its prices and volume
  late,     \* bar: it is 15:15 or later
  date,     \* current_session_date: dates seen
  pending,  \* pending_signal: its side, bar and date
  flag,     \* the strategy's _position_active
  account,  \* the broker
  risk,     \* the risk engine
  trades,   \* the broker's trades, each with its signal's delay in bars and dates
  ledger,   \* the roundtrip trades and the lots still open
  (* History. *)
  truncated \* an order was cut to what the volume allows

Position == <<flag, account, trades, truncated>>
Calendar == <<bars, candle, late, date>>
vars == <<config, phase, Calendar, pending, Position, risk, ledger>>

Order(s) == [side |-> s, bar |-> bars, date |-> date]
NoSignal == [side |-> "none", bar |-> 0, date |-> 0]

Init ==
  /\ config \in Configs
  /\ phase = "next" /\ bars = 0 /\ date = 0 /\ late = FALSE
  /\ candle = CHOOSE c \in Candles : TRUE
  /\ pending = NoSignal /\ flag = FALSE
  /\ account = Opening /\ risk = Fresh
  /\ trades = <<>> /\ ledger = Empty /\ truncated = FALSE

-----------------------------------------------------------------------------
(* Mutant: a staged signal outlives its session. *)
MutCancels(newDate) == FALSE

Cancels(newDate) == newDate /\ config.intraday

(* The first bar starts a date; the hour does not go back within one. *)
NextBar(c, isLate, newDate) ==
  /\ phase = "next" /\ bars < MaxBars
  /\ bars = 0 => newDate
  /\ late /\ ~newDate => isLate
  /\ bars' = bars + 1 /\ candle' = c /\ late' = isLate
  /\ date' = IF newDate THEN date + 1 ELSE date
  /\ pending' = IF Cancels(newDate) THEN NoSignal ELSE pending
  /\ risk' = IF newDate THEN SessionStarted(TotalCapital(account)) ELSE risk
  /\ phase' = "fill"
  /\ UNCHANGED <<config, Position, ledger>>

-----------------------------------------------------------------------------
(* _process_signal_execution                                               *)

OrderQty == Lesser(Qty, candle.allowed)
Starved == candle.allowed < Qty /\ (~config.partial \/ candle.allowed = 0)

RawPrice(side, price) == price + Sign(side) * Spread
Breach(side, price) ==
  \/ side = "BUY" /\ RawPrice(side, price) > candle.high
  \/ side = "SELL" /\ RawPrice(side, price) < candle.low
Effective(side, price) == Lesser(Greater(RawPrice(side, price), candle.low), candle.high)

(* Volume, envelope, risk engine at the fill's price, broker at the bar's. *)
Refused(side, price) ==
  \/ Starved
  \/ config.strict /\ Breach(side, price)
  \/ RiskRefuses(risk, account, side, OrderQty, Effective(side, price))
  \/ BrokerRefuses(account, side, OrderQty, price)

Trade(order, n, price, slip) ==
  [side |-> order.side, qty |-> n, price |-> price,
   costs |-> [charges |-> Fee, slippage |-> slip],
   delay |-> bars - order.bar, overnight |-> date # order.date]

(* A refusal, and a fill of whatever side, are told to the strategy. *)
Execute(order, price) ==
  \/ /\ Refused(order.side, price)
     /\ flag' = FALSE
     /\ UNCHANGED <<account, trades, truncated>>
  \/ /\ ~Refused(order.side, price)
     /\ LET at == Effective(order.side, price)
        IN  /\ account' = Filled(account, order.side, OrderQty, at)
            /\ trades' = Append(trades, Trade(order, OrderQty, at, Abs(at - price)))
     /\ truncated' = (truncated \/ OrderQty < Qty)
     /\ flag' = TRUE

(* 1. The signal of the bar before, at this bar's open. *)
FillPending ==
  /\ phase = "fill"
  /\ IF pending = NoSignal
     THEN UNCHANGED Position
     ELSE Execute(pending, candle.open)
  /\ pending' = NoSignal
  /\ phase' = "mark"
  /\ UNCHANGED <<config, Calendar, risk, ledger>>

(* 2. on_tick and update_equity at the close. *)
Mark ==
  /\ phase = "mark"
  /\ account' = Marked(account, candle.close)
  /\ risk' = EquityUpdated(risk, TotalCapital(account'))
  /\ phase' = "evaluate"
  /\ UNCHANGED <<config, Calendar, pending, flag, trades, truncated, ledger>>

(* Mutant: the strategy's own flag. *)
MutActive == flag

Cutoff == config.intraday /\ config.squareOff /\ late
Active == account.qty # 0

(* 3. The strategy sees the broker's position: out of one it may enter, in *)
(* one, of whatever sign, it may exit, and its flag follows the signal.    *)
Evaluate(signals) ==
  /\ phase = "evaluate"
  /\ signals => ~Cutoff
  /\ phase' = "sweep"
  /\ LET order == Order(IF Active THEN "SELL" ELSE "BUY")
     IN  \/ /\ ~signals
            /\ flag' = Active
            /\ UNCHANGED <<pending, account, trades, truncated>>
         \/ /\ signals /\ ~config.sameBar
            /\ pending' = order
            /\ flag' = ~Active
            /\ UNCHANGED <<account, trades, truncated>>
         \/ /\ signals /\ config.sameBar
            /\ Execute(order, candle.close)
            /\ UNCHANGED pending
  /\ UNCHANGED <<config, Calendar, risk, ledger>>

(* 4. Past the cutoff nothing stays pending, and the position is closed at *)
(* the close, past every gate of _process_signal_execution.                *)
SquareOff ==
  LET order == Order(CloseSide(account.qty))
      n     == Abs(account.qty)
  IN  /\ account' = Filled(account, order.side, n, candle.close)
      /\ trades'  = Append(trades, Trade(order, n, candle.close, 0))
      /\ flag'    = FALSE
      /\ UNCHANGED truncated

Sweep ==
  /\ phase = "sweep"
  /\ IF Cutoff /\ account.qty # 0 THEN SquareOff ELSE UNCHANGED Position
  /\ pending' = IF Cutoff THEN NoSignal ELSE pending
  /\ phase' = "next"
  /\ UNCHANGED <<config, Calendar, risk, ledger>>

(* The data set ends: a staged signal is dropped, a position stays open.   *)
Finish ==
  /\ phase = "next" /\ bars > 0
  /\ pending' = NoSignal
  /\ ledger' = LedgerOf(trades)
  /\ phase' = "done"
  /\ UNCHANGED <<config, Calendar, Position, risk>>

Next ==
  \/ \E c \in Candles, isLate, newDate \in BOOLEAN : NextBar(c, isLate, newDate)
  \/ FillPending \/ Mark \/ Sweep \/ Finish
  \/ \E signals \in BOOLEAN : Evaluate(signals)

Spec == Init /\ [][Next]_vars
-----------------------------------------------------------------------------
(* The runner trades long only, one order at a time and never adds to a    *)
(* position -- unless an order was cut to the volume of its bar: the exit  *)
(* is of the full size again, and goes short.                              *)
LongUnlessTruncated == ~truncated => account.qty \in {0, Qty}

(* Sessions of an intraday run are separate: a signal is filled at the very*)
(* next open, of the same date, or never; and a bar past the cutoff leaves *)
(* no position, no signal and no flag behind.                              *)
SessionsSeparate ==
  /\ \A i \in DOMAIN trades :
       /\ trades[i].delay <= 1
       /\ config.intraday => ~trades[i].overnight
  /\ config.intraday /\ config.squareOff /\ late /\ phase = "next"
     => account.qty = 0 /\ pending = NoSignal /\ ~flag

OpenProfit(lots) == Sum(LAMBDA lot : lot.qty * (account.mark - lot.price), lots)
Costs(component, s) == Sum(LAMBDA x : x.costs[component], s)
Units(lots) == Sum(LAMBDA lot : lot.qty, lots)
Attributed(component) ==
  Costs(component, ledger.closed) + Costs(component, ledger.long) + Costs(component, ledger.short)
Gross ==
  Sum(LAMBDA rt : rt.gross, ledger.closed) + OpenProfit(ledger.long) - OpenProfit(ledger.short)
NetProfit == TotalCapital(account) - Capital

(* The ledger and the broker, which keep books of their own, agree: on the *)
(* open quantity, on the profit before slippage is charged a second time,  *)
(* and every paisa of costs is attributed once.                            *)
LedgerReconciles ==
  phase = "done"
  =>
  /\ Units(ledger.long) - Units(ledger.short) = account.qty
  /\ ledger.long = <<>> \/ ledger.short = <<>>
  /\ Attributed("slippage") = Costs("slippage", trades)
  /\ Gross - Attributed("charges") = NetProfit

(* "Net Profit = Realized Roundtrip PnL + Terminal Unrealized PnL - Open   *)
(* Position Charges" (verification/reconciliation.py:7), with the net_pnl  *)
(* of the closed roundtrips, which pays for slippage in its prices and     *)
(* again among its fees.                                                   *)
NetProfitAccretion ==
  phase = "done"
  =>
  NetProfit = Sum(LAMBDA rt : rt.gross - CostOf(rt.costs), ledger.closed)
                + OpenProfit(ledger.long) - OpenProfit(ledger.short)
                - Costs("charges", ledger.long \o ledger.short)
=============================================================================
