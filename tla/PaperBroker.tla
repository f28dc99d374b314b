----------------------------- MODULE PaperBroker ----------------------------
(***************************************************************************)
(* The simulated execution venue, core/broker.py: orders and their state   *)
(* machine, the pre-trade margin gate, market and limit matching, average  *)
(* cost positions, cash and statutory charges.                             *)
(*                                                                         *)
(* Amounts are paise.  An order's id is its index in `orders`: the code    *)
(* keeps a dict, iterated in the order of creation.  A quote or a price    *)
(* of 0 stands for "absent" wherever the code tests a price for truth.     *)
(* Each public method is one action, but for on_tick: its loop over the    *)
(* resting orders fills one order per step (MatchNext) and no other method *)
(* runs until the loop is over (`matching` is empty), the broker being     *)
(* used by one thread at a time.                                           *)
(***************************************************************************)
EXTENDS CostSchedule, SequencesExt, OrderStates

CONSTANTS
  Symbols,          \* trading symbols
  InitialCapital,   \* paise
  MarginPct,        \* max_margin_utilization, in per cent (85)
  Instrument,       \* default_instrument, which sets the charges
  Quantities,       \* order and fill quantities
  LimitPrices,      \* limit prices of LIMIT orders
  Ticks,            \* last traded prices of ticks; 0 is a legal Tick.ltp
  Quotes,           \* bid/ask quotes, 0 when absent
  MarketPrices,     \* the caller's current_market_price, 0 when absent
  ExactPrices,      \* the caller's exact_fill_price, 0 when absent
  MaxOrders         \* bound: orders created in a behaviour

ASSUME BrokerAssumption ==
  /\ InitialCapital \in Nat
  /\ MarginPct \in 0 .. 100
  /\ Instrument \in InstrumentClass
  /\ Quantities \subseteq Nat \ {0}
  /\ LimitPrices \subseteq Nat \ {0}
  /\ Ticks \subseteq Nat
  /\ Quotes \subseteq Nat
  /\ MarketPrices \subseteq Nat
  /\ ExactPrices \subseteq Nat
  /\ MaxOrders \in Nat

VARIABLES
  cash,       \* cash_balance
  orders,     \* _orders, in the order of creation
  position,   \* _positions; a symbol never traded has the zero record
  trades,     \* _trades
  latest,     \* _latest_prices
  matching,   \* ids on_tick has still to fill, in increasing order
  (* History variables, for the properties only. *)
  flow,       \* flow[s]: cash received less cash paid for trades in s
  slack       \* slack[s]: twice the rounding error averages may carry

vars == <<cash, orders, position, trades, latest, matching, flow, slack>>

NoPrice == -1

Order == [symbol : Symbols, side : Side, type : {"MARKET", "LIMIT"},
          qty : Nat \ {0}, price : Nat, status : OrderStatus,
          filled : Nat, avg : Nat]
Position == [qty : Int, buyAvg : Nat, sellAvg : Nat,
             realized : Int, unrealized : Int]
Trade == [order : Nat \ {0}, symbol : Symbols, side : Side,
          qty : Nat \ {0}, price : Nat \ {0}, charges : Int]

Signed(side, k) == IF side = "BUY" THEN k ELSE -k
(* Mutant: a resting order is filled for its whole quantity again. *)
MutRemaining(o) == orders[o].qty
Remaining(o) == orders[o].qty - orders[o].filled

-----------------------------------------------------------------------------
(* Positions: average cost, realised and marked-to-market P&L.             *)

Book(p) == IF p.qty > 0 THEN p.qty * p.buyAvg ELSE p.qty * p.sellAvg

Unrealized(qty, buyAvg, sellAvg, price) ==
  IF qty > 0 THEN (price - buyAvg) * qty ELSE (sellAvg - price) * (-qty)

(* The units of a fill that close or reduce the existing position. *)
ClosedQty(p, side, k) ==
  IF side = "BUY" THEN (IF p.qty < 0 THEN Lesser(k, -p.qty) ELSE 0)
                  ELSE (IF p.qty > 0 THEN Lesser(k, p.qty) ELSE 0)

(* Adding to an existing position: the only fill that averages two prices. *)
Averaging(p, side, k) == p.qty # 0 /\ ClosedQty(p, side, k) = 0

RealizedDelta(p, side, k, price) ==
  LET closed == ClosedQty(p, side, k)
  IN  IF p.qty > 0 THEN (price - p.buyAvg) * closed
                   ELSE (p.sellAvg - price) * closed

(* The entry averages <<buy, sell>> a fill can leave behind. *)
(* Mutant: a reversal from short to long keeps the old long average. *)
MutBuyAverages(p, k, price) ==
  IF p.qty >= 0
  THEN { <<a, p.sellAvg>> : a \in Nearest(p.qty * p.buyAvg + k * price, p.qty + k) }
  ELSE IF p.qty + k = 0 THEN { <<0, 0>> }
  ELSE { <<p.buyAvg, p.sellAvg>> }

BuyAverages(p, k, price) ==
  IF p.qty >= 0
  THEN { <<a, p.sellAvg>> : a \in Nearest(p.qty * p.buyAvg + k * price, p.qty + k) }
  ELSE IF p.qty + k > 0 THEN { <<price, 0>> }
  ELSE IF p.qty + k = 0 THEN { <<0, 0>> }
  ELSE { <<p.buyAvg, p.sellAvg>> }

(* Mutant: abs() of the short quantity forgotten in the weighted average. *)
MutSellAverages(p, k, price) ==
  IF p.qty <= 0
  THEN { <<p.buyAvg, a>> : a \in Nearest(k * price + p.qty * p.sellAvg, k - p.qty) }
  ELSE { <<p.buyAvg, p.sellAvg>> }

SellAverages(p, k, price) ==
  IF p.qty <= 0
  THEN { <<p.buyAvg, a>> : a \in Nearest(k * price - p.qty * p.sellAvg, k - p.qty) }
  ELSE IF p.qty - k < 0 THEN { <<0, price>> }
  ELSE IF p.qty - k = 0 THEN { <<0, 0>> }
  ELSE { <<p.buyAvg, p.sellAvg>> }

Averages(p, side, k, price) ==
  IF side = "BUY" THEN BuyAverages(p, k, price) ELSE SellAverages(p, k, price)

(* _apply_trade_to_position, given the averages it rounds to. *)
PositionAfter(p, side, k, price, mark, averages) ==
  LET qty == p.qty + Signed(side, k)
  IN  [ qty        |-> qty,
        buyAvg     |-> averages[1],
        sellAvg    |-> averages[2],
        realized   |-> p.realized + RealizedDelta(p, side, k, price),
        unrealized |-> Unrealized(qty, averages[1], averages[2], mark) ]

-----------------------------------------------------------------------------
(* Account balance.                                                        *)

EntryPrice(p) == IF p.qty > 0 THEN p.buyAvg ELSE p.sellAvg

MarkPrice(s) ==
  IF latest[s] = NoPrice THEN EntryPrice(position[s]) ELSE latest[s]

UsedMargin == MapThenSumSet(LAMBDA s : Abs(position[s].qty) * MarkPrice(s), Symbols)

TotalCapital ==
  cash + MapThenSumSet(LAMBDA s : position[s].qty * MarkPrice(s), Symbols)

AvailableMargin ==
  Greater(0, RoundHalfEven(TotalCapital * MarginPct - UsedMargin * 100, 100))

-----------------------------------------------------------------------------
(* Fills.                                                                  *)

(* Slippage, then the clamp: a limit order never fills worse than its      *)
(* limit.  An exact price given by the caller replaces the slippage.       *)
(* Mutant of it: an exact price is taken as it is, before the clamp. *)
MutFillPrice(ord, raw, exact) ==
  IF exact # 0 THEN exact
  ELSE IF ord.type = "LIMIT" THEN ord.price ELSE SlippedPrice(raw, ord.side)

FillPrice(ord, raw, exact) ==
  LET price == IF exact # 0 THEN exact ELSE SlippedPrice(raw, ord.side)
  IN  IF ord.type = "LIMIT"
      THEN IF ord.side = "BUY" THEN Lesser(price, ord.price)
                               ELSE Greater(price, ord.price)
      ELSE price

(* What a fill does to cash. *)
(* Mutant: the proceeds of a sale are credited free of charges. *)
MutSettlement(side, k, price, fee) ==
  IF side = "BUY" THEN -(k * price + fee) ELSE k * price

Settlement(side, k, price, fee) ==
  IF side = "BUY" THEN -(k * price + fee) ELSE k * price - fee

(* _execute_fill of k units of order o, whose state just before the fill   *)
(* is `ord` (Submit fills an order it has only just moved to SUBMITTED).   *)
ExecuteFill(o, ord, k, price) ==
  LET s      == ord.symbol
      p      == position[s]
      gain   == -Signed(ord.side, k) * price
      fee    == TotalCharges(ord.side, k, price, Instrument)
      filled == ord.filled + k
      mark   == IF latest[s] = NoPrice THEN price ELSE latest[s]
  IN  /\ trades' = Append(trades,
           [order |-> o, symbol |-> s, side |-> ord.side,
            qty |-> k, price |-> price, charges |-> fee])
      /\ \E averages \in Averages(p, ord.side, k, price) :
           position' = [position EXCEPT ![s] =
                          PositionAfter(p, ord.side, k, price, mark, averages)]
      /\ cash' = cash + Settlement(ord.side, k, price, fee)
      /\ \E avg \in Nearest(ord.avg * ord.filled + price * k, filled) :
           orders' = [orders EXCEPT ![o] =
             [ord EXCEPT !.filled = filled,
                         !.avg    = avg,
                         !.status = IF filled = ord.qty THEN "FILLED"
                                                        ELSE "PARTIALLY_FILLED"]]
      /\ flow' = [flow EXCEPT ![s] = @ + gain]
      /\ slack' = [slack EXCEPT ![s] =
                     IF Averaging(p, ord.side, k) THEN @ + Abs(p.qty + Signed(ord.side, k))
                                                ELSE @]

NoFill == UNCHANGED <<cash, position, trades, flow, slack>>

-----------------------------------------------------------------------------
(* Operations.                                                             *)

Init ==
  /\ cash = InitialCapital
  /\ orders = <<>>
  /\ position = [s \in Symbols |-> [qty |-> 0, buyAvg |-> 0, sellAvg |-> 0,
                                   realized |-> 0, unrealized |-> 0]]
  /\ trades = <<>>
  /\ latest = [s \in Symbols |-> NoPrice]
  /\ matching = {}
  /\ flow = [s \in Symbols |-> 0]
  /\ slack = [s \in Symbols |-> 0]

(* create_order: an order in CREATED, priced only if it is a LIMIT order.  *)
CreateOrder(symbol, side, type, qty, price) ==
  /\ matching = {}
  /\ Len(orders) < MaxOrders
  /\ (type = "LIMIT") = (price > 0)
  /\ orders' = Append(orders,
       [symbol |-> symbol, side |-> side, type |-> type, qty |-> qty,
        price |-> price, status |-> "CREATED", filled |-> 0, avg |-> 0])
  /\ NoFill /\ UNCHANGED <<latest, matching>>

(* The price an order is compared with, or fills at if it is a MARKET      *)
(* order: BUY against the ask, SELL against the bid, else the last price.  *)
QuotedPrice(side, bid, ask, last) ==
  IF side = "BUY" THEN (IF ask > 0 THEN ask ELSE last)
                  ELSE (IF bid > 0 THEN bid ELSE last)

Executable(ord, price) ==
  IF ord.side = "BUY" THEN price <= ord.price ELSE price >= ord.price

(* current_market_price or _latest_prices.get(symbol) *)
MarketPrice(s, quoted) == IF quoted # 0 THEN quoted ELSE latest[s]

EstimatedPrice(ord, market) == IF ord.type = "LIMIT" THEN ord.price ELSE market

(* The margin gate looks only at the part of the order that does not close *)
(* an existing position.                                                   *)
(* Mutant: the whole order counts as new exposure. *)
MutNetNewQty(ord) == ord.qty

NetNewQty(ord) ==
  ord.qty - ClosedQty(position[ord.symbol], ord.side, ord.qty)

Refused(ord, estimate) ==
  \/ estimate = NoPrice
  \/ NetNewQty(ord) > 0 /\ NetNewQty(ord) * estimate > AvailableMargin

(* What an admitted order is filled at, or 0 when it is not filled now: a  *)
(* LIMIT order that does not cross, or a fill whose price is 0 and makes   *)
(* the Trade's validation raise after the order was stored as SUBMITTED.   *)
ImmediatePrice(ord, market, bid, ask, exact) ==
  LET quote == QuotedPrice(ord.side, bid, ask, market)
  IN  IF market = NoPrice THEN 0
      ELSE IF ord.type = "MARKET" THEN FillPrice(ord, quote, exact)
      ELSE IF Executable(ord, quote) THEN FillPrice(ord, ord.price, exact)
      ELSE 0

(* Tick's validator: a bid never exceeds the ask. *)
ValidQuote(bid, ask) == bid > 0 /\ ask > 0 => bid <= ask

(* submit_order.  Its callers pass the order create_order returned, once.  *)
SubmitOrder(o, quoted, bid, ask, exact) ==
  LET ord       == orders[o]
      market    == MarketPrice(ord.symbol, quoted)
      submitted == [ord EXCEPT !.status = "SUBMITTED"]
      price     == ImmediatePrice(ord, market, bid, ask, exact)
  IN  /\ matching = {}
      /\ ord.status = "CREATED"
      /\ ValidQuote(bid, ask)
      /\ \/ /\ Refused(ord, EstimatedPrice(ord, market))
            /\ orders' = [orders EXCEPT ![o].status = "REJECTED"]
            /\ NoFill
         \/ /\ ~Refused(ord, EstimatedPrice(ord, market))
            /\ price = 0
            /\ orders' = [orders EXCEPT ![o] = submitted]
            /\ NoFill
         \/ /\ ~Refused(ord, EstimatedPrice(ord, market))
            /\ price > 0
            /\ ExecuteFill(o, submitted, ord.qty, price)
      /\ UNCHANGED <<latest, matching>>

(* cancel_order: raises, changing nothing, unless the order is open.       *)
CancelOrder(o) ==
  /\ matching = {}
  /\ CanTransition(orders[o].status, "CANCELLED")
  /\ orders' = [orders EXCEPT ![o].status = "CANCELLED"]
  /\ NoFill /\ UNCHANGED <<latest, matching>>

(* fill_order: an explicit, possibly partial fill of an open order.        *)
FillOrder(o, k, raw) ==
  /\ matching = {}
  /\ orders[o].status \in Open
  /\ k <= Remaining(o)
  /\ FillPrice(orders[o], raw, 0) > 0
  /\ ExecuteFill(o, orders[o], k, FillPrice(orders[o], raw, 0))
  /\ UNCHANGED <<latest, matching>>

(* on_tick: record the price, mark the position to it, and collect the     *)
(* resting limit orders it executes.                                       *)
(* Mutant of it: cancelled orders are matched too. *)
MutMatches(s, ltp, bid, ask) ==
  { o \in DOMAIN orders :
      /\ orders[o].symbol = s
      /\ orders[o].status \in Open \cup {"CANCELLED"}
      /\ orders[o].type = "LIMIT"
      /\ Executable(orders[o], QuotedPrice(orders[o].side, bid, ask, ltp))
      /\ Remaining(o) > 0 }

Matches(s, ltp, bid, ask) ==
  { o \in DOMAIN orders :
      /\ orders[o].symbol = s
      /\ orders[o].status \in Open
      /\ orders[o].type = "LIMIT"
      /\ Executable(orders[o], QuotedPrice(orders[o].side, bid, ask, ltp))
      /\ Remaining(o) > 0 }

(* Mutant: only long positions are marked. *)
MutMarked(p, ltp) ==
  IF p.qty <= 0 THEN p
  ELSE [p EXCEPT !.unrealized = Unrealized(p.qty, p.buyAvg, p.sellAvg, ltp)]

Marked(p, ltp) ==
  IF p.qty = 0 THEN p
  ELSE [p EXCEPT !.unrealized = Unrealized(p.qty, p.buyAvg, p.sellAvg, ltp)]

OnTick(s, ltp, bid, ask) ==
  /\ matching = {}
  /\ ValidQuote(bid, ask)
  /\ latest' = [latest EXCEPT ![s] = ltp]
  /\ position' = [position EXCEPT ![s] = Marked(@, ltp)]
  /\ matching' = Matches(s, ltp, bid, ask)
  /\ UNCHANGED <<cash, orders, trades, flow, slack>>

(* One turn of on_tick's loop: the whole remainder, at the limit price.    *)
MatchNext(o) ==
  /\ o \in matching
  /\ \A other \in matching : o <= other
  /\ ExecuteFill(o, orders[o], Remaining(o), FillPrice(orders[o], orders[o].price, 0))
  /\ matching' = matching \ {o}
  /\ UNCHANGED latest

Next ==
  \/ \E symbol \in Symbols, side \in Side, type \in {"MARKET", "LIMIT"},
        qty \in Quantities, price \in LimitPrices \cup {0} :
       CreateOrder(symbol, side, type, qty, price)
  \/ \E o \in DOMAIN orders :
       \/ \E quoted \in MarketPrices, bid, ask \in Quotes, exact \in ExactPrices :
            SubmitOrder(o, quoted, bid, ask, exact)
       \/ CancelOrder(o)
       \/ \E k \in Quantities, raw \in Ticks : FillOrder(o, k, raw)
       \/ MatchNext(o)
  \/ \E s \in Symbols, ltp \in Ticks, bid, ask \in Quotes : OnTick(s, ltp, bid, ask)

Spec == Init /\ [][Next]_vars

-----------------------------------------------------------------------------
(* Properties.                                                             *)

TypeOK ==
  /\ cash \in Int
  /\ orders \in Seq(Order)
  /\ position \in [Symbols -> Position]
  /\ trades \in Seq(Trade)
  /\ latest \in [Symbols -> Nat \cup {NoPrice}]
  /\ matching \subseteq DOMAIN orders
  /\ flow \in [Symbols -> Int]
  /\ slack \in [Symbols -> Nat]

(* The trades, replayed: what each added to the filled quantity of order o,*)
(* to the position in symbol s and to cash.                                *)
Total(s) == FoldLeft(+, 0, s)
FillsOf(o) ==
  [t \in DOMAIN trades |-> IF trades[t].order = o THEN trades[t].qty ELSE 0]
MovesOf(s) ==
  [t \in DOMAIN trades |->
     IF trades[t].symbol = s THEN Signed(trades[t].side, trades[t].qty) ELSE 0]
CashFlows ==
  [t \in DOMAIN trades |->
     -Signed(trades[t].side, trades[t].qty) * trades[t].price - trades[t].charges]

(* The order book, the trade tape and the positions tell one story: an     *)
(* order's filled quantity is what its trades add up to, it is FILLED      *)
(* exactly when nothing remains, and a position is the signed sum of the   *)
(* trades in its symbol (_execute_fill updates the three one by one).      *)
FillsMatchTrades ==
  /\ \A o \in DOMAIN orders :
       /\ orders[o].filled = Total(FillsOf(o))
       /\ orders[o].filled <= orders[o].qty
       /\ orders[o].filled = orders[o].qty <=> orders[o].status = "FILLED"
       /\ orders[o].status = "PARTIALLY_FILLED" => orders[o].filled > 0
       /\ orders[o].status \in {"CREATED", "SUBMITTED", "REJECTED"} => orders[o].filled = 0
  /\ \A s \in Symbols : position[s].qty = Total(MovesOf(s))

(* A LIMIT order never fills worse than its limit, whatever the slippage,  *)
(* the quote or the explicit price of the fill (ARCHITECTURE.md, Exchange  *)
(* Limit Clamping).                                                        *)
LimitNeverWorse ==
  \A t \in DOMAIN trades :
    LET ord == orders[trades[t].order]
    IN  ord.type = "LIMIT" =>
          IF ord.side = "BUY" THEN trades[t].price <= ord.price
                              ELSE trades[t].price >= ord.price

(* The books balance: what the trades of a symbol brought in, plus its     *)
(* position at book value, is its realised P&L, up to the half paisa per   *)
(* unit that each averaging of two entry prices may have rounded away.     *)
LedgerReconciles ==
  \A s \in Symbols :
    2 * Abs(flow[s] + Book(position[s]) - position[s].realized) <= slack[s]

(* Cash is the initial capital plus what all trades brought in less the    *)
(* charges of every trade, to the paisa.                                   *)
CashReconciles == cash = InitialCapital + Total(CashFlows)

(* Once a symbol has a last price, the P&L the account reports for it,     *)
(* realised plus unrealised, is what its trades and its position at that   *)
(* price are worth: the stored mark is never stale.                        *)
MarkedPnLReconciles ==
  \A s \in Symbols : latest[s] # NoPrice =>
    LET p == position[s]
    IN  2 * Abs(flow[s] + p.qty * latest[s] - (p.realized + p.unrealized)) <= slack[s]

(* Liquidation is always possible: an order that only closes or reduces a  *)
(* position is never refused, whatever the margin, as long as a price is   *)
(* known for the symbol.                                                   *)
CloseNeverRefused ==
  [][\A o \in DOMAIN orders :
       LET ord == orders[o]
           net == position[ord.symbol].qty
           closes == /\ Signed(ord.side, 1) * net < 0
                     /\ ord.qty <= Abs(net)
       IN  closes /\ latest[ord.symbol] # NoPrice /\ ord.status = "CREATED"
             => orders'[o].status # "REJECTED"]_vars

(* The broker implements the order lifecycle and conserves positions.      *)
Lifecycle == INSTANCE OrderLifecycle WITH
  book <- [o \in DOMAIN orders |->
             [symbol |-> orders[o].symbol, side |-> orders[o].side,
              qty |-> orders[o].qty, status |-> orders[o].status,
              filled |-> orders[o].filled]],
  net  <- [s \in Symbols |-> position[s].qty]

ImplementsLifecycle == Lifecycle!Spec
=============================================================================
