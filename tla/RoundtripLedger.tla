--------------------------- MODULE RoundtripLedger ---------------------------
(***************************************************************************)
(* The trade ledger of a backtest, BacktestRunner._build_roundtrip_trades: *)
(* the broker's fills, in order, matched first in first out into roundtrips*)
(* whose costs are shared out by quantity, the last share by subtraction.  *)
(* A fill or lot carries a record of costs, each shared out by itself; the *)
(* code's STT and charges are one component here, slippage is the other.   *)
(***************************************************************************)
EXTENDS Money, SequencesExt

(* The share of n units out of q; float ratios round as the exact ones do. *)
Share(costs, n, q) == [c \in DOMAIN costs |-> RoundHalfEven(costs[c] * n, q)]
Less(costs, part) == [c \in DOMAIN costs |-> costs[c] - part[c]]
Plus(costs, part) == [c \in DOMAIN costs |-> costs[c] + part[c]]
CostOf(costs) == costs.charges + costs.slippage

Empty == [long |-> <<>>, short |-> <<>>, closed |-> <<>>]

(* Fill t takes what it can from the oldest lot.  `rest` is what is left of*)
(* the fill's costs, `kept` the lots that remain.                          *)
(* Mutant: a lot that is cut keeps its whole costs. *)
MutMatch(t, m, lot) ==
  LET n     == Lesser(m.left, lot.qty)
      ofT   == IF n = m.left THEN m.rest ELSE Share(t.costs, n, t.qty)
      ofLot == Share(lot.costs, n, lot.qty)
      gross == (IF t.side = "BUY" THEN lot.price - t.price ELSE t.price - lot.price) * n
  IN  IF n = 0
      THEN [m EXCEPT !.kept = Append(@, lot)]
      ELSE [left   |-> m.left - n,
            rest   |-> Less(m.rest, ofT),
            kept   |-> IF n = lot.qty THEN m.kept
                       ELSE Append(m.kept, [lot EXCEPT !.qty = @ - n]),
            closed |-> Append(m.closed, [gross |-> gross, costs |-> Plus(ofT, ofLot)])]

Match(t, m, lot) ==
  LET n     == Lesser(m.left, lot.qty)
      ofT   == IF n = m.left THEN m.rest ELSE Share(t.costs, n, t.qty)
      ofLot == IF n = lot.qty THEN lot.costs ELSE Share(lot.costs, n, lot.qty)
      gross == (IF t.side = "BUY" THEN lot.price - t.price ELSE t.price - lot.price) * n
  IN  IF n = 0
      THEN [m EXCEPT !.kept = Append(@, lot)]
      ELSE [left   |-> m.left - n,
            rest   |-> Less(m.rest, ofT),
            kept   |-> IF n = lot.qty THEN m.kept
                       ELSE Append(m.kept, [lot EXCEPT !.qty = @ - n,
                                                       !.costs = Less(@, ofLot)]),
            closed |-> Append(m.closed, [gross |-> gross, costs |-> Plus(ofT, ofLot)])]

(* Fill t against the lots, from the oldest on. *)
Matched(t, closed, lots) ==
  FoldLeft(LAMBDA acc, lot : Match(t, acc, lot),
           [left |-> t.qty, rest |-> t.costs, kept |-> <<>>, closed |-> closed], lots)

(* A fill first closes the opposite lots, and what is left of it is a lot. *)
Booked(ledger, t) ==
  LET opposite == IF t.side = "BUY" THEN ledger.short ELSE ledger.long
      own == IF t.side = "BUY" THEN ledger.long ELSE ledger.short
      m == Matched(t, ledger.closed, opposite)
      opened == IF m.left = 0 THEN own
                ELSE Append(own, [qty |-> m.left, price |-> t.price, costs |-> m.rest])
  IN  IF t.side = "BUY"
      THEN [long |-> opened, short |-> m.kept, closed |-> m.closed]
      ELSE [long |-> m.kept, short |-> opened, closed |-> m.closed]

LedgerOf(trades) == FoldLeft(Booked, Empty, trades)

Total(s) == FoldLeft(+, 0, s)
Sum(Value(_), s) == Total([i \in DOMAIN s |-> Value(s[i])])
=============================================================================
