---------------------------- MODULE TrailingStop ----------------------------
(***************************************************************************)
(* The premium trailing stop of one option contract, PremiumTrailingStop   *)
(* of options/trailing_stop.py.  Prices are paise.                         *)
(*                                                                         *)
(* The code compares binary floats, and an equality between two sums of    *)
(* decimal prices may come out either way: 64.02 - 59.02 >= 5.0 is false.  *)
(* A comparison at an exact tie is therefore a choice, everything else is  *)
(* exact.                                                                  *)
(***************************************************************************)
EXTENDS Money

CONSTANTS
  Gap,       \* initial_gap
  Step,      \* trail_step
  Entries,   \* entry prices
  Prices,    \* prices passed to update; 0 is a legal Tick.ltp
  Times      \* timestamps passed to update

ASSUME StopAssumption ==
  /\ Gap \in Nat \ {0} /\ Step \in Nat \ {0}
  /\ Entries \subseteq Nat \ {0}
  /\ Prices \subseteq Nat
  /\ Times \subseteq Nat

VARIABLE stop
stopVars == <<stop>>

Stop == [side : {"BUY", "SELL"}, ratchet : BOOLEAN, entry : Nat \ {0},
         state : {"ARMED", "TRIGGERED", "CLOSED"},
         current : Int, peak : Nat \ {0}, price : Nat \ {0}, time : Nat]

(* A short position profits when its price falls: its peak is the lowest   *)
(* price seen and its stop is above the price.  A long one is the mirror.  *)
Better(side, x, y) == IF side = "SELL" THEN x < y ELSE x > y

(* The level `distance` on the losing side of a price. *)
Behind(side, price, distance) ==
  IF side = "SELL" THEN price + distance ELSE price - distance

Gain(side, entry, price) == IF side = "SELL" THEN entry - price ELSE price - entry

(* A stop armed at entry; a long stop is never below zero.                 *)
Armed(side, ratchet, entry, time) ==
  [ side    |-> side,
    ratchet |-> ratchet,
    entry   |-> entry,
    state   |-> "ARMED",
    current |-> Greater(0, Behind(side, entry, Gap)),
    peak    |-> entry,
    price   |-> entry,
    time    |-> time ]

(* update raises for a price of zero and for a time before the last one.   *)
(* Mutant: a price of zero is accepted. *)
MutRaises(s, price, time) == time < s.time

Raises(s, price, time) == price = 0 \/ time < s.time

(* Mutant: the peak is the last price, not the best one. *)
MutNewPeak(s, price) == price

NewPeak(s, price) == IF Better(s.side, price, s.peak) THEN price ELSE s.peak

(* floor(gain / trail_step) when the peak moves; an exact multiple may     *)
(* lose a step.  The number of steps is a function of the peak alone.      *)
(* Mutant: rounded up. *)
MutStepsTaken(s, peak) ==
  LET gain == Gain(s.side, s.entry, peak)
  IN  IF peak = s.peak THEN {0} ELSE {(gain + Step - 1) \div Step}

StepsTaken(s, peak) ==
  LET gain == Gain(s.side, s.entry, peak)
      n    == gain \div Step
  IN  IF peak = s.peak THEN {0}
      ELSE IF gain = n * Step THEN {n - 1, n} ELSE {n}

Candidate(s, n) == Behind(s.side, s.entry, Gap - n * Step)

(* The stop after n steps: in ratchet mode only if that tightens it.       *)
(* Mutant: ratchet mode replaces the stop without comparing. *)
MutRatcheted(s, n) == Candidate(s, n)

Ratcheted(s, n) ==
  IF n > 0 /\ (s.ratchet => Better(s.side, Candidate(s, n), s.current))
  THEN Candidate(s, n) ELSE s.current

-----------------------------------------------------------------------------
(* Operations on the stop.                                                 *)

(* update: the stop is breached, and keeps its level and its peak.         *)
Trigger(price, time) ==
  /\ stop.state = "ARMED" /\ ~Raises(stop, price, time)
  /\ ~Better(stop.side, price, stop.current)
  /\ stop' = [stop EXCEPT !.state = "TRIGGERED", !.price = price, !.time = time]

(* update: the stop holds, and may be tightened by a new peak.             *)
Hold(price, time) ==
  /\ stop.state = "ARMED" /\ ~Raises(stop, price, time)
  /\ ~Better(stop.side, stop.current, price)
  /\ \E n \in StepsTaken(stop, NewPeak(stop, price)) :
       stop' = [stop EXCEPT !.current = Ratcheted(stop, n),
                            !.peak    = NewPeak(stop, price),
                            !.price   = price,
                            !.time    = time]

(* update raises, or finds the stop triggered or closed already.           *)
Ignore(price, time) ==
  /\ stop.state # "ARMED" \/ Raises(stop, price, time)
  /\ UNCHANGED stop

Update(price, time) ==
  Trigger(price, time) \/ Hold(price, time) \/ Ignore(price, time)

Close == stop' = [stop EXCEPT !.state = "CLOSED"]

Init == \E side \in {"BUY", "SELL"}, ratchet \in BOOLEAN, entry \in Entries, time \in Times :
          stop = Armed(side, ratchet, entry, time)

Next == (\E price \in Prices, time \in Times : Update(price, time)) \/ Close

Spec == Init /\ [][Next]_stopVars

-----------------------------------------------------------------------------
(* Properties.                                                             *)

TypeOK == stop \in Stop

(* How far the stop is behind the best price seen. *)
Trail == Gain(stop.side, stop.current, stop.peak)

(* The stop trails the best price: never closer to it than the gap (but    *)
(* for the floor of a long stop at zero), never further than gap and step. *)
(* Ticks at an exact step may lose that step, never more.                  *)
StopTrailsPeak ==
  /\ Trail <= Gap + Step
  /\ Trail >= Gap \/ (stop.side = "BUY" /\ stop.current = 0)

(* While the stop is armed no observed price has gone beyond it, also      *)
(* after it was tightened by that very price; when it has triggered, the   *)
(* price that did so had reached it.                                       *)
StateMatchesPrice ==
  /\ stop.state = "ARMED" => ~Better(stop.side, stop.current, stop.price)
  /\ stop.state = "TRIGGERED" => ~Better(stop.side, stop.price, stop.current)

(* schema.py: "stop level ratchets favorably and never loosens", and time  *)
(* never runs back: a late tick can neither loosen nor trigger the stop.   *)
NeverLoosens ==
  [][/\ stop.ratchet => ~Better(stop.side, stop.current, stop'.current)
        \/ stop'.current = stop.current
     /\ stop'.time >= stop.time]_stopVars
=============================================================================
