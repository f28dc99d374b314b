------------------------- MODULE TrailingStopProofs -------------------------
(***************************************************************************)
(* Theorems about TrailingStop for every gap, step, entry price and        *)
(* sequence of updates, on both sides of the market and whichever way the  *)
(* ties of its float comparisons fall.                                     *)
(***************************************************************************)
EXTENDS TrailingStop, TLAPS

(* The steps counted for a gain: one may be lost at an exact multiple.     *)
LEMMA StepsBound ==
  ASSUME NEW gain \in Nat, NEW n \in {gain \div Step, (gain \div Step) - 1},
         n = (gain \div Step) - 1 => gain = (gain \div Step) * Step
  PROVE  /\ n \in Int /\ n * Step \in Int
         /\ n * Step <= gain
         /\ gain <= n * Step + Step
<1>1. Step \in Nat \ {0}
  BY StopAssumption
<1> DEFINE q == gain \div Step
<1>2. q \in Int /\ q * Step <= gain /\ gain < q * Step + Step
  BY <1>1, gain = Step * (gain \div Step) + (gain % Step),
     gain % Step \in 0 .. Step - 1, SMT
<1> HIDE DEF q
<1>3. (q - 1) * Step = q * Step - Step
  BY <1>1, <1>2, SMT
<1>4. q * Step \in Int
  BY <1>1, <1>2
<1>5. CASE n = q
  BY <1>1, <1>2, <1>4, <1>5
<1>6. CASE n = q - 1
  <2>1. gain = q * Step
    BY <1>6 DEF q
  <2> QED BY <1>1, <1>2, <1>3, <1>4, <1>6, <2>1
<1> QED BY <1>5, <1>6 DEF q

(* What makes the three invariants inductive: the peak is never worse than *)
(* the entry, nor the stop further from the entry than the gap.  Without   *)
(* the second a gain below one step could leave the stop too far behind.   *)
EntryInv ==
  /\ Gain(stop.side, stop.entry, stop.peak) >= 0
  /\ Gain(stop.side, stop.current, stop.entry) <= Gap

IInv == TypeOK /\ StopTrailsPeak /\ StateMatchesPrice /\ EntryInv

LEMMA InitEstablishes == Init => IInv
<1> SUFFICES ASSUME NEW side \in {"BUY", "SELL"}, NEW ratchet \in BOOLEAN,
                    NEW entry \in Entries, NEW time \in Times,
                    stop = Armed(side, ratchet, entry, time)
             PROVE  IInv
  BY DEF Init
<1>1. entry \in Nat \ {0} /\ time \in Nat /\ Gap \in Nat \ {0} /\ Step \in Nat \ {0}
  BY StopAssumption
<1>2. /\ stop.side = side /\ stop.ratchet = ratchet /\ stop.entry = entry
      /\ stop.state = "ARMED" /\ stop.peak = entry /\ stop.price = entry
      /\ stop.time = time
      /\ stop.current = Greater(0, Behind(side, entry, Gap))
  BY DEF Armed
<1>3. stop.current \in Int
  BY <1>1, <1>2, SMT DEF Greater, Behind
<1>4. TypeOK
  BY <1>1, <1>2, <1>3 DEF TypeOK, Stop, Armed
<1>5. StopTrailsPeak /\ StateMatchesPrice /\ EntryInv
  <2>1. CASE side = "SELL"
    BY <1>1, <1>2, <2>1, SMT DEF StopTrailsPeak, StateMatchesPrice, EntryInv, Trail,
                                 Gain, Greater, Behind, Better
  <2>2. CASE side = "BUY"
    BY <1>1, <1>2, <2>2, SMT DEF StopTrailsPeak, StateMatchesPrice, EntryInv, Trail,
                                 Gain, Greater, Behind, Better
  <2> QED BY <2>1, <2>2
<1> QED BY <1>4, <1>5 DEF IInv

(* The level a new peak of an armed stop leads to.                         *)
LEMMA RatchetStep ==
  ASSUME IInv, NEW price \in Nat \ {0},
         Better(stop.side, price, stop.peak),
         NEW n \in StepsTaken(stop, price)
  PROVE  LET level == Ratcheted(stop, n)
             trail == Gain(stop.side, level, price)
         IN  /\ level \in Int
             /\ trail <= Gap + Step
             /\ trail >= Gap \/ (stop.side = "BUY" /\ level = 0)
             /\ stop.ratchet => level = stop.current \/ Better(stop.side, level, stop.current)
             /\ ~Better(stop.side, level, price)
             /\ Gain(stop.side, level, stop.entry) <= Gap
<1> DEFINE side == stop.side  entry == stop.entry  peak == stop.peak
           current == stop.current  gain == Gain(side, entry, price)
           m == n * Step  level == Ratcheted(stop, n)
<1>1. /\ side \in {"BUY", "SELL"} /\ entry \in Nat \ {0} /\ peak \in Nat \ {0}
      /\ current \in Int /\ Gap \in Nat \ {0} /\ Step \in Nat \ {0}
  BY StopAssumption DEF IInv, TypeOK, Stop
<1>2. gain \in Nat /\ price # peak
  BY <1>1, SMT DEF IInv, EntryInv, Gain, Better
<1>3. /\ n \in Int /\ m \in Int /\ m <= gain /\ gain <= m + Step
  <2>1. /\ n \in {gain \div Step, (gain \div Step) - 1}
        /\ n = (gain \div Step) - 1 => gain = (gain \div Step) * Step
    <3>1. StepsTaken(stop, price) =
            IF gain = (gain \div Step) * Step
            THEN {(gain \div Step) - 1, gain \div Step} ELSE {gain \div Step}
      BY <1>2 DEF StepsTaken
    <3>2. gain \div Step \in Int
      BY <1>1, <1>2, SMT
    <3> HIDE DEF gain
    <3> QED BY <3>1, <3>2
  <2> HIDE DEF gain
  <2> QED BY <1>2, <2>1, StepsBound
<1>4. n <= 0 => m <= 0
  BY <1>1, <1>3, SMT
<1>5. n > 0 => m >= Step
  BY <1>1, <1>3, SMT
<1>6. level = IF n > 0 /\ (stop.ratchet =>
                            Better(side, Behind(side, entry, Gap - m), current))
              THEN Behind(side, entry, Gap - m) ELSE current
  BY DEF Ratcheted, Candidate
<1>7. /\ Gain(side, current, peak) >= Gap \/ (side = "BUY" /\ current = 0)
      /\ Gain(side, current, entry) <= Gap
  BY DEF IInv, StopTrailsPeak, EntryInv, Trail
<1>8. gain = Gain(side, entry, price) /\ Better(side, price, peak)
  OBVIOUS
<1> HIDE DEF side, entry, peak, current, gain, m, level
<1>9. /\ level \in Int
      /\ Gain(side, level, price) <= Gap + Step
      /\ Gain(side, level, price) >= Gap \/ (side = "BUY" /\ level = 0)
      /\ stop.ratchet => level = current \/ Better(side, level, current)
      /\ ~Better(side, level, price)
      /\ Gain(side, level, entry) <= Gap
  <2>1. CASE side = "SELL"
    <3>1. /\ level = IF n > 0 /\ (stop.ratchet => entry + (Gap - m) < current)
                     THEN entry + (Gap - m) ELSE current
          /\ gain = entry - price /\ price < peak
          /\ current - peak >= Gap /\ current - entry <= Gap
      BY <1>6, <1>7, <1>8, <2>1 DEF Gain, Better, Behind
    <3>2. /\ level \in Int /\ level - price <= Gap + Step /\ level - price >= Gap
          /\ stop.ratchet => level = current \/ level < current
          /\ level - entry <= Gap
      <4>1. CASE n > 0 /\ (stop.ratchet => entry + (Gap - m) < current)
        BY <1>1, <1>3, <1>5, <3>1, <4>1
      <4>2. CASE n <= 0
        BY <1>1, <1>3, <1>4, <3>1, <4>2
      <4>3. CASE n > 0 /\ ~(stop.ratchet => entry + (Gap - m) < current)
        BY <1>1, <1>3, <1>5, <3>1, <4>3
      <4> QED BY <1>3, <4>1, <4>2, <4>3
    <3> QED BY <1>1, <2>1, <3>2 DEF Gain, Better
  <2>2. CASE side = "BUY"
    <3>1. /\ level = IF n > 0 /\ (stop.ratchet => entry - (Gap - m) > current)
                     THEN entry - (Gap - m) ELSE current
          /\ gain = price - entry /\ price > peak
          /\ peak - current >= Gap \/ current = 0
          /\ entry - current <= Gap
      BY <1>6, <1>7, <1>8, <2>2 DEF Gain, Better, Behind
    <3>2. /\ level \in Int /\ price - level <= Gap + Step
          /\ price - level >= Gap \/ level = 0
          /\ stop.ratchet => level = current \/ level > current
          /\ entry - level <= Gap
      <4>1. CASE n > 0 /\ (stop.ratchet => entry - (Gap - m) > current)
        BY <1>1, <1>3, <1>5, <3>1, <4>1
      <4>2. CASE n <= 0
        BY <1>1, <1>3, <1>4, <3>1, <4>2
      <4>3. CASE n > 0 /\ ~(stop.ratchet => entry - (Gap - m) > current)
        BY <1>1, <1>3, <1>5, <3>1, <4>3
      <4> QED BY <1>3, <4>1, <4>2, <4>3
    <3> QED BY <1>1, <2>2, <3>2 DEF Gain, Better
  <2> QED BY <1>1, <2>1, <2>2
<1> QED BY <1>9 DEF side, entry, peak, current, level

LEMMA TriggerPreserves ==
  ASSUME IInv, NEW price \in Prices, NEW time \in Times, Trigger(price, time)
  PROVE  /\ IInv'
         /\ stop'.current = stop.current /\ stop'.time >= stop.time
<1>1. /\ price \in Nat \ {0} /\ time \in Nat /\ time >= stop.time /\ stop \in Stop
  BY StopAssumption DEF Trigger, Raises, IInv, TypeOK, Stop
<1>2. stop' = [stop EXCEPT !.state = "TRIGGERED", !.price = price, !.time = time]
  BY DEF Trigger
<1>3. /\ stop' \in Stop
      /\ stop'.side = stop.side /\ stop'.entry = stop.entry /\ stop'.peak = stop.peak
      /\ stop'.current = stop.current /\ stop'.state = "TRIGGERED"
      /\ stop'.price = price /\ stop'.time = time
  BY <1>1, <1>2 DEF Stop
<1>4. ~Better(stop.side, price, stop.current)
  BY DEF Trigger
<1> QED BY <1>1, <1>3, <1>4 DEF IInv, TypeOK, StopTrailsPeak, StateMatchesPrice,
                                EntryInv, Trail

LEMMA HoldPreserves ==
  ASSUME IInv, NEW price \in Prices, NEW time \in Times, Hold(price, time)
  PROVE  /\ IInv'
         /\ stop.ratchet => stop'.current = stop.current
                             \/ Better(stop.side, stop'.current, stop.current)
         /\ stop'.side = stop.side /\ stop'.time >= stop.time
<1>1. /\ price \in Nat \ {0} /\ time \in Nat /\ time >= stop.time /\ stop \in Stop
      /\ stop.peak \in Nat \ {0} /\ stop.current \in Int /\ stop.entry \in Nat \ {0}
      /\ stop.side \in {"BUY", "SELL"}
  BY StopAssumption DEF Hold, Raises, IInv, TypeOK, Stop
<1> DEFINE peak == NewPeak(stop, price)
<1>2. PICK n \in StepsTaken(stop, peak) :
        stop' = [stop EXCEPT !.current = Ratcheted(stop, n), !.peak = peak,
                             !.price = price, !.time = time]
  BY DEF Hold
<1> DEFINE level == Ratcheted(stop, n)
<1>3. ~Better(stop.side, stop.current, price) /\ stop.state = "ARMED"
  BY DEF Hold
<1>4. peak \in Nat \ {0}
  BY <1>1 DEF NewPeak
<1>5. /\ level \in Int
      /\ Gain(stop.side, level, peak) <= Gap + Step
      /\ Gain(stop.side, level, peak) >= Gap \/ (stop.side = "BUY" /\ level = 0)
      /\ stop.ratchet => level = stop.current \/ Better(stop.side, level, stop.current)
      /\ ~Better(stop.side, level, price)
      /\ Gain(stop.side, level, stop.entry) <= Gap
      /\ Gain(stop.side, stop.entry, peak) >= 0
  <2>1. CASE Better(stop.side, price, stop.peak)
    <3>1. peak = price
      BY <2>1 DEF NewPeak
    <3>2. Gain(stop.side, stop.entry, price) >= 0
      BY <1>1, <2>1, SMT DEF IInv, EntryInv, Gain, Better
    <3> QED BY <1>1, <1>2, <2>1, <3>1, <3>2, RatchetStep
  <2>2. CASE ~Better(stop.side, price, stop.peak)
    <3>1. peak = stop.peak
      BY <2>2 DEF NewPeak
    <3>2. n = 0
      BY <1>2, <3>1 DEF StepsTaken
    <3>3. level = stop.current
      BY <3>2 DEF Ratcheted
    <3> QED BY <1>1, <1>3, <3>1, <3>3
            DEF IInv, StopTrailsPeak, EntryInv, Trail
  <2> QED BY <2>1, <2>2
<1> HIDE DEF level, peak
<1>6. /\ stop' \in Stop
      /\ stop'.side = stop.side /\ stop'.entry = stop.entry /\ stop'.peak = peak
      /\ stop'.current = level /\ stop'.state = stop.state
      /\ stop'.price = price /\ stop'.time = time
  BY <1>1, <1>2, <1>4, <1>5 DEF Stop, level
<1> QED BY <1>1, <1>3, <1>5, <1>6 DEF IInv, TypeOK, StopTrailsPeak, StateMatchesPrice,
                                      EntryInv, Trail

LEMMA ClosePreserves ==
  ASSUME IInv, Close
  PROVE  IInv' /\ stop'.current = stop.current /\ stop'.time = stop.time
<1>1. /\ stop' \in Stop
      /\ stop'.side = stop.side /\ stop'.entry = stop.entry /\ stop'.peak = stop.peak
      /\ stop'.current = stop.current /\ stop'.state = "CLOSED"
      /\ stop'.time = stop.time
  BY DEF Close, IInv, TypeOK, Stop
<1> QED BY <1>1 DEF IInv, TypeOK, StopTrailsPeak, StateMatchesPrice, EntryInv, Trail

(* A step keeps the invariant, tightens the stop or leaves it, and never   *)
(* takes it back in time.                                                  *)
LEMMA StepProperties ==
  ASSUME IInv, [Next]_stopVars
  PROVE  /\ IInv'
         /\ stop.ratchet => stop'.current = stop.current
                             \/ Better(stop.side, stop'.current, stop.current)
         /\ stop'.time >= stop.time
<1>1. stop.time \in Nat
  BY DEF IInv, TypeOK, Stop
<1>2. CASE UNCHANGED stop
  BY <1>1, <1>2 DEF IInv, TypeOK, StopTrailsPeak, StateMatchesPrice, EntryInv, Trail
<1>3. CASE Close
  BY <1>1, <1>3, ClosePreserves
<1>4. ASSUME NEW price \in Prices, NEW time \in Times, Update(price, time),
             stop' # stop
      PROVE  Trigger(price, time) \/ Hold(price, time)
  BY <1>4 DEF Update, Ignore
<1> QED BY <1>2, <1>3, <1>4, TriggerPreserves, HoldPreserves DEF Next, stopVars

THEOREM Inductive == Spec => []IInv
<1>1. Init => IInv
  BY InitEstablishes
<1>2. IInv /\ [Next]_stopVars => IInv'
  BY StepProperties
<1> QED BY <1>1, <1>2, PTL DEF Spec

(* The stop, its peak and its times stay well typed whatever the updates.  *)
THEOREM StopTyped == Spec => []TypeOK
BY Inductive, PTL DEF IInv

(* However prices move, the stop of update() stays within one step of the  *)
(* gap behind the best price seen, the ties of floor() included.           *)
THEOREM TrailBounded == Spec => []StopTrailsPeak
BY Inductive, PTL DEF IInv

(* An armed stop has not been passed by any price update() accepted, and a *)
(* triggered one was reached by its price.                                 *)
THEOREM TriggerSound == Spec => []StateMatchesPrice
BY Inductive, PTL DEF IInv

(* No update and no close() loosens a ratcheting stop or takes it back.    *)
THEOREM RatchetOneWay == Spec => NeverLoosens
<1> DEFINE Tightens ==
      /\ stop.ratchet => ~Better(stop.side, stop.current, stop'.current)
         \/ stop'.current = stop.current
      /\ stop'.time >= stop.time
<1>1. IInv /\ [Next]_stopVars => [Tightens]_stopVars
  <2> SUFFICES ASSUME IInv, [Next]_stopVars PROVE Tightens
    OBVIOUS
  <2>1. stop.current \in Int /\ stop'.current \in Int /\ stop.side \in {"BUY", "SELL"}
    BY StepProperties DEF IInv, TypeOK, Stop
  <2> QED BY <2>1, StepProperties, SMT DEF Better
<1> QED BY <1>1, Inductive, PTL DEF Spec, NeverLoosens
=============================================================================
