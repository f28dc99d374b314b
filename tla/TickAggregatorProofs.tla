------------------------ MODULE TickAggregatorProofs ------------------------
(***************************************************************************)
(* Safety of TickAggregator for every interval, price, volume, mode and    *)
(* order of ticks: bars hold their ticks, their volume-weighted price is   *)
(* within them, until a flush they advance, and no volume is lost.         *)
(***************************************************************************)
EXTENDS TickAggregator, SequenceTheorems, WellFoundedInduction, TLAPS

-----------------------------------------------------------------------------
(* Rounding.                                                               *)

(* What Nearest promises: at most half a unit of error per divisor. *)
LEMMA NearestBound ==
  ASSUME NEW n \in Int, NEW d \in Nat \ {0}, NEW r \in Nearest(n, d)
  PROVE  /\ r \in Int
         /\ 2 * n - d <= 2 * (d * r)
         /\ 2 * (d * r) <= 2 * n + d
  BY SMT DEF Nearest

LEMMA NearestNat ==
  ASSUME NEW n \in Nat, NEW d \in Nat \ {0}, NEW r \in Nearest(n, d)
  PROVE  r \in Nat
  BY SMT DEF Nearest

(* Rounding a mean leaves it between the bounds of what was averaged.      *)
LEMMA NearestWithin ==
  ASSUME NEW n \in Nat, NEW d \in Nat \ {0}, NEW low \in Nat, NEW high \in Nat,
         low * d <= n, n <= high * d, NEW r \in Nearest(n, d)
  PROVE  low <= r /\ r <= high
<1>1. /\ r \in Int
      /\ 2 * n - d <= 2 * (d * r)
      /\ 2 * (d * r) <= 2 * n + d
  BY NearestBound
<1>2. CASE r >= high + 1
  BY <1>1, <1>2, d * r >= d * (high + 1), SMT
<1>3. CASE r <= low - 1
  BY <1>1, <1>3, d * r <= d * (low - 1), SMT
<1> QED BY <1>1, <1>2, <1>3

-----------------------------------------------------------------------------
(* Sums.  What FoldLeft adds up, by induction on the length.               *)

(* A set of naturals has a least element: induction, without an operator.  *)
Below == {p \in Nat \X Nat : p[1] < p[2]}

LEMMA LeastNat ==
  ASSUME NEW T, T \subseteq Nat, T # {}
  PROVE  \E n \in T : \A m \in T : n <= m
<1>1. IsWellFoundedOn(Below, Nat)
  BY NatLessThanWellFounded, Zenon DEF OpToRel, Below
<1>2. \E n \in T : \A m \in T : ~ (<<m, n>> \in Below)
  BY <1>1, WFMin, Zenon
<1>3. \A m, n \in Nat : ~ (<<m, n>> \in Below) => n <= m
  BY SMT DEF Below
<1> QED BY <1>2, <1>3, Zenon

(* The last index of a set of indices. *)
LEMMA MaxOf ==
  ASSUME NEW n \in Nat, NEW d \in SUBSET (1 .. n), d # {}
  PROVE  /\ Max(d) \in d /\ \A i \in d : i <= Max(d)
         /\ Max(d) \in 1 .. n
         /\ d \ {Max(d)} \in SUBSET (1 .. Max(d) - 1)
<1> DEFINE Bounds == {u \in Nat : \A i \in d : i <= u}
<1>1. n \in Bounds
  OBVIOUS
<1>2. PICK u \in Bounds : \A v \in Bounds : u <= v
  BY <1>1, LeastNat
<1>3. u \in d
  <2> SUFFICES ASSUME u \notin d PROVE FALSE
    OBVIOUS
  <2>1. \A i \in d : i \in Nat \ {0} /\ i <= u /\ i # u
    BY <1>2
  <2>2. PICK i \in d : TRUE
    OBVIOUS
  <2>3. u - 1 \in Nat
    BY <1>2, <2>1, <2>2
  <2>4. \A j \in d : j <= u - 1
    BY <2>1, <2>3
  <2>5. u - 1 \in Bounds /\ u \in Nat
    BY <1>2, <2>3, <2>4
  <2> HIDE DEF Bounds
  <2> QED BY <1>2, <2>3, <2>5
<1>4. \A i \in d : u >= i
  BY <1>2
<1> DEFINE top == Max(d)
<1>5. top \in d /\ \A i \in d : top >= i
  BY <1>3, <1>4, Zenon DEF Max
<1> HIDE DEF top
<1>6. /\ top \in 1 .. n
      /\ \A i \in d : i <= top
      /\ \A i \in d \ {top} : i \in 1 .. top - 1
  BY <1>5
<1> QED BY <1>5, <1>6, Zenon DEF top

(* The function FoldLeft builds: the sums of w over every set of indices.  *)
Partial(h, w, n) ==
  h = [d \in SUBSET (1 .. n) |-> IF d = {} THEN 0 ELSE h[d \ {Max(d)}] + w[Max(d)]]

LEMMA PartialExists ==
  ASSUME NEW w, NEW n \in Nat, \A i \in 1 .. n : w[i] \in Int
  PROVE  \E h \in [SUBSET (1 .. n) -> Int] : Partial(h, w, n)
<1> DEFINE Exists(m) == \E h \in [SUBSET (1 .. m) -> Int] : Partial(h, w, m)
           Bad == {m \in 0 .. n : ~ Exists(m)}
<1>1. Exists(0)
  <2> DEFINE h == [d \in SUBSET (1 .. 0) |-> 0]
  <2>1. \A d \in SUBSET (1 .. 0) : d = {}
    OBVIOUS
  <2>2. h \in [SUBSET (1 .. 0) -> Int] OBVIOUS
  <2>3. Partial(h, w, 0)
    BY <2>1, Zenon DEF Partial
  <2> HIDE DEF h
  <2> QED BY <2>2, <2>3, Zenon
<1>2. ASSUME NEW m \in 0 .. n, m + 1 \in 0 .. n, Exists(m) PROVE Exists(m + 1)
  <2>1. PICK h \in [SUBSET (1 .. m) -> Int] : Partial(h, w, m)
    BY <1>2
  <2> DEFINE g == [d \in SUBSET (1 .. m + 1) |->
                     IF d = {} THEN 0 ELSE h[d \ {Max(d)}] + w[Max(d)]]
  <2>2. \A d \in SUBSET (1 .. m + 1) : d # {} =>
          Max(d) \in 1 .. n /\ d \ {Max(d)} \in SUBSET (1 .. m)
    BY <1>2, MaxOf
  <2>3. g \in [SUBSET (1 .. m + 1) -> Int]
    BY <2>1, <2>2
  <2>4. SUBSET (1 .. m) \subseteq SUBSET (1 .. m + 1)
    OBVIOUS
  <2>5. \A d \in SUBSET (1 .. m) : g[d] = h[d]
    BY <2>1, <2>4, Zenon DEF Partial
  <2>6. Partial(g, w, m + 1)
    <3>1. \A d \in SUBSET (1 .. m + 1) : d # {} => h[d \ {Max(d)}] = g[d \ {Max(d)}]
      BY <2>2, <2>5, Zenon
    <3>2. g = [d \in SUBSET (1 .. m + 1) |->
                 IF d = {} THEN 0 ELSE h[d \ {Max(d)}] + w[Max(d)]]
      OBVIOUS
    <3> HIDE DEF g
    <3> QED BY <3>1, <3>2, Zenon DEF Partial
  <2> HIDE DEF g
  <2> QED BY <2>3, <2>6, Zenon
<1> HIDE DEF Exists
<1>3. Bad = {}
  <2> SUFFICES ASSUME Bad # {} PROVE FALSE
    OBVIOUS
  <2>1. PICK m \in Bad : \A k \in Bad : m <= k
    BY LeastNat, Bad \subseteq Nat
  <2>2. m # 0
    BY <1>1
  <2>3. m - 1 \in 0 .. n /\ m - 1 \notin Bad /\ (m - 1) + 1 = m
    BY <2>1, <2>2, SMT
  <2> QED BY <1>2, <2>1, <2>3
<1>4. n \in 0 .. n
  OBVIOUS
<1> QED BY <1>3, <1>4, Zenon DEF Exists

(* Two such functions agree where their sequences do. *)
LEMMA PartialsAgree ==
  ASSUME NEW n \in Nat, NEW m \in 0 .. n, NEW h, NEW k, NEW w, NEW v,
         Partial(h, w, n), Partial(k, v, m), \A i \in 1 .. m : w[i] = v[i]
  PROVE  \A d \in SUBSET (1 .. m) : h[d] = k[d]
<1> DEFINE Bad == {j \in 0 .. m : \E d \in SUBSET (1 .. j) : h[d] # k[d]}
<1> SUFFICES Bad = {}
  BY m \in 0 .. m
<1> SUFFICES ASSUME Bad # {} PROVE FALSE
  OBVIOUS
<1>1. PICK j \in Bad : \A i \in Bad : j <= i
  BY LeastNat, Bad \subseteq Nat
<1>2. PICK d \in SUBSET (1 .. j) : h[d] # k[d]
  BY <1>1
<1>3. d \in SUBSET (1 .. m) /\ d \in SUBSET (1 .. n)
  BY <1>2, SMT
<1>4. /\ h[d] = IF d = {} THEN 0 ELSE h[d \ {Max(d)}] + w[Max(d)]
      /\ k[d] = IF d = {} THEN 0 ELSE k[d \ {Max(d)}] + v[Max(d)]
  BY <1>3, Zenon DEF Partial
<1>5. d # {}
  BY <1>2, <1>4
<1>6. Max(d) \in 1 .. j /\ d \ {Max(d)} \in SUBSET (1 .. Max(d) - 1)
  BY <1>5, MaxOf
<1>7. Max(d) - 1 \in 0 .. m /\ Max(d) - 1 \notin Bad
  BY <1>1, <1>6, SMT
<1>8. h[d \ {Max(d)}] = k[d \ {Max(d)}]
  BY <1>6, <1>7, Zenon
<1>9. w[Max(d)] = v[Max(d)]
  BY <1>6
<1> QED BY <1>2, <1>4, <1>8, <1>9, Zenon

LEMMA PartialUnique ==
  ASSUME NEW n \in Nat, NEW h, NEW k, NEW w, Partial(h, w, n), Partial(k, w, n)
  PROVE  h = k
<1>1. n \in 0 .. n
  OBVIOUS
<1>2. \A d \in SUBSET (1 .. n) : h[d] = k[d]
  BY <1>1, PartialsAgree
<1> QED BY <1>2, Zenon DEF Partial

LEMMA TotalIsPartial ==
  ASSUME NEW w \in Seq(Int)
  PROVE  \E h \in [SUBSET (1 .. Len(w)) -> Int] :
           Partial(h, w, Len(w)) /\ Total(w) = h[1 .. Len(w)]
<1>1. DOMAIN w = 1 .. Len(w) /\ Len(w) \in Nat /\ \A i \in 1 .. Len(w) : w[i] \in Int
  OBVIOUS
<1> DEFINE n == Len(w)
           h == CHOOSE iter : Partial(iter, w, n)
<1>2. PICK k \in [SUBSET (1 .. n) -> Int] : Partial(k, w, n)
  BY <1>1, PartialExists
<1>3. Partial(h, w, n)
  BY <1>2, Zenon
<1>4. h = k
  BY <1>1, <1>2, <1>3, PartialUnique, Zenon
<1>5. Total(w) = h[1 .. n]
  <2>1. Total(w) = (CHOOSE iter :
          iter = [d \in SUBSET DOMAIN w |->
                    IF d = {} THEN 0 ELSE iter[d \ {Max(d)}] + w[Max(d)]])[DOMAIN w]
    BY Zenon DEF Total, FoldLeft, MapThenFoldSet
  <2> QED BY <1>1, <2>1, Zenon DEF Partial
<1> HIDE DEF h
<1> QED BY <1>2, <1>3, <1>4, <1>5, Zenon

LEMMA TotalEmpty == Total(<<>>) = 0
<1>1. <<>> \in Seq(Int) /\ Len(<<>>) = 0 /\ 1 .. 0 = {}
  OBVIOUS
<1>2. PICK h : Partial(h, <<>>, 0) /\ Total(<<>>) = h[1 .. 0]
  BY <1>1, TotalIsPartial
<1> QED BY <1>1, <1>2 DEF Partial

LEMMA TotalInt == ASSUME NEW w \in Seq(Int) PROVE Total(w) \in Int
  BY TotalIsPartial

LEMMA TotalAppend ==
  ASSUME NEW w \in Seq(Int), NEW x \in Int
  PROVE  Total(Append(w, x)) = Total(w) + x
<1> DEFINE v == Append(w, x)
           n == Len(w)
<1>1. /\ v \in Seq(Int) /\ Len(v) = n + 1 /\ v[n + 1] = x /\ n \in Nat
      /\ \A i \in 1 .. n : v[i] = w[i]
  OBVIOUS
<1> HIDE DEF v, n
<1>2. PICK h : Partial(h, v, n + 1) /\ Total(v) = h[1 .. n + 1]
  BY <1>1, TotalIsPartial
<1>3. PICK k : Partial(k, w, n) /\ Total(w) = k[1 .. n]
  BY TotalIsPartial DEF n
<1> DEFINE d == 1 .. n + 1
<1>4. /\ n + 1 \in Nat /\ n + 1 \in d /\ d # {} /\ d \in SUBSET (1 .. n + 1)
      /\ d \ {n + 1} = 1 .. n
  <2>1. \A i : i \in d \ {n + 1} <=> i \in 1 .. n
    BY <1>1, SMT
  <2>2. d \ {n + 1} = 1 .. n
    <3> HIDE DEF d
    <3> QED BY <2>1, Zenon
  <2>3. n + 1 \in Nat /\ n + 1 \in d
    BY <1>1
  <2> QED BY <2>2, <2>3
<1>5. Max(d) = n + 1
  <2> HIDE DEF d
  <2>1. \A i \in d : i <= Max(d)
    BY <1>1, <1>4, MaxOf
  <2>2. Max(d) \in d
    BY <1>1, <1>4, MaxOf
  <2>3. Max(d) \in 1 .. n + 1
    BY <1>4, <2>2
  <2> QED BY <1>1, <1>4, <2>1, <2>3
<1>6. h[d] = h[1 .. n] + x
  <2> HIDE DEF d
  <2>1. h[d] = h[d \ {Max(d)}] + v[Max(d)]
    BY <1>2, <1>4 DEF Partial
  <2> QED BY <1>1, <1>4, <1>5, <2>1
<1>7. h[1 .. n] = k[1 .. n]
  BY <1>1, <1>2, <1>3, PartialsAgree
<1> QED BY <1>2, <1>3, <1>6, <1>7 DEF v

-----------------------------------------------------------------------------
(* What bounds the volume-weighted price before it is divided and rounded. *)
ValueBound ==
  /\ bar.low * bar.volume <= bar.value
  /\ bar.value <= bar.high * bar.volume

(* The envelope Bar's validators ask for, prices of zero aside.            *)
Envelope(b) ==
  /\ b.low <= b.open /\ b.open <= b.high
  /\ b.low <= b.close /\ b.close <= b.high

(* The bar whose callback has yet to run is the last one emitted.          *)
PendingLast ==
  ~flushed => \A i \in DOMAIN pending : pending[i] = bars[Len(bars)]

IInv ==
  /\ TypeOK
  /\ BarIsItsTicks
  /\ ValueBound
  /\ Envelope(bar)
  /\ VwapWithinBar
  /\ BarsAdvance
  /\ PendingLast

LEMMA InitEstablishes == Init => IInv
<1> SUFFICES ASSUME Init PROVE IInv
  OBVIOUS
<1>1. TypeOK
  <2>1. bar \in Running
    BY DEF Init, NoBar, Running, None
  <2>2. total \in 0 .. MaxTicks
    BY AggregatorAssumption DEF Init
  <2>3. /\ bars \in Seq(Bar) /\ taken \in Seq([ltp : Prices, delta : Nat])
        /\ pending \in Seq(Bar) /\ Len(pending) <= 1 /\ handed \in Seq(Nat)
    BY DEF Init
  <2>4. /\ config \in Config /\ last \in {<<>>} \cup {<<tick>> : tick \in Tick}
        /\ session \in Volumes \cup {None} /\ flushed \in BOOLEAN /\ regular \in BOOLEAN
    BY DEF Init
  <2> QED BY <2>1, <2>2, <2>3, <2>4 DEF TypeOK
<1>2. BarIsItsTicks /\ ValueBound /\ Envelope(bar)
  BY DEF Init, BarIsItsTicks, ValueBound, Envelope, NoBar
<1>3. VwapWithinBar /\ BarsAdvance /\ PendingLast
  BY DEF Init, VwapWithinBar, BarsAdvance, PendingLast
<1> QED BY <1>1, <1>2, <1>3 DEF IInv

-----------------------------------------------------------------------------
(* Lemmas about the operators.                                             *)

LEMMA BucketNat ==
  ASSUME NEW t \in Nat
  PROVE  Bucket(t) \in Nat
<1>1. Interval \in Nat \ {0}
  BY AggregatorAssumption
<1>2. t \div Interval \in Nat
  BY <1>1
<1> DEFINE q == t \div Interval
<1> HIDE DEF q
<1>3. q * Interval \in Nat
  BY <1>1, <1>2 DEF q
<1> QED BY <1>3 DEF Bucket, q

LEMMA DeltaNat ==
  ASSUME TypeOK, NEW tick \in Tick
  PROVE  VolumeDelta(tick) \in Nat
<1>1. tick.volume \in Nat /\ session \in Nat \cup {None}
  BY AggregatorAssumption DEF TypeOK, Tick
<1> QED BY <1>1, SMT DEF VolumeDelta, None

LEMMA SessionTyped ==
  ASSUME TypeOK, NEW tick \in Tick
  PROVE  SessionVolume(tick) \in Volumes \cup {None}
BY DEF TypeOK, Tick, SessionVolume

LEMMA TickTyped ==
  ASSUME NEW tick \in Tick
  PROVE  /\ tick.ltp \in Prices /\ tick.ltp \in Nat /\ tick.time \in Nat
         /\ tick.volume \in Nat
BY AggregatorAssumption DEF Tick

LEMMA OpenedBar ==
  ASSUME NEW tick \in Tick, NEW delta \in Nat
  PROVE  LET b == Opened(tick, delta)
         IN  /\ b \in Running
             /\ b.start = Bucket(tick.time) /\ b.ticks = 1
             /\ b.open = tick.ltp /\ b.close = tick.ltp
             /\ b.low = tick.ltp /\ b.high = tick.ltp
             /\ b.volume = delta /\ b.value = tick.ltp * delta
<1>1. Bucket(tick.time) \in Nat /\ tick.ltp \in Nat
  BY TickTyped, BucketNat
<1>2. tick.ltp * delta \in Nat
  BY <1>1
<1> QED BY <1>1, <1>2 DEF Opened, Running

LEMMA ExtendedBar ==
  ASSUME NEW b \in Running, NEW tick \in Tick, NEW delta \in Nat
  PROVE  LET e == Extended(b, tick, delta)
         IN  /\ e \in Running
             /\ e.start = b.start /\ e.open = b.open /\ e.ticks = b.ticks + 1
             /\ e.close = tick.ltp
             /\ e.low = Lesser(b.low, tick.ltp) /\ e.high = Greater(b.high, tick.ltp)
             /\ e.volume = b.volume + delta
             /\ e.value = b.value + tick.ltp * delta
<1>1. tick.ltp \in Nat
  BY TickTyped
<1> DEFINE more == tick.ltp * delta
<1>2. more \in Nat
  BY <1>1
<1> HIDE DEF more
<1>3. Lesser(b.low, tick.ltp) \in Nat /\ Greater(b.high, tick.ltp) \in Nat
  BY <1>1 DEF Running, Lesser, Greater
<1>4. b.value + more \in Nat /\ b.volume + delta \in Nat /\ b.ticks + 1 \in Nat
  BY <1>2 DEF Running
<1> QED BY <1>1, <1>3, <1>4 DEF Extended, Running, more

(* A bar that was extended keeps its value between its low and its high    *)
(* price times its volume.                                                 *)
LEMMA ExtendedValue ==
  ASSUME NEW low \in Nat, NEW high \in Nat, NEW volume \in Nat, NEW value \in Nat,
         NEW price \in Nat, NEW delta \in Nat,
         low * volume <= value, value <= high * volume
  PROVE  /\ Lesser(low, price) * (volume + delta) <= value + price * delta
         /\ value + price * delta <= Greater(high, price) * (volume + delta)
<1>1. \A a, b, c \in Nat : a <= b => a * c <= b * c
  BY SMT
<1>2. \A a, b, c \in Nat : a * (b + c) = a * b + a * c /\ a * b \in Nat
  BY SMT
<1> DEFINE l == Lesser(low, price)
           h == Greater(high, price)
<1>3. l \in Nat /\ l <= low /\ l <= price
  BY DEF Lesser
<1>4. h \in Nat /\ high <= h /\ price <= h
  BY DEF Greater
<1> HIDE DEF l, h
<1>5. l * volume <= low * volume /\ l * delta <= price * delta
  BY <1>1, <1>3
<1>6. high * volume <= h * volume /\ price * delta <= h * delta
  BY <1>1, <1>4
<1>7. /\ l * (volume + delta) = l * volume + l * delta
      /\ h * (volume + delta) = h * volume + h * delta
      /\ l * volume \in Nat /\ l * delta \in Nat /\ h * volume \in Nat /\ h * delta \in Nat
      /\ low * volume \in Nat /\ high * volume \in Nat /\ price * delta \in Nat
  BY <1>2, <1>3, <1>4
<1> DEFINE lv == l * volume  ld == l * delta  hv == h * volume  hd == h * delta
           ov == low * volume  gv == high * volume  pd == price * delta
           lx == l * (volume + delta)  hx == h * (volume + delta)
<1>8. /\ lv \in Nat /\ ld \in Nat /\ hv \in Nat /\ hd \in Nat
      /\ ov \in Nat /\ gv \in Nat /\ pd \in Nat
      /\ lv <= ov /\ ld <= pd /\ gv <= hv /\ pd <= hd
      /\ ov <= value /\ value <= gv
      /\ lx = lv + ld /\ hx = hv + hd
  BY <1>5, <1>6, <1>7
<1> HIDE DEF lv, ld, hv, hd, ov, gv, pd, lx, hx
<1>9. lx <= value + pd /\ value + pd <= hx
  BY <1>8
<1> QED BY <1>9 DEF lx, hx, pd, l, h

LEMMA SealedBar ==
  ASSUME NEW b \in Running, b.start # None, Valid(b), Envelope(b),
         b.low * b.volume <= b.value, b.value <= b.high * b.volume,
         NEW vwap \in Vwap(b)
  PROVE  /\ Sealed(b, vwap) \in Bar
         /\ Sealed(b, vwap).start = b.start
         /\ Sealed(b, vwap).low <= Sealed(b, vwap).vwap
         /\ Sealed(b, vwap).vwap <= Sealed(b, vwap).high
<1>1. /\ b.start \in Nat /\ b.volume \in Nat /\ b.ticks \in Nat /\ b.value \in Nat
      /\ b.open \in Nat \ {0} /\ b.high \in Nat \ {0} /\ b.low \in Nat \ {0}
      /\ b.close \in Nat \ {0}
  BY DEF Running, Valid, Envelope
<1>2. vwap \in Nat /\ b.low <= vwap /\ vwap <= b.high
  <2>1. CASE b.volume = 0
    BY <1>1, <2>1 DEF Vwap, Envelope
  <2>2. CASE b.volume > 0
    <3>1. vwap \in Nearest(b.value, b.volume)
      BY <2>2 DEF Vwap
    <3> QED BY <1>1, <2>2, <3>1, NearestWithin, NearestNat
  <2> QED BY <1>1, <2>1, <2>2
<1> QED BY <1>1, <1>2 DEF Sealed, Bar

-----------------------------------------------------------------------------
(* The steps.                                                              *)

(* A bar that has just been opened by a tick.                              *)
LEMMA FreshBar ==
  ASSUME NEW tick \in Tick, NEW delta \in Nat,
         bar' = Opened(tick, delta),
         taken' = <<[ltp |-> tick.ltp, delta |-> delta]>>
  PROVE  /\ bar' \in Running /\ bar'.start = Bucket(tick.time) /\ bar'.start \in Nat
         /\ taken' \in Seq([ltp : Prices, delta : Nat])
         /\ BarIsItsTicks' /\ ValueBound' /\ Envelope(bar')
<1> DEFINE r == [ltp |-> tick.ltp, delta |-> delta]
<1>1. tick.ltp \in Prices /\ tick.ltp \in Nat /\ Bucket(tick.time) \in Nat
  BY TickTyped, BucketNat
<1>2. r \in [ltp : Prices, delta : Nat] /\ r.ltp = tick.ltp
  BY <1>1
<1> HIDE DEF r
<1>3. /\ taken' \in Seq([ltp : Prices, delta : Nat])
      /\ Len(taken') = 1 /\ DOMAIN taken' = {1} /\ taken'[1] = r
  BY <1>2 DEF r
<1>4. /\ bar' \in Running
      /\ bar'.start = Bucket(tick.time) /\ bar'.ticks = 1
      /\ bar'.open = tick.ltp /\ bar'.close = tick.ltp
      /\ bar'.low = tick.ltp /\ bar'.high = tick.ltp
      /\ bar'.volume = delta /\ bar'.value = tick.ltp * delta
  BY OpenedBar
<1>5. BarIsItsTicks'
  BY <1>1, <1>2, <1>3, <1>4 DEF BarIsItsTicks, None
<1>6. ValueBound'
  <2> DEFINE v == tick.ltp * delta
  <2>1. v \in Nat
    BY <1>1
  <2>2. bar'.low * bar'.volume = v /\ bar'.high * bar'.volume = v /\ bar'.value = v
    BY <1>4
  <2> HIDE DEF v
  <2> QED BY <2>1, <2>2 DEF ValueBound
<1>7. Envelope(bar')
  BY <1>1, <1>4 DEF Envelope
<1> QED BY <1>1, <1>3, <1>4, <1>5, <1>6, <1>7

LEMMA StartPreserves ==
  ASSUME IInv, NEW tick \in Tick, ProcessTick(tick), Start(tick)
  PROVE  IInv'
<1>1. VolumeDelta(tick) \in Nat
  BY DeltaNat DEF IInv
<1>2. /\ bar' \in Running /\ bar'.start \in Nat
      /\ taken' \in Seq([ltp : Prices, delta : Nat])
      /\ BarIsItsTicks' /\ ValueBound' /\ Envelope(bar')
  BY <1>1, FreshBar DEF Start
<1>3. TypeOK'
  <2>1. total' \in 0 .. MaxTicks
    BY AggregatorAssumption DEF ProcessTick, IInv, TypeOK
  <2>2. session' \in Volumes \cup {None} /\ flushed' \in BOOLEAN /\ handed' \in Seq(Nat)
    BY SessionTyped DEF Start, Take, IInv, TypeOK
  <2>3. regular' \in BOOLEAN
    BY DEF Start, StillRegular, IInv, TypeOK
  <2>4. last' \in {<<>>} \cup {<<x>> : x \in Tick}
    BY DEF Start
  <2>5. config' \in Config /\ bars' \in Seq(Bar) /\ pending' \in Seq(Bar) /\ Len(pending') <= 1
    BY DEF Start, ProcessTick, IInv, TypeOK
  <2> QED BY <1>2, <2>1, <2>2, <2>3, <2>4, <2>5 DEF TypeOK
<1>4. VwapWithinBar'
  BY DEF Start, IInv, VwapWithinBar
<1>5. BarsAdvance'
  <2> SUFFICES ASSUME ~flushed' PROVE BarsAdvance!2'
    BY DEF BarsAdvance
  <2>1. ~flushed /\ bars' = bars /\ handed' = handed /\ pending' = pending /\ bar.start = None
    BY DEF Start, Take
  <2>2. \A i \in DOMAIN bars : bars[i].start < bar'.start
    <3>1. \A i \in DOMAIN bars : bars[i] \in Bar
      BY DEF IInv, TypeOK
    <3>2. \A i \in DOMAIN bars : bars[i].start \in Nat /\ bars[i].start < None
      BY <2>1, <3>1 DEF IInv, BarsAdvance, Bar
    <3> QED BY <1>2, <3>2 DEF None
  <2> QED BY <2>1, <2>2 DEF IInv, BarsAdvance
<1>6. PendingLast'
  BY DEF Start, Take, IInv, PendingLast
<1> QED BY <1>2, <1>3, <1>4, <1>5, <1>6 DEF IInv

LEMMA ContinuePreserves ==
  ASSUME IInv, NEW tick \in Tick, ProcessTick(tick), Continue(tick)
  PROVE  IInv'
<1> DEFINE delta == VolumeDelta(tick)
           r == [ltp |-> tick.ltp, delta |-> delta]
           Taken == [ltp : Prices, delta : Nat]
<1>1. delta \in Nat
  BY DeltaNat DEF IInv
<1>2. tick.ltp \in Prices /\ tick.ltp \in Nat
  BY TickTyped
<1>3. r \in Taken /\ r.ltp = tick.ltp
  BY <1>1, <1>2
<1>4. /\ bar' = Extended(bar, tick, delta) /\ taken' = Append(taken, r)
      /\ bar.start # None /\ bars' = bars /\ pending' = pending
      /\ handed' = handed /\ flushed' = flushed
  BY DEF Continue, Take
<1> HIDE DEF delta, r
<1>5. bar \in Running /\ taken \in Seq(Taken)
  BY DEF IInv, TypeOK
<1>6. /\ bar' \in Running
      /\ bar'.start = bar.start /\ bar'.open = bar.open /\ bar'.ticks = bar.ticks + 1
      /\ bar'.close = tick.ltp
      /\ bar'.low = Lesser(bar.low, tick.ltp) /\ bar'.high = Greater(bar.high, tick.ltp)
      /\ bar'.volume = bar.volume + delta
      /\ bar'.value = bar.value + tick.ltp * delta
  BY <1>1, <1>4, <1>5, ExtendedBar
<1>7. /\ taken' \in Seq(Taken)
      /\ Len(taken) \in Nat /\ Len(taken') = Len(taken) + 1
      /\ DOMAIN taken = 1 .. Len(taken) /\ DOMAIN taken' = 1 .. Len(taken) + 1
      /\ \A i \in DOMAIN taken : taken'[i] = taken[i]
      /\ taken'[Len(taken) + 1] = r
  BY <1>3, <1>4, <1>5, AppendProperties
<1>8. TypeOK'
  <2>1. total' \in 0 .. MaxTicks
    BY AggregatorAssumption DEF ProcessTick, IInv, TypeOK
  <2>2. session' \in Volumes \cup {None}
    BY SessionTyped DEF Continue, Take, IInv, TypeOK
  <2>3. regular' \in BOOLEAN
    BY DEF Continue, StillRegular, IInv, TypeOK
  <2>4. last' \in {<<>>} \cup {<<x>> : x \in Tick}
    BY DEF Continue
  <2>5. /\ config' \in Config /\ bars' \in Seq(Bar) /\ pending' \in Seq(Bar)
        /\ Len(pending') <= 1 /\ flushed' \in BOOLEAN /\ handed' \in Seq(Nat)
    BY <1>4 DEF ProcessTick, IInv, TypeOK
  <2> QED BY <1>6, <1>7, <2>1, <2>2, <2>3, <2>4, <2>5 DEF TypeOK
<1>9. /\ Len(taken) > 0 /\ bar.ticks = Len(taken)
      /\ bar.open = taken[1].ltp
      /\ \A i \in DOMAIN taken : bar.low <= taken[i].ltp /\ taken[i].ltp <= bar.high
      /\ \E i \in DOMAIN taken : bar.low = taken[i].ltp
      /\ \E i \in DOMAIN taken : bar.high = taken[i].ltp
  BY <1>4 DEF IInv, BarIsItsTicks
<1>10. \A i \in DOMAIN taken : taken[i].ltp \in Nat
  <2>1. \A i \in DOMAIN taken : taken[i] \in Taken
    <3> HIDE DEF Taken
    <3> QED BY <1>5, <1>7, ElementOfSeq
  <2> QED BY <2>1, AggregatorAssumption
<1>11. bar.low \in Nat /\ bar.high \in Nat
  BY <1>5 DEF Running
<1>12. BarIsItsTicks'
  <2> DEFINE n == Len(taken) + 1
  <2>1. n \in DOMAIN taken' /\ taken'[n].ltp = tick.ltp
    BY <1>3, <1>7
  <2>2. /\ Len(taken') = n /\ n > 0 /\ bar'.ticks = n
        /\ bar'.close = taken'[n].ltp
    BY <1>6, <1>7, <1>9, <2>1
  <2>3. bar'.open = taken'[1].ltp
    BY <1>6, <1>7, <1>9
  <2>4. ASSUME NEW i \in DOMAIN taken'
        PROVE  bar'.low <= taken'[i].ltp /\ taken'[i].ltp <= bar'.high
    <3>1. CASE i = n
      BY <1>2, <1>6, <1>11, <2>1, <3>1 DEF Lesser, Greater
    <3>2. CASE i \in DOMAIN taken
      <4>1. /\ taken'[i] = taken[i] /\ taken[i].ltp \in Nat
            /\ bar.low <= taken[i].ltp /\ taken[i].ltp <= bar.high
        BY <1>7, <1>9, <1>10, <3>2
      <4> QED BY <1>2, <1>6, <1>11, <4>1 DEF Lesser, Greater
    <3> QED BY <1>7, <3>1, <3>2
  <2>5. \E i \in DOMAIN taken' : bar'.low = taken'[i].ltp
    <3>1. PICK i \in DOMAIN taken : bar.low = taken[i].ltp
      BY <1>9
    <3>2. i \in DOMAIN taken' /\ taken'[i].ltp = bar.low
      BY <1>7, <3>1
    <3>3. bar'.low = bar.low \/ bar'.low = tick.ltp
      BY <1>6 DEF Lesser
    <3> QED BY <2>1, <3>2, <3>3
  <2>6. \E i \in DOMAIN taken' : bar'.high = taken'[i].ltp
    <3>1. PICK i \in DOMAIN taken : bar.high = taken[i].ltp
      BY <1>9
    <3>2. i \in DOMAIN taken' /\ taken'[i].ltp = bar.high
      BY <1>7, <3>1
    <3>3. bar'.high = bar.high \/ bar'.high = tick.ltp
      BY <1>6 DEF Greater
    <3> QED BY <2>1, <3>2, <3>3
  <2> HIDE DEF n
  <2> QED BY <1>4, <1>6, <2>2, <2>3, <2>4, <2>5, <2>6 DEF BarIsItsTicks
<1>13. ValueBound'
  <2>1. bar.volume \in Nat /\ bar.value \in Nat
    BY <1>5 DEF Running
  <2>2. bar.low * bar.volume <= bar.value /\ bar.value <= bar.high * bar.volume
    BY DEF IInv, ValueBound
  <2>3. /\ Lesser(bar.low, tick.ltp) * (bar.volume + delta) <= bar.value + tick.ltp * delta
        /\ bar.value + tick.ltp * delta <= Greater(bar.high, tick.ltp) * (bar.volume + delta)
    BY <1>1, <1>2, <1>11, <2>1, <2>2, ExtendedValue
  <2> QED BY <1>6, <2>3 DEF ValueBound
<1>14. Envelope(bar')
  <2>1. bar.open \in Nat /\ bar.low <= bar.open /\ bar.open <= bar.high
    BY <1>5 DEF IInv, Envelope, Running
  <2> QED BY <1>2, <1>6, <1>11, <2>1 DEF Envelope, Lesser, Greater
<1>15. VwapWithinBar' /\ BarsAdvance' /\ PendingLast'
  BY <1>4, <1>6 DEF IInv, VwapWithinBar, BarsAdvance, PendingLast
<1> QED BY <1>8, <1>12, <1>13, <1>14, <1>15 DEF IInv

(* What a bar that is appended to the emitted ones leaves of VwapWithinBar. *)
LEMMA EmittedBar ==
  ASSUME IInv, bar.start # None, Valid(bar), NEW vwap \in Vwap(bar),
         bars' = Append(bars, Sealed(bar, vwap))
  PROVE  /\ Sealed(bar, vwap) \in Bar /\ Sealed(bar, vwap).start = bar.start
         /\ bars' \in Seq(Bar) /\ bars \in Seq(Bar)
         /\ Len(bars) \in Nat /\ Len(bars') = Len(bars) + 1
         /\ DOMAIN bars = 1 .. Len(bars) /\ DOMAIN bars' = 1 .. Len(bars) + 1
         /\ \A i \in DOMAIN bars : bars'[i] = bars[i]
         /\ bars'[Len(bars) + 1] = Sealed(bar, vwap)
         /\ VwapWithinBar'
<1> DEFINE s == Sealed(bar, vwap)
<1>1. s \in Bar /\ s.start = bar.start /\ s.low <= s.vwap /\ s.vwap <= s.high
  BY SealedBar DEF IInv, TypeOK, ValueBound
<1> HIDE DEF s
<1>2. bars \in Seq(Bar) /\ bars' = Append(bars, s)
  BY DEF IInv, TypeOK, s
<1>3. /\ bars' \in Seq(Bar)
      /\ Len(bars) \in Nat /\ Len(bars') = Len(bars) + 1
      /\ DOMAIN bars = 1 .. Len(bars) /\ DOMAIN bars' = 1 .. Len(bars) + 1
      /\ \A i \in DOMAIN bars : bars'[i] = bars[i]
      /\ bars'[Len(bars) + 1] = s
  BY <1>1, <1>2, AppendProperties
<1>4. VwapWithinBar'
  <2> SUFFICES ASSUME NEW i \in DOMAIN bars'
               PROVE  bars'[i].low <= bars'[i].vwap /\ bars'[i].vwap <= bars'[i].high
    BY DEF VwapWithinBar
  <2>1. CASE i \in DOMAIN bars
    BY <1>3, <2>1 DEF IInv, VwapWithinBar
  <2>2. CASE i = Len(bars) + 1
    BY <1>1, <1>3, <2>2
  <2> QED BY <1>3, <2>1, <2>2
<1> QED BY <1>1, <1>2, <1>3, <1>4 DEF s

LEMMA RolloverPreserves ==
  ASSUME IInv, NEW tick \in Tick, ProcessTick(tick), Rollover(tick)
  PROVE  IInv'
<1>1. VolumeDelta(tick) \in Nat
  BY DeltaNat DEF IInv
<1>2. /\ bar' \in Running /\ bar'.start = Bucket(tick.time) /\ bar'.start \in Nat
      /\ taken' \in Seq([ltp : Prices, delta : Nat])
      /\ BarIsItsTicks' /\ ValueBound' /\ Envelope(bar')
  BY <1>1, FreshBar DEF Rollover, AfterRollover
<1>3. PICK vwap \in Vwap(bar) :
        bars' = Append(bars, Sealed(bar, vwap)) /\ pending' = <<Sealed(bar, vwap)>>
  BY DEF Rollover
<1> DEFINE s == Sealed(bar, vwap)
<1>4. bar.start # None /\ Valid(bar) /\ bar.start < bar'.start
  BY <1>2 DEF Rollover
<1>5. /\ s \in Bar /\ s.start = bar.start
      /\ bars' \in Seq(Bar) /\ bars \in Seq(Bar)
      /\ Len(bars) \in Nat /\ Len(bars') = Len(bars) + 1
      /\ DOMAIN bars = 1 .. Len(bars) /\ DOMAIN bars' = 1 .. Len(bars) + 1
      /\ \A i \in DOMAIN bars : bars'[i] = bars[i]
      /\ bars'[Len(bars) + 1] = s
      /\ VwapWithinBar'
  BY <1>3, <1>4, EmittedBar
<1>6. pending' = <<s>> /\ pending = <<>> /\ handed' = handed /\ flushed' = flushed
  BY <1>3 DEF ProcessTick, Rollover, Take
<1> HIDE DEF s
<1>7. pending' \in Seq(Bar) /\ Len(pending') = 1 /\ DOMAIN pending' = {1} /\ pending'[1] = s
  BY <1>5, <1>6
<1>8. TypeOK'
  <2>1. total' \in 0 .. MaxTicks
    BY AggregatorAssumption DEF ProcessTick, IInv, TypeOK
  <2>2. session' \in Volumes \cup {None} /\ flushed' \in BOOLEAN /\ handed' \in Seq(Nat)
    BY SessionTyped DEF Rollover, Take, IInv, TypeOK
  <2>3. regular' \in BOOLEAN
    BY DEF Rollover, StillRegular, IInv, TypeOK
  <2>4. last' \in {<<>>} \cup {<<x>> : x \in Tick}
    BY DEF Rollover
  <2>5. config' \in Config /\ Len(pending') <= 1
    BY <1>7 DEF ProcessTick, IInv, TypeOK
  <2> QED BY <1>2, <1>5, <1>7, <2>1, <2>2, <2>3, <2>4, <2>5 DEF TypeOK
<1>9. BarsAdvance'
  <2> SUFFICES ASSUME ~flushed' PROVE BarsAdvance!2'
    BY DEF BarsAdvance
  <2>1. /\ \A i, j \in DOMAIN bars : i < j => bars[i].start < bars[j].start
        /\ \A i \in DOMAIN bars : bars[i].start < bar.start
        /\ Len(handed) + Len(pending) = Len(bars)
        /\ \A i \in DOMAIN handed : handed[i] = bars[i].start
    BY <1>6 DEF IInv, BarsAdvance
  <2>2. handed \in Seq(Nat) /\ Len(handed) = Len(bars)
    BY <1>6, <2>1 DEF IInv, TypeOK
  <2>3. DOMAIN handed = DOMAIN bars
    BY <1>5, <2>2
  <2>4. \A i \in DOMAIN bars : bars[i].start \in Nat
    <3>1. \A i \in DOMAIN bars : bars[i] \in Bar
      BY <1>5, ElementOfSeq
    <3> QED BY <3>1 DEF Bar
  <2>5. bar.start \in Nat
    BY <1>4 DEF IInv, TypeOK, Running
  <2>6. ASSUME NEW i \in DOMAIN bars', NEW j \in DOMAIN bars', i < j
        PROVE  bars'[i].start < bars'[j].start
    <3>1. i \in DOMAIN bars
      BY <1>5, <2>6
    <3>2. CASE j \in DOMAIN bars
      BY <1>5, <2>1, <2>6, <3>1, <3>2
    <3>3. CASE j = Len(bars) + 1
      BY <1>5, <2>1, <3>1, <3>3
    <3> QED BY <1>5, <3>2, <3>3
  <2>7. ASSUME NEW i \in DOMAIN bars'
        PROVE  bars'[i].start < bar'.start
    <3>1. CASE i \in DOMAIN bars
      <4>1. bars'[i].start = bars[i].start /\ bars[i].start \in Nat /\ bars[i].start < bar.start
        BY <1>5, <2>1, <2>4, <3>1
      <4> QED BY <1>2, <1>4, <2>5, <4>1
    <3>2. CASE i = Len(bars) + 1
      BY <1>4, <1>5, <3>2
    <3> QED BY <1>5, <3>1, <3>2
  <2>8. Len(handed') + Len(pending') = Len(bars')
    BY <1>5, <1>6, <1>7, <2>2
  <2>9. \A i \in DOMAIN handed' : handed'[i] = bars'[i].start
    BY <1>5, <1>6, <2>1, <2>3
  <2> QED BY <2>6, <2>7, <2>8, <2>9
<1>10. PendingLast'
  BY <1>5, <1>7 DEF PendingLast
<1> QED BY <1>2, <1>5, <1>8, <1>9, <1>10 DEF IInv

(* A tick that is dropped, or that fails to close the bar, leaves every    *)
(* bar alone.                                                              *)
LEMMA RefusalPreserves ==
  ASSUME IInv, NEW tick \in Tick, ProcessTick(tick), Drop(tick) \/ FailToRoll(tick)
  PROVE  IInv'
<1>1. /\ bar' = bar /\ last' = last /\ bars' = bars /\ pending' = pending
      /\ taken' = taken /\ flushed' = flushed /\ handed' = handed /\ config' = config
  BY DEF ProcessTick, Drop, FailToRoll, Take
<1>2. total' \in 0 .. MaxTicks
  BY AggregatorAssumption DEF ProcessTick, IInv, TypeOK
<1>3. session' \in Volumes \cup {None}
  BY SessionTyped DEF Drop, FailToRoll, Take, IInv, TypeOK
<1>4. regular' \in BOOLEAN
  BY DEF Drop, FailToRoll, IInv, TypeOK
<1>5. TypeOK'
  BY <1>1, <1>2, <1>3, <1>4 DEF IInv, TypeOK
<1>6. BarIsItsTicks' /\ ValueBound' /\ Envelope(bar')
  BY <1>1 DEF IInv, BarIsItsTicks, ValueBound, Envelope
<1>7. VwapWithinBar' /\ BarsAdvance' /\ PendingLast'
  BY <1>1 DEF IInv, VwapWithinBar, BarsAdvance, PendingLast
<1> QED BY <1>1, <1>5, <1>6, <1>7 DEF IInv

LEMMA HandOverPreserves ==
  ASSUME IInv, HandOver
  PROVE  IInv'
<1>1. /\ bar' = bar /\ last' = last /\ bars' = bars /\ session' = session
      /\ taken' = taken /\ flushed' = flushed /\ config' = config /\ total' = total
      /\ regular' = regular /\ pending' = <<>>
      /\ pending # <<>> /\ handed' = Append(handed, pending[1].start)
  BY DEF HandOver
<1>2. /\ pending \in Seq(Bar) /\ Len(pending) = 1 /\ 1 \in DOMAIN pending
      /\ pending[1] \in Bar
  <2>1. pending \in Seq(Bar) /\ Len(pending) <= 1
    BY DEF IInv, TypeOK
  <2>2. Len(pending) = 1
    <3> DEFINE B == Bar
    <3>1. pending \in Seq(B) /\ pending # <<>>
      BY <1>1, <2>1
    <3> HIDE DEF B
    <3>2. \A seq \in Seq(B) : seq # <<>> => Len(seq) \in Nat \ {0}
      BY EmptySeq, Zenon
    <3>3. Len(pending) \in Nat \ {0}
      BY <3>1, <3>2, Zenon
    <3> DEFINE n == Len(pending)
    <3>4. n \in Nat \ {0} /\ n <= 1
      BY <2>1, <3>3
    <3> HIDE DEF n
    <3>5. n = 1
      BY <3>4
    <3> QED BY <3>5 DEF n
  <2> QED BY <2>1, <2>2, ElementOfSeq
<1> DEFINE start == pending[1].start
<1>3. start \in Nat
  BY <1>2 DEF Bar
<1> HIDE DEF start
<1>4. /\ handed \in Seq(Nat) /\ handed' = Append(handed, start)
      /\ Len(handed) \in Nat
  BY <1>1 DEF IInv, TypeOK, start
<1>5. /\ handed' \in Seq(Nat) /\ Len(handed') = Len(handed) + 1
      /\ DOMAIN handed = 1 .. Len(handed) /\ DOMAIN handed' = 1 .. Len(handed) + 1
      /\ \A i \in DOMAIN handed : handed'[i] = handed[i]
      /\ handed'[Len(handed) + 1] = start
  BY <1>3, <1>4, AppendProperties
<1>6. TypeOK'
  BY <1>1, <1>5 DEF IInv, TypeOK
<1>7. BarIsItsTicks' /\ ValueBound' /\ Envelope(bar') /\ VwapWithinBar' /\ PendingLast'
  BY <1>1 DEF IInv, BarIsItsTicks, ValueBound, Envelope, VwapWithinBar, PendingLast
<1>8. BarsAdvance'
  <2> SUFFICES ASSUME ~flushed' PROVE BarsAdvance!2'
    BY DEF BarsAdvance
  <2>1. /\ \A i, j \in DOMAIN bars : i < j => bars[i].start < bars[j].start
        /\ \A i \in DOMAIN bars : bars[i].start < bar.start
        /\ Len(handed) + Len(pending) = Len(bars)
        /\ \A i \in DOMAIN handed : handed[i] = bars[i].start
    BY <1>1 DEF IInv, BarsAdvance
  <2>2. Len(handed) + 1 = Len(bars) /\ start = bars[Len(bars)].start
    BY <1>1, <1>2, <2>1 DEF IInv, PendingLast, start
  <2>3. \A i \in DOMAIN handed' : handed'[i] = bars'[i].start
    BY <1>1, <1>5, <2>1, <2>2
  <2>4. Len(handed') + Len(pending') = Len(bars')
    BY <1>1, <1>4, <1>5, <2>2
  <2> QED BY <1>1, <2>1, <2>3, <2>4
<1> QED BY <1>1, <1>6, <1>7, <1>8 DEF IInv

LEMMA FlushPreserves ==
  ASSUME IInv, Flush
  PROVE  IInv'
<1>1. PICK vwap \in Vwap(bar) : bars' = Append(bars, Sealed(bar, vwap))
  BY DEF Flush
<1>2. bars' \in Seq(Bar) /\ VwapWithinBar'
  BY <1>1, EmittedBar DEF Flush
<1>3. /\ bar' = NoBar /\ taken' = <<>> /\ flushed' = TRUE
      /\ UNCHANGED <<config, last, session, pending, total, regular, handed>>
  BY DEF Flush
<1>4. TypeOK'
  <2>1. bar' \in Running
    BY <1>3 DEF NoBar, Running, None
  <2>2. taken' \in Seq([ltp : Prices, delta : Nat])
    BY <1>3
  <2> QED BY <1>2, <1>3, <2>1, <2>2 DEF IInv, TypeOK
<1>5. BarIsItsTicks' /\ ValueBound' /\ Envelope(bar')
  BY <1>3 DEF NoBar, BarIsItsTicks, ValueBound, Envelope
<1>6. BarsAdvance' /\ PendingLast'
  BY <1>3 DEF BarsAdvance, PendingLast
<1> QED BY <1>2, <1>4, <1>5, <1>6 DEF IInv

LEMMA NextPreserves ==
  ASSUME IInv, [Next]_vars
  PROVE  IInv'
<1>1. CASE \E tick \in Tick : ProcessTick(tick)
  <2>1. PICK tick \in Tick : ProcessTick(tick)
    BY <1>1
  <2>2. CASE Start(tick)
    BY <2>1, <2>2, StartPreserves
  <2>3. CASE Continue(tick)
    BY <2>1, <2>3, ContinuePreserves
  <2>4. CASE Rollover(tick)
    BY <2>1, <2>4, RolloverPreserves
  <2>5. CASE Drop(tick) \/ FailToRoll(tick)
    BY <2>1, <2>5, RefusalPreserves
  <2> QED BY <2>1, <2>2, <2>3, <2>4, <2>5 DEF ProcessTick
<1>2. CASE HandOver
  BY <1>2, HandOverPreserves
<1>3. CASE Flush
  BY <1>3, FlushPreserves
<1>4. CASE UNCHANGED vars
  <2>1. TypeOK'
    BY <1>4 DEF IInv, TypeOK, vars
  <2>2. BarIsItsTicks' /\ ValueBound' /\ Envelope(bar')
    BY <1>4 DEF IInv, BarIsItsTicks, ValueBound, Envelope, vars
  <2>3. VwapWithinBar' /\ BarsAdvance' /\ PendingLast'
    BY <1>4 DEF IInv, VwapWithinBar, BarsAdvance, PendingLast, vars
  <2> QED BY <2>1, <2>2, <2>3 DEF IInv
<1> QED BY <1>1, <1>2, <1>3, <1>4 DEF Next

-----------------------------------------------------------------------------
(* The volume.  An absent bar has none, so that a bar opened after a flush *)
(* starts where the sealed ones end.                                       *)

CountInv ==
  /\ bar.start = None => bar.volume = 0
  /\ VolumeCountedOnce

Counted == Total(VolumesOf(bars))

LEMMA VolumesAppend ==
  ASSUME bars \in Seq(Bar), NEW b \in Bar
  PROVE  /\ VolumesOf(bars) \in Seq(Int)
         /\ VolumesOf(Append(bars, b)) = Append(VolumesOf(bars), b.volume)
<1> DEFINE n == Len(bars)
           more == Append(bars, b)
           v == VolumesOf(bars)
           w == VolumesOf(more)
           x == b.volume
<1>1. /\ n \in Nat /\ DOMAIN bars = 1 .. n /\ more \in Seq(Bar)
      /\ Len(more) = n + 1 /\ DOMAIN more = 1 .. n + 1
      /\ \A i \in 1 .. n : more[i] = bars[i]
      /\ more[n + 1] = b
  BY AppendProperties
<1>2. \A i \in 1 .. n + 1 : more[i].volume \in Nat
  <2>1. \A i \in 1 .. n + 1 : more[i] \in Bar
    BY <1>1, ElementOfSeq
  <2> QED BY <2>1 DEF Bar
<1> HIDE DEF more, n, x
<1>3. w \in [1 .. n + 1 -> Int] /\ v \in [1 .. n -> Int]
  BY <1>1, <1>2 DEF VolumesOf
<1>4. \A i \in 1 .. n : w[i] = v[i]
  BY <1>1 DEF VolumesOf
<1>5. w[n + 1] = x
  BY <1>1 DEF VolumesOf, x
<1> HIDE DEF v, w
<1>6. v \in Seq(Int) /\ w \in Seq(Int) /\ Len(v) = n /\ Len(w) = n + 1 /\ x \in Int
  BY <1>1, <1>3, <1>5
<1> DEFINE u == Append(v, x)
<1>7. u \in Seq(Int) /\ Len(u) = n + 1 /\ u[n + 1] = x /\ \A i \in 1 .. n : u[i] = v[i]
  BY <1>1, <1>6, AppendProperties
<1> HIDE DEF u
<1>8. \A i \in 1 .. n + 1 : w[i] = u[i]
  BY <1>1, <1>4, <1>5, <1>7
<1>9. w = u
  BY <1>6, <1>7, <1>8, SeqEqual
<1> QED BY <1>6, <1>9 DEF u, v, w, more, x

LEMMA CountedInt ==
  ASSUME TypeOK
  PROVE  Counted \in Int /\ bar.volume \in Nat
<1>1. VolumesOf(bars) \in Seq(Int)
  <2>1. bars \in Seq(Bar) /\ \A i \in DOMAIN bars : bars[i] \in Bar
    BY ElementOfSeq DEF TypeOK
  <2>2. \A i \in DOMAIN bars : bars[i].volume \in Int
    BY <2>1 DEF Bar
  <2> QED BY <2>1, <2>2 DEF VolumesOf
<1> QED BY <1>1, TotalInt DEF Counted, TypeOK, Running

(* Sealing the running bar moves its volume to the emitted ones.           *)
LEMMA SealedCounted ==
  ASSUME IInv, bar.start # None, Valid(bar), NEW vwap \in Vwap(bar),
         bars' = Append(bars, Sealed(bar, vwap))
  PROVE  Counted' = Counted + bar.volume
<1> DEFINE b == Sealed(bar, vwap)
<1>1. b \in Bar /\ bars \in Seq(Bar)
  BY EmittedBar
<1>2. b.volume = bar.volume /\ bar.volume \in Int
  BY DEF Sealed, IInv, TypeOK, Running
<1> HIDE DEF b
<1>3. /\ VolumesOf(bars) \in Seq(Int)
      /\ VolumesOf(Append(bars, b)) = Append(VolumesOf(bars), b.volume)
  BY <1>1, VolumesAppend
<1>4. Total(Append(VolumesOf(bars), bar.volume)) = Total(VolumesOf(bars)) + bar.volume
  BY <1>2, <1>3, TotalAppend
<1>5. Counted' = Total(VolumesOf(Append(bars, b)))
  BY DEF Counted, b
<1> QED BY <1>2, <1>3, <1>4, <1>5 DEF Counted

(* What the session's volume grows by is what the tick is counted for, as  *)
(* long as it does not fall.                                               *)
SessionCount == IF session = None THEN 0 ELSE session

LEMMA DeltaCounted ==
  ASSUME TypeOK, NEW tick \in Tick, config.mode = "CUMULATIVE", StillRegular(tick),
         session' = SessionVolume(tick)
  PROVE  SessionCount' = SessionCount + VolumeDelta(tick)
<1>1. tick.volume \in Nat /\ session \in Nat \cup {None}
  BY AggregatorAssumption DEF TypeOK, Tick
<1>2. tick.volume # None
  BY <1>1 DEF None
<1>3. SessionCount' = tick.volume
  BY <1>2 DEF SessionCount, SessionVolume
<1>4. VolumeDelta(tick) = IF session = None THEN tick.volume ELSE tick.volume - session
  BY <1>1 DEF StillRegular, VolumeDelta, None
<1> QED BY <1>1, <1>3, <1>4 DEF SessionCount, None

LEMMA CountUnfolds ==
  VolumeCountedOnce <=>
    (config.mode = "CUMULATIVE" /\ regular => Counted + bar.volume = SessionCount)
  BY Zenon DEF VolumeCountedOnce, Counted, SessionCount

LEMMA CountInit == Init => CountInv
<1> SUFFICES ASSUME Init PROVE CountInv
  OBVIOUS
<1>1. VolumesOf(bars) = <<>>
  BY DEF Init, VolumesOf
<1>2. Counted = 0
  BY <1>1, TotalEmpty DEF Counted
<1>3. bar.volume = 0 /\ SessionCount = 0
  BY DEF Init, NoBar, SessionCount
<1> QED BY <1>2, <1>3, CountUnfolds DEF CountInv

(* A tick that is taken adds its volume to the running bar, or to a new    *)
(* one beside the bar it closes.                                           *)
LEMMA CountTick ==
  ASSUME IInv, CountInv, NEW tick \in Tick, ProcessTick(tick),
         Start(tick) \/ Continue(tick) \/ Rollover(tick)
  PROVE  CountInv'
<1> DEFINE delta == VolumeDelta(tick)
<1>1. delta \in Nat
  BY DeltaNat DEF IInv
<1>2. /\ Counted \in Int /\ bar.volume \in Nat /\ bar \in Running
  BY CountedInt DEF IInv, TypeOK
<1>3. /\ config' = config /\ session' = SessionVolume(tick)
      /\ regular' = StillRegular(tick)
  BY DEF ProcessTick, Start, Continue, Rollover, Take
<1>4. /\ Opened(tick, delta).start # None /\ Opened(tick, delta).volume = delta
      /\ Extended(bar, tick, delta).start = bar.start
      /\ Extended(bar, tick, delta).volume = bar.volume + delta
  <2>1. Bucket(tick.time) # None
    BY TickTyped, BucketNat DEF None
  <2> QED BY <1>1, <1>2, <2>1, OpenedBar, ExtendedBar
<1>5. /\ Counted' + bar'.volume = (Counted + bar.volume) + delta
      /\ bar'.start # None
  <2>1. CASE Start(tick)
    <3>1. bars' = bars /\ bar' = Opened(tick, delta) /\ bar.volume = 0
      BY <2>1 DEF Start, CountInv
    <3>2. Counted' = Counted
      BY <3>1 DEF Counted
    <3> HIDE DEF delta
    <3> QED BY <1>1, <1>2, <1>4, <3>1, <3>2
  <2>2. CASE Continue(tick)
    <3>1. bars' = bars /\ bar' = Extended(bar, tick, delta) /\ bar.start # None
      BY <2>2 DEF Continue
    <3>2. Counted' = Counted
      BY <3>1 DEF Counted
    <3> HIDE DEF delta
    <3> QED BY <1>1, <1>2, <1>4, <3>1, <3>2
  <2>3. CASE Rollover(tick)
    <3>1. bar.start # None /\ Valid(bar) /\ bar' = Opened(tick, delta)
      BY <2>3 DEF Rollover, AfterRollover
    <3>2. PICK vwap \in Vwap(bar) : bars' = Append(bars, Sealed(bar, vwap))
      BY <2>3 DEF Rollover
    <3>3. Counted' = Counted + bar.volume
      BY <3>1, <3>2, SealedCounted
    <3> HIDE DEF delta
    <3> QED BY <1>1, <1>2, <1>4, <3>1, <3>3
  <2> QED BY <2>1, <2>2, <2>3
<1>6. ASSUME config'.mode = "CUMULATIVE", regular'
      PROVE  Counted' + bar'.volume = SessionCount'
  <2>1. config.mode = "CUMULATIVE" /\ StillRegular(tick) /\ regular
    BY <1>3, <1>6, Zenon DEF StillRegular
  <2>2. Counted + bar.volume = SessionCount
    BY <2>1, CountUnfolds DEF CountInv
  <2>3. SessionCount' = SessionCount + delta
    BY <1>3, <2>1, DeltaCounted DEF IInv
  <2> HIDE DEF delta
  <2> QED BY <1>5, <2>2, <2>3
<1>7. VolumeCountedOnce'
  BY <1>6, Zenon DEF VolumeCountedOnce, Counted, SessionCount
<1> QED BY <1>5, <1>7, Zenon DEF CountInv

LEMMA CountPreserves ==
  ASSUME IInv, CountInv, [Next]_vars
  PROVE  CountInv'
<1>1. ASSUME NEW tick \in Tick, ProcessTick(tick)
      PROVE  CountInv'
  <2>1. CASE Start(tick) \/ Continue(tick) \/ Rollover(tick)
    BY <1>1, <2>1, CountTick
  <2>2. CASE Drop(tick)
    BY <1>1, <2>2, Zenon DEF ProcessTick, Drop, CountInv, VolumeCountedOnce
  <2>3. CASE FailToRoll(tick)
    BY <2>3, Zenon DEF FailToRoll, CountInv, VolumeCountedOnce
  <2> QED BY <1>1, <2>1, <2>2, <2>3 DEF ProcessTick
<1>2. CASE HandOver
  BY <1>2, Zenon DEF HandOver, CountInv, VolumeCountedOnce
<1>3. CASE Flush
  <2>1. /\ bar.start # None /\ Valid(bar) /\ bar' = NoBar
        /\ config' = config /\ session' = session /\ regular' = regular
    BY <1>3 DEF Flush
  <2>2. PICK vwap \in Vwap(bar) : bars' = Append(bars, Sealed(bar, vwap))
    BY <1>3 DEF Flush
  <2>3. Counted' = Counted + bar.volume /\ Counted \in Int /\ bar.volume \in Nat
    BY <2>1, <2>2, SealedCounted, CountedInt DEF IInv
  <2>4. bar'.volume = 0
    BY <2>1 DEF NoBar
  <2>5. Counted' + bar'.volume = Counted + bar.volume
    BY <2>3, <2>4
  <2>6. VolumeCountedOnce'
    BY <2>1, <2>5, Zenon DEF CountInv, VolumeCountedOnce, Counted
  <2> QED BY <2>4, <2>6 DEF CountInv
<1>4. CASE UNCHANGED vars
  BY <1>4, Zenon DEF vars, CountInv, VolumeCountedOnce
<1> QED BY <1>1, <1>2, <1>3, <1>4 DEF Next

-----------------------------------------------------------------------------
(* The theorems.                                                           *)

(* IInv is inductive: no tick, callback or flush, in any order, leaves it. *)
THEOREM Inductive == Spec => []IInv
<1>1. Init => IInv
  BY InitEstablishes
<1>2. IInv /\ [Next]_vars => IInv'
  BY NextPreserves
<1> QED BY <1>1, <1>2, PTL DEF Spec

(* The aggregator's state keeps its types; every emitted bar passes Bar's  *)
(* validators, its prices and its volume-weighted price among them.        *)
THEOREM TypeCorrect == Spec => []TypeOK
<1>1. IInv => TypeOK
  BY DEF IInv
<1> QED BY <1>1, Inductive, PTL

(* The running bar of process_tick is the summary of the ticks it took.    *)
THEOREM BarsHoldTheirTicks == Spec => []BarIsItsTicks
<1>1. IInv => BarIsItsTicks
  BY DEF IInv
<1> QED BY <1>1, Inductive, PTL

(* The volume-weighted price of every emitted bar is within the bar, after *)
(* division and rounding to two places, in every volume mode.              *)
THEOREM VwapIsWithin == Spec => []VwapWithinBar
<1>1. IInv => VwapWithinBar
  BY DEF IInv
<1> QED BY <1>1, Inductive, PTL

(* Without a flush, bars leave in the order of their buckets and the       *)
(* callbacks follow them.                                                  *)
THEOREM BarsLeaveInOrder == Spec => []BarsAdvance
<1>1. IInv => BarsAdvance
  BY DEF IInv
<1> QED BY <1>1, Inductive, PTL

(* In cumulative mode process_tick and flush neither lose nor double any   *)
(* volume: closed and running bars add up to what the feed reported last,  *)
(* for sessions of any length.                                             *)
THEOREM VolumeIsCountedOnce == Spec => []VolumeCountedOnce
<1>1. Init => CountInv
  BY CountInit
<1>2. IInv /\ CountInv /\ [Next]_vars => CountInv'
  BY CountPreserves
<1>3. CountInv => VolumeCountedOnce
  BY DEF CountInv
<1> QED BY <1>1, <1>2, <1>3, Inductive, PTL DEF Spec
=============================================================================
