-------------------------- MODULE PaperBrokerProofs --------------------------
(***************************************************************************)
(* Theorems about PaperBroker for all symbols, prices, quantities and any  *)
(* number of orders: type correctness, the limit price, and the ledger     *)
(* identities with their rounding bound.                                   *)
(***************************************************************************)
EXTENDS PaperBroker, SequenceTheorems, WellFoundedInduction, TLAPS

-----------------------------------------------------------------------------
(* Rounding.                                                               *)

LEMMA RoundHalfEvenInt ==
  ASSUME NEW n \in Int, NEW d \in Nat \ {0}
  PROVE  RoundHalfEven(n, d) \in Int
  BY SMT DEF RoundHalfEven

LEMMA RoundHalfEvenNat ==
  ASSUME NEW n \in Nat, NEW d \in Nat \ {0}
  PROVE  RoundHalfEven(n, d) \in Nat
  BY SMT DEF RoundHalfEven

(* What Nearest promises: at most half a unit of error per divisor. *)
LEMMA NearestBound ==
  ASSUME NEW n \in Int, NEW d \in Nat \ {0}, NEW r \in Nearest(n, d)
  PROVE  /\ r \in Int
         /\ 2 * n - d <= 2 * (d * r)
         /\ 2 * (d * r) <= 2 * n + d
  BY SMT DEF Nearest

LEMMA NearestNat ==
  ASSUME NEW n \in Nat, NEW d \in Nat \ {0}, NEW r \in Nearest(n, d)
  PROVE  r \in Nat
  BY SMT DEF Nearest

(* An exact quotient is not moved. *)
LEMMA NearestExact ==
  ASSUME NEW p \in Nat, NEW d \in Nat \ {0}, NEW r \in Nearest(d * p, d)
  PROVE  r = p
<1>1. /\ r \in Int
      /\ 2 * (d * p) - d <= 2 * (d * r)
      /\ 2 * (d * r) <= 2 * (d * p) + d
  BY NearestBound
<1>2. CASE r >= p + 1
  BY <1>1, <1>2, d * r >= d * (p + 1), SMT
<1>3. CASE r <= p - 1
  BY <1>1, <1>3, d * r <= d * (p - 1), SMT
<1> QED BY <1>1, <1>2, <1>3

-----------------------------------------------------------------------------
(* Sums.  What FoldLeft adds up, by induction on the length.               *)

(* A set of naturals has a least element: induction, without an operator.  *)
Below == {p \in Nat \X Nat : p[1] < p[2]}

LEMMA LeastNat ==
  ASSUME NEW T, T \subseteq Nat, T # {}
  PROVE  \E n \in T : \A m \in T : n <= m
<1>1. IsWellFoundedOn(Below, Nat)
  BY NatLessThanWellFounded, Zenon DEF OpToRel, Below
<1>2. \E n \in T : \A m \in T : ~ (<<m, n>> \in Below)
  BY <1>1, WFMin, Zenon
<1>3. \A m, n \in Nat : ~ (<<m, n>> \in Below) => n <= m
  BY SMT DEF Below
<1> QED BY <1>2, <1>3, Zenon

(* The last index of a set of indices. *)
LEMMA MaxOf ==
  ASSUME NEW n \in Nat, NEW d \in SUBSET (1 .. n), d # {}
  PROVE  /\ Max(d) \in d /\ \A i \in d : i <= Max(d)
         /\ Max(d) \in 1 .. n
         /\ d \ {Max(d)} \in SUBSET (1 .. Max(d) - 1)
<1> DEFINE Bounds == {u \in Nat : \A i \in d : i <= u}
<1>1. n \in Bounds
  OBVIOUS
<1>2. PICK u \in Bounds : \A v \in Bounds : u <= v
  BY <1>1, LeastNat
<1>3. u \in d
  <2> SUFFICES ASSUME u \notin d PROVE FALSE
    OBVIOUS
  <2>1. \A i \in d : i \in Nat \ {0} /\ i <= u /\ i # u
    BY <1>2
  <2>2. PICK i \in d : TRUE
    OBVIOUS
  <2>3. u - 1 \in Nat
    BY <1>2, <2>1, <2>2
  <2>4. \A j \in d : j <= u - 1
    BY <2>1, <2>3
  <2>5. u - 1 \in Bounds /\ u \in Nat
    BY <1>2, <2>3, <2>4
  <2> HIDE DEF Bounds
  <2> QED BY <1>2, <2>3, <2>5
<1>4. \A i \in d : u >= i
  BY <1>2
<1> DEFINE top == Max(d)
<1>5. top \in d /\ \A i \in d : top >= i
  BY <1>3, <1>4, Zenon DEF Max
<1> HIDE DEF top
<1>6. /\ top \in 1 .. n
      /\ \A i \in d : i <= top
      /\ \A i \in d \ {top} : i \in 1 .. top - 1
  BY <1>5
<1> QED BY <1>5, <1>6, Zenon DEF top

(* The function FoldLeft builds: the sums of w over every set of indices.  *)
Partial(h, w, n) ==
  h = [d \in SUBSET (1 .. n) |-> IF d = {} THEN 0 ELSE h[d \ {Max(d)}] + w[Max(d)]]

LEMMA PartialExists ==
  ASSUME NEW w, NEW n \in Nat, \A i \in 1 .. n : w[i] \in Int
  PROVE  \E h \in [SUBSET (1 .. n) -> Int] : Partial(h, w, n)
<1> DEFINE Exists(m) == \E h \in [SUBSET (1 .. m) -> Int] : Partial(h, w, m)
           Bad == {m \in 0 .. n : ~ Exists(m)}
<1>1. Exists(0)
  <2> DEFINE h == [d \in SUBSET (1 .. 0) |-> 0]
  <2>1. \A d \in SUBSET (1 .. 0) : d = {}
    OBVIOUS
  <2>2. h \in [SUBSET (1 .. 0) -> Int] OBVIOUS
  <2>3. Partial(h, w, 0)
    BY <2>1, Zenon DEF Partial
  <2> HIDE DEF h
  <2> QED BY <2>2, <2>3, Zenon
<1>2. ASSUME NEW m \in 0 .. n, m + 1 \in 0 .. n, Exists(m) PROVE Exists(m + 1)
  <2>1. PICK h \in [SUBSET (1 .. m) -> Int] : Partial(h, w, m)
    BY <1>2
  <2> DEFINE g == [d \in SUBSET (1 .. m + 1) |->
                     IF d = {} THEN 0 ELSE h[d \ {Max(d)}] + w[Max(d)]]
  <2>2. \A d \in SUBSET (1 .. m + 1) : d # {} =>
          Max(d) \in 1 .. n /\ d \ {Max(d)} \in SUBSET (1 .. m)
    BY <1>2, MaxOf
  <2>3. g \in [SUBSET (1 .. m + 1) -> Int]
    BY <2>1, <2>2
  <2>4. SUBSET (1 .. m) \subseteq SUBSET (1 .. m + 1)
    OBVIOUS
  <2>5. \A d \in SUBSET (1 .. m) : g[d] = h[d]
    BY <2>1, <2>4, Zenon DEF Partial
  <2>6. Partial(g, w, m + 1)
    <3>1. \A d \in SUBSET (1 .. m + 1) : d # {} => h[d \ {Max(d)}] = g[d \ {Max(d)}]
      BY <2>2, <2>5, Zenon
    <3>2. g = [d \in SUBSET (1 .. m + 1) |->
                 IF d = {} THEN 0 ELSE h[d \ {Max(d)}] + w[Max(d)]]
      OBVIOUS
    <3> HIDE DEF g
    <3> QED BY <3>1, <3>2, Zenon DEF Partial
  <2> HIDE DEF g
  <2> QED BY <2>3, <2>6, Zenon
<1> HIDE DEF Exists
<1>3. Bad = {}
  <2> SUFFICES ASSUME Bad # {} PROVE FALSE
    OBVIOUS
  <2>1. PICK m \in Bad : \A k \in Bad : m <= k
    BY LeastNat, Bad \subseteq Nat
  <2>2. m # 0
    BY <1>1
  <2>3. m - 1 \in 0 .. n /\ m - 1 \notin Bad /\ (m - 1) + 1 = m
    BY <2>1, <2>2, SMT
  <2> QED BY <1>2, <2>1, <2>3
<1>4. n \in 0 .. n
  OBVIOUS
<1> QED BY <1>3, <1>4, Zenon DEF Exists

(* Two such functions agree where their sequences do. *)
LEMMA PartialsAgree ==
  ASSUME NEW n \in Nat, NEW m \in 0 .. n, NEW h, NEW k, NEW w, NEW v,
         Partial(h, w, n), Partial(k, v, m), \A i \in 1 .. m : w[i] = v[i]
  PROVE  \A d \in SUBSET (1 .. m) : h[d] = k[d]
<1> DEFINE Bad == {j \in 0 .. m : \E d \in SUBSET (1 .. j) : h[d] # k[d]}
<1> SUFFICES Bad = {}
  BY m \in 0 .. m
<1> SUFFICES ASSUME Bad # {} PROVE FALSE
  OBVIOUS
<1>1. PICK j \in Bad : \A i \in Bad : j <= i
  BY LeastNat, Bad \subseteq Nat
<1>2. PICK d \in SUBSET (1 .. j) : h[d] # k[d]
  BY <1>1
<1>3. d \in SUBSET (1 .. m) /\ d \in SUBSET (1 .. n)
  BY <1>2, SMT
<1>4. /\ h[d] = IF d = {} THEN 0 ELSE h[d \ {Max(d)}] + w[Max(d)]
      /\ k[d] = IF d = {} THEN 0 ELSE k[d \ {Max(d)}] + v[Max(d)]
  BY <1>3, Zenon DEF Partial
<1>5. d # {}
  BY <1>2, <1>4
<1>6. Max(d) \in 1 .. j /\ d \ {Max(d)} \in SUBSET (1 .. Max(d) - 1)
  BY <1>5, MaxOf
<1>7. Max(d) - 1 \in 0 .. m /\ Max(d) - 1 \notin Bad
  BY <1>1, <1>6, SMT
<1>8. h[d \ {Max(d)}] = k[d \ {Max(d)}]
  BY <1>6, <1>7, Zenon
<1>9. w[Max(d)] = v[Max(d)]
  BY <1>6
<1> QED BY <1>2, <1>4, <1>8, <1>9, Zenon

LEMMA PartialUnique ==
  ASSUME NEW n \in Nat, NEW h, NEW k, NEW w, Partial(h, w, n), Partial(k, w, n)
  PROVE  h = k
<1>1. n \in 0 .. n
  OBVIOUS
<1>2. \A d \in SUBSET (1 .. n) : h[d] = k[d]
  BY <1>1, PartialsAgree
<1> QED BY <1>2, Zenon DEF Partial

LEMMA TotalIsPartial ==
  ASSUME NEW w \in Seq(Int)
  PROVE  \E h \in [SUBSET (1 .. Len(w)) -> Int] :
           Partial(h, w, Len(w)) /\ Total(w) = h[1 .. Len(w)]
<1>1. DOMAIN w = 1 .. Len(w) /\ Len(w) \in Nat /\ \A i \in 1 .. Len(w) : w[i] \in Int
  OBVIOUS
<1> DEFINE n == Len(w)
           h == CHOOSE iter : Partial(iter, w, n)
<1>2. PICK k \in [SUBSET (1 .. n) -> Int] : Partial(k, w, n)
  BY <1>1, PartialExists
<1>3. Partial(h, w, n)
  BY <1>2, Zenon
<1>4. h = k
  BY <1>1, <1>2, <1>3, PartialUnique, Zenon
<1>5. Total(w) = h[1 .. n]
  <2>1. Total(w) = (CHOOSE iter :
          iter = [d \in SUBSET DOMAIN w |->
                    IF d = {} THEN 0 ELSE iter[d \ {Max(d)}] + w[Max(d)]])[DOMAIN w]
    BY Zenon DEF Total, FoldLeft, MapThenFoldSet
  <2> QED BY <1>1, <2>1, Zenon DEF Partial
<1> HIDE DEF h
<1> QED BY <1>2, <1>3, <1>4, <1>5, Zenon

LEMMA TotalEmpty == Total(<<>>) = 0
<1>1. <<>> \in Seq(Int) /\ Len(<<>>) = 0 /\ 1 .. 0 = {}
  OBVIOUS
<1>2. PICK h : Partial(h, <<>>, 0) /\ Total(<<>>) = h[1 .. 0]
  BY <1>1, TotalIsPartial
<1> QED BY <1>1, <1>2 DEF Partial

LEMMA TotalInt == ASSUME NEW w \in Seq(Int) PROVE Total(w) \in Int
  BY TotalIsPartial

LEMMA TotalAppend ==
  ASSUME NEW w \in Seq(Int), NEW x \in Int
  PROVE  Total(Append(w, x)) = Total(w) + x
<1> DEFINE v == Append(w, x)
           n == Len(w)
<1>1. /\ v \in Seq(Int) /\ Len(v) = n + 1 /\ v[n + 1] = x /\ n \in Nat
      /\ \A i \in 1 .. n : v[i] = w[i]
  OBVIOUS
<1> HIDE DEF v, n
<1>2. PICK h : Partial(h, v, n + 1) /\ Total(v) = h[1 .. n + 1]
  BY <1>1, TotalIsPartial
<1>3. PICK k : Partial(k, w, n) /\ Total(w) = k[1 .. n]
  BY TotalIsPartial DEF n
<1> DEFINE d == 1 .. n + 1
<1>4. /\ n + 1 \in Nat /\ n + 1 \in d /\ d # {} /\ d \in SUBSET (1 .. n + 1)
      /\ d \ {n + 1} = 1 .. n
  <2>1. \A i : i \in d \ {n + 1} <=> i \in 1 .. n
    BY <1>1, SMT
  <2>2. d \ {n + 1} = 1 .. n
    <3> HIDE DEF d
    <3> QED BY <2>1, Zenon
  <2>3. n + 1 \in Nat /\ n + 1 \in d
    BY <1>1
  <2> QED BY <2>2, <2>3
<1>5. Max(d) = n + 1
  <2> HIDE DEF d
  <2>1. \A i \in d : i <= Max(d)
    BY <1>1, <1>4, MaxOf
  <2>2. Max(d) \in d
    BY <1>1, <1>4, MaxOf
  <2>3. Max(d) \in 1 .. n + 1
    BY <1>4, <2>2
  <2> QED BY <1>1, <1>4, <2>1, <2>3
<1>6. h[d] = h[1 .. n] + x
  <2> HIDE DEF d
  <2>1. h[d] = h[d \ {Max(d)}] + v[Max(d)]
    BY <1>2, <1>4 DEF Partial
  <2> QED BY <1>1, <1>4, <1>5, <2>1
<1>7. h[1 .. n] = k[1 .. n]
  BY <1>1, <1>2, <1>3, PartialsAgree
<1> QED BY <1>2, <1>3, <1>6, <1>7 DEF v

LEMMA TotalZeros ==
  ASSUME NEW w \in Seq(Int), \A i \in 1 .. Len(w) : w[i] = 0
  PROVE  Total(w) = 0
<1> DEFINE n == Len(w)
           zero == [d \in SUBSET (1 .. n) |-> 0]
<1>1. PICK h : Partial(h, w, n) /\ Total(w) = h[1 .. n]
  BY TotalIsPartial
<1>2. n \in Nat
  OBVIOUS
<1>3. \A d \in SUBSET (1 .. n) : d # {} =>
        w[Max(d)] = 0 /\ d \ {Max(d)} \in SUBSET (1 .. n)
  BY <1>2, MaxOf
<1> HIDE DEF n
<1>4. \A d \in SUBSET (1 .. n) :
        zero[d] = IF d = {} THEN 0 ELSE zero[d \ {Max(d)}] + w[Max(d)]
  BY <1>3
<1>5. Partial(zero, w, n)
  <2> DEFINE F(d) == IF d = {} THEN 0 ELSE zero[d \ {Max(d)}] + w[Max(d)]
  <2>1. \A d \in SUBSET (1 .. n) : F(d) = 0
    BY <1>4
  <2>2. zero = [d \in SUBSET (1 .. n) |-> F(d)]
    <3> HIDE DEF F
    <3> QED BY <2>1, Zenon
  <2> HIDE DEF zero
  <2> QED BY <2>2, Zenon DEF Partial
<1>6. h = zero
  <2> HIDE DEF zero
  <2> QED BY <1>1, <1>2, <1>5, PartialUnique, Zenon
<1> QED BY <1>1, <1>6

(* A sum with one more term. *)
LEMMA TotalGrows ==
  ASSUME NEW n \in Nat, NEW v \in [1 .. n -> Int], NEW w \in [1 .. n + 1 -> Int],
         \A i \in 1 .. n : w[i] = v[i]
  PROVE  Total(v) \in Int /\ Total(w) = Total(v) + w[n + 1]
<1> DEFINE x == w[n + 1]
<1>1. v \in Seq(Int) /\ w \in Seq(Int) /\ Len(v) = n /\ Len(w) = n + 1 /\ x \in Int
  OBVIOUS
<1> HIDE DEF x
<1> DEFINE u == Append(v, x)
<1>2. u \in Seq(Int) /\ Len(u) = n + 1 /\ u[n + 1] = x /\ \A i \in 1 .. n : u[i] = v[i]
  BY <1>1, AppendProperties
<1> HIDE DEF u
<1>3. \A i \in 1 .. n + 1 : w[i] = u[i]
  BY <1>2 DEF x
<1>4. w = u
  BY <1>1, <1>2, <1>3, SeqEqual
<1> QED BY <1>1, <1>4, TotalAppend, TotalInt DEF u, x

-----------------------------------------------------------------------------
(* Positions.  The books of a symbol after a fill differ from those before *)
(* by no more than the rounding of the average.                            *)

Imbalance(p, side, k, price, averages) ==
  LET q == PositionAfter(p, side, k, price, 0, averages)
  IN  (Book(q) - q.realized) - (Book(p) - p.realized) - Signed(side, k) * price

LEMMA BuyStep ==
  ASSUME NEW p \in Position, NEW k \in Nat \ {0}, NEW price \in Nat \ {0},
         NEW averages \in BuyAverages(p, k, price)
  PROVE  /\ averages[1] \in Nat /\ averages[2] \in Nat
         /\ 2 * Abs(Imbalance(p, "BUY", k, price, averages))
              <= IF Averaging(p, "BUY", k) THEN Abs(p.qty + k) ELSE 0
<1> DEFINE q == PositionAfter(p, "BUY", k, price, 0, averages)
<1>1. /\ p.qty \in Int /\ p.buyAvg \in Nat /\ p.sellAvg \in Nat /\ p.realized \in Int
  BY DEF Position
<1>2. /\ q.qty = p.qty + k
      /\ q.buyAvg = averages[1] /\ q.sellAvg = averages[2]
      /\ q.realized = p.realized + RealizedDelta(p, "BUY", k, price)
  BY DEF PositionAfter, Signed
<1>3. CASE p.qty > 0
  <2>1. PICK a \in Nearest(p.qty * p.buyAvg + k * price, p.qty + k) :
          averages = <<a, p.sellAvg>>
    BY <1>1, <1>3 DEF BuyAverages
  <2>2. p.qty * p.buyAvg + k * price \in Nat /\ p.qty + k \in Nat \ {0}
    BY <1>1, <1>3, SMT
  <2>3. /\ a \in Nat
        /\ 2 * (p.qty * p.buyAvg + k * price) - (p.qty + k) <= 2 * ((p.qty + k) * a)
        /\ 2 * ((p.qty + k) * a) <= 2 * (p.qty * p.buyAvg + k * price) + (p.qty + k)
    BY <2>1, <2>2, NearestNat, NearestBound
  <2>4. ClosedQty(p, "BUY", k) = 0 /\ RealizedDelta(p, "BUY", k, price) = 0
    BY <1>1, <1>3, SMT DEF ClosedQty, RealizedDelta
  <2>5. Averaging(p, "BUY", k)
    BY <2>4, <1>3, <1>1 DEF Averaging
  <2>6. Book(p) = p.qty * p.buyAvg /\ Book(q) = (p.qty + k) * a
    BY <1>1, <1>2, <1>3, <2>1 DEF Book
  <2>7. Imbalance(p, "BUY", k, price, averages)
          = (p.qty + k) * a - (p.qty * p.buyAvg + k * price)
    BY <1>1, <1>2, <2>3, <2>4, <2>6, SMT DEF Imbalance, Signed
  <2> HIDE DEF q
  <2> DEFINE n == p.qty * p.buyAvg + k * price
             m == (p.qty + k) * a
  <2>8. n \in Int /\ m \in Int
    BY <1>1, <2>3
  <2> HIDE DEF n, m
  <2>9. 2 * Abs(m - n) <= Abs(p.qty + k)
    BY <2>8, <2>3, <1>1, <1>3, SMT DEF Abs, n, m
  <2> QED BY <2>1, <2>3, <2>5, <2>7, <2>9, <1>1 DEF n, m
<1>4. CASE p.qty = 0
  <2>1. PICK a \in Nearest(p.qty * p.buyAvg + k * price, p.qty + k) :
          averages = <<a, p.sellAvg>>
    BY <1>1, <1>4 DEF BuyAverages
  <2>2. p.qty * p.buyAvg + k * price = k * price /\ p.qty + k = k
    BY <1>1, <1>4
  <2>3. a = price
    BY <2>1, <2>2, NearestExact
  <2>4. Book(p) = 0 /\ Book(q) = k * price
    BY <1>1, <1>2, <1>4, <2>1, <2>3, SMT DEF Book
  <2>5. ClosedQty(p, "BUY", k) = 0 /\ RealizedDelta(p, "BUY", k, price) = 0
    BY <1>1, <1>4, SMT DEF ClosedQty, RealizedDelta
  <2>6. Imbalance(p, "BUY", k, price, averages) = 0
    BY <1>1, <1>2, <2>4, <2>5, SMT DEF Imbalance, Signed
  <2> QED BY <1>1, <1>4, <2>1, <2>3, <2>6, SMT DEF Abs, Averaging
<1>5. CASE p.qty < 0
  <2>1. ~Averaging(p, "BUY", k)
    BY <1>1, <1>5, SMT DEF Averaging, ClosedQty, Lesser
  <2>2. CASE p.qty + k > 0
    <3>1. averages[1] = price /\ averages[2] = 0
      BY <1>1, <1>5, <2>2 DEF BuyAverages
    <3>2. RealizedDelta(p, "BUY", k, price) = (p.sellAvg - price) * (-p.qty)
      BY <1>1, <1>5, <2>2, SMT DEF RealizedDelta, ClosedQty, Lesser
    <3>3. Book(p) = p.qty * p.sellAvg /\ Book(q) = (p.qty + k) * price
      BY <1>1, <1>2, <1>5, <2>2, <3>1 DEF Book
    <3>4. /\ (p.sellAvg - price) * (-p.qty) = p.qty * price - p.qty * p.sellAvg
          /\ (p.qty + k) * price = p.qty * price + k * price
      BY <1>1, SMT
    <3>5. Imbalance(p, "BUY", k, price, averages) = 0
      BY <1>1, <1>2, <3>2, <3>3, <3>4, SMT DEF Imbalance, Signed
    <3> QED BY <2>1, <3>1, <3>5, SMT DEF Abs
  <2>3. CASE p.qty + k = 0
    <3>1. averages[1] = 0 /\ averages[2] = 0
      BY <1>1, <1>5, <2>3 DEF BuyAverages
    <3>2. RealizedDelta(p, "BUY", k, price) = (p.sellAvg - price) * (-p.qty)
      BY <1>1, <1>5, <2>3, SMT DEF RealizedDelta, ClosedQty, Lesser
    <3>a. q.qty = 0 /\ q.sellAvg = 0
      BY <1>2, <2>3, <3>1
    <3>3. Book(p) = p.qty * p.sellAvg /\ Book(q) = 0
      BY <1>1, <1>5, <3>a, SMT DEF Book
    <3>4. (p.sellAvg - price) * (-p.qty) = -(k * price) - p.qty * p.sellAvg
      BY <1>1, <2>3, k = -p.qty, SMT
    <3>5. Imbalance(p, "BUY", k, price, averages) = 0
      BY <1>1, <1>2, <3>2, <3>3, <3>4, SMT DEF Imbalance, Signed
    <3> QED BY <2>1, <3>1, <3>5, SMT DEF Abs
  <2>4. CASE p.qty + k < 0
    <3>1. averages[1] = p.buyAvg /\ averages[2] = p.sellAvg
      BY <1>1, <1>5, <2>4 DEF BuyAverages
    <3>2. RealizedDelta(p, "BUY", k, price) = (p.sellAvg - price) * k
      BY <1>1, <1>5, <2>4, SMT DEF RealizedDelta, ClosedQty, Lesser
    <3>3. Book(p) = p.qty * p.sellAvg /\ Book(q) = (p.qty + k) * p.sellAvg
      BY <1>1, <1>2, <1>5, <2>4, <3>1 DEF Book
    <3>4. Imbalance(p, "BUY", k, price, averages) = 0
      BY <1>1, <1>2, <3>2, <3>3, SMT DEF Imbalance, Signed
    <3> QED BY <1>1, <2>1, <3>1, <3>4, SMT DEF Abs
  <2> QED BY <1>1, <2>2, <2>3, <2>4
<1> QED BY <1>1, <1>3, <1>4, <1>5

LEMMA SellStep ==
  ASSUME NEW p \in Position, NEW k \in Nat \ {0}, NEW price \in Nat \ {0},
         NEW averages \in SellAverages(p, k, price)
  PROVE  /\ averages[1] \in Nat /\ averages[2] \in Nat
         /\ 2 * Abs(Imbalance(p, "SELL", k, price, averages))
              <= IF Averaging(p, "SELL", k) THEN Abs(p.qty - k) ELSE 0
<1> DEFINE q == PositionAfter(p, "SELL", k, price, 0, averages)
<1>1. /\ p.qty \in Int /\ p.buyAvg \in Nat /\ p.sellAvg \in Nat /\ p.realized \in Int
  BY DEF Position
<1>2. /\ q.qty = p.qty - k
      /\ q.buyAvg = averages[1] /\ q.sellAvg = averages[2]
      /\ q.realized = p.realized + RealizedDelta(p, "SELL", k, price)
  BY <1>1 DEF PositionAfter, Signed
<1>3. CASE p.qty < 0
  <2>1. PICK a \in Nearest(k * price - p.qty * p.sellAvg, k - p.qty) :
          averages = <<p.buyAvg, a>>
    BY <1>1, <1>3 DEF SellAverages
  <2>2. k * price - p.qty * p.sellAvg \in Nat /\ k - p.qty \in Nat \ {0}
    BY <1>1, <1>3, SMT
  <2>3. /\ a \in Nat
        /\ 2 * (k * price - p.qty * p.sellAvg) - (k - p.qty) <= 2 * ((k - p.qty) * a)
        /\ 2 * ((k - p.qty) * a) <= 2 * (k * price - p.qty * p.sellAvg) + (k - p.qty)
    BY <2>1, <2>2, NearestNat, NearestBound
  <2>4. ClosedQty(p, "SELL", k) = 0 /\ RealizedDelta(p, "SELL", k, price) = 0
    BY <1>1, <1>3, SMT DEF ClosedQty, RealizedDelta
  <2>5. Averaging(p, "SELL", k)
    BY <2>4, <1>3, <1>1 DEF Averaging
  <2>6. Book(p) = p.qty * p.sellAvg /\ Book(q) = (p.qty - k) * a
    BY <1>1, <1>2, <1>3, <2>1 DEF Book
  <2>7. (p.qty - k) * a = -((k - p.qty) * a)
    BY <1>1, <2>3, SMT
  <2>8. Imbalance(p, "SELL", k, price, averages)
          = (k * price - p.qty * p.sellAvg) - (k - p.qty) * a
    BY <1>1, <1>2, <2>3, <2>4, <2>6, <2>7, SMT DEF Imbalance, Signed
  <2> HIDE DEF q
  <2> DEFINE n == k * price - p.qty * p.sellAvg
             m == (k - p.qty) * a
  <2>9. n \in Int /\ m \in Int
    BY <1>1, <2>3
  <2> HIDE DEF n, m
  <2>10. 2 * Abs(n - m) <= Abs(p.qty - k)
    BY <2>9, <2>3, <1>1, <1>3, SMT DEF Abs, n, m
  <2> QED BY <2>1, <2>3, <2>5, <2>8, <2>10, <1>1 DEF n, m
<1>4. CASE p.qty = 0
  <2>1. PICK a \in Nearest(k * price - p.qty * p.sellAvg, k - p.qty) :
          averages = <<p.buyAvg, a>>
    BY <1>1, <1>4 DEF SellAverages
  <2>2. k * price - p.qty * p.sellAvg = k * price /\ k - p.qty = k
    BY <1>1, <1>4
  <2>3. a = price
    BY <2>1, <2>2, NearestExact
  <2>4. Book(p) = 0 /\ Book(q) = -(k * price)
    BY <1>1, <1>2, <1>4, <2>1, <2>3, SMT DEF Book
  <2>5. ClosedQty(p, "SELL", k) = 0 /\ RealizedDelta(p, "SELL", k, price) = 0
    BY <1>1, <1>4, SMT DEF ClosedQty, RealizedDelta
  <2>6. Imbalance(p, "SELL", k, price, averages) = 0
    BY <1>1, <1>2, <2>4, <2>5, SMT DEF Imbalance, Signed
  <2> QED BY <1>1, <1>4, <2>1, <2>3, <2>6, SMT DEF Abs, Averaging
<1>5. CASE p.qty > 0
  <2>1. ~Averaging(p, "SELL", k)
    BY <1>1, <1>5, SMT DEF Averaging, ClosedQty, Lesser
  <2>2. CASE p.qty - k < 0
    <3>1. averages[1] = 0 /\ averages[2] = price
      BY <1>1, <1>5, <2>2 DEF SellAverages
    <3>2. RealizedDelta(p, "SELL", k, price) = (price - p.buyAvg) * p.qty
      BY <1>1, <1>5, <2>2, SMT DEF RealizedDelta, ClosedQty, Lesser
    <3>3. Book(p) = p.qty * p.buyAvg /\ Book(q) = (p.qty - k) * price
      BY <1>1, <1>2, <1>5, <2>2, <3>1 DEF Book
    <3>4. /\ (price - p.buyAvg) * p.qty = p.qty * price - p.qty * p.buyAvg
          /\ (p.qty - k) * price = p.qty * price - k * price
      BY <1>1, SMT
    <3>5. Imbalance(p, "SELL", k, price, averages) = 0
      BY <1>1, <1>2, <3>2, <3>3, <3>4, SMT DEF Imbalance, Signed
    <3> QED BY <2>1, <3>1, <3>5, SMT DEF Abs
  <2>3. CASE p.qty - k = 0
    <3>1. averages[1] = 0 /\ averages[2] = 0
      BY <1>1, <1>5, <2>3 DEF SellAverages
    <3>2. RealizedDelta(p, "SELL", k, price) = (price - p.buyAvg) * p.qty
      BY <1>1, <1>5, <2>3, SMT DEF RealizedDelta, ClosedQty, Lesser
    <3>3. Book(p) = p.qty * p.buyAvg /\ Book(q) = 0
      BY <1>1, <1>2, <1>5, <2>3, <3>1, q.qty = 0, 0 * q.sellAvg = 0 DEF Book
    <3>4. (price - p.buyAvg) * p.qty = k * price - p.qty * p.buyAvg
      BY <1>1, <2>3, k = p.qty, SMT
    <3>5. Imbalance(p, "SELL", k, price, averages) = 0
      BY <1>1, <1>2, <3>2, <3>3, <3>4, SMT DEF Imbalance, Signed
    <3> QED BY <2>1, <3>1, <3>5, SMT DEF Abs
  <2>4. CASE p.qty - k > 0
    <3>1. averages[1] = p.buyAvg /\ averages[2] = p.sellAvg
      BY <1>1, <1>5, <2>4 DEF SellAverages
    <3>2. RealizedDelta(p, "SELL", k, price) = (price - p.buyAvg) * k
      BY <1>1, <1>5, <2>4, SMT DEF RealizedDelta, ClosedQty, Lesser
    <3>3. Book(p) = p.qty * p.buyAvg /\ Book(q) = (p.qty - k) * p.buyAvg
      BY <1>1, <1>2, <1>5, <2>4, <3>1 DEF Book
    <3>4. Imbalance(p, "SELL", k, price, averages) = 0
      BY <1>1, <1>2, <3>2, <3>3, SMT DEF Imbalance, Signed
    <3> QED BY <1>1, <2>1, <3>1, <3>4, SMT DEF Abs
  <2> QED BY <1>1, <2>2, <2>3, <2>4
<1> QED BY <1>1, <1>3, <1>4, <1>5

(* What a fill does to a position, whichever side it is on. *)
LEMMA PositionStep ==
  ASSUME NEW p \in Position, NEW side \in Side, NEW k \in Nat \ {0},
         NEW price \in Nat \ {0}, NEW mark \in Nat,
         NEW averages \in Averages(p, side, k, price)
  PROVE  LET q == PositionAfter(p, side, k, price, mark, averages)
         IN  /\ q \in Position
             /\ q.qty = p.qty + Signed(side, k)
             /\ q.unrealized = Unrealized(q.qty, q.buyAvg, q.sellAvg, mark)
             /\ q.qty = 0 => q.unrealized = 0
             /\ 2 * Abs((Book(q) - q.realized) - (Book(p) - p.realized)
                          - Signed(side, k) * price)
                  <= IF Averaging(p, side, k) THEN Abs(p.qty + Signed(side, k)) ELSE 0
<1> DEFINE q == PositionAfter(p, side, k, price, mark, averages)
           z == PositionAfter(p, side, k, price, 0, averages)
<1>1. /\ p.qty \in Int /\ p.buyAvg \in Nat /\ p.sellAvg \in Nat /\ p.realized \in Int
      /\ Signed(side, k) \in Int
  BY DEF Position, Signed
<1>2. /\ averages[1] \in Nat /\ averages[2] \in Nat
      /\ 2 * Abs(Imbalance(p, side, k, price, averages))
           <= IF Averaging(p, side, k) THEN Abs(p.qty + Signed(side, k)) ELSE 0
  <2>1. CASE side = "BUY"
    BY <2>1, BuyStep, Signed(side, k) = k DEF Averages, Signed
  <2>2. CASE side = "SELL"
    <3>1. Signed(side, k) = -k /\ p.qty + Signed(side, k) = p.qty - k
      BY <2>2, <1>1 DEF Signed
    <3> QED BY <2>2, <3>1, SellStep DEF Averages
  <2> QED BY <2>1, <2>2 DEF Side
<1>3. ClosedQty(p, side, k) \in Int
  BY <1>1, SMT DEF ClosedQty, Lesser
<1>4. RealizedDelta(p, side, k, price) \in Int
  BY <1>1, <1>3, SMT DEF RealizedDelta
<1>5. /\ q.qty = p.qty + Signed(side, k)
      /\ q.buyAvg = averages[1] /\ q.sellAvg = averages[2]
      /\ q.realized = p.realized + RealizedDelta(p, side, k, price)
      /\ q.unrealized = Unrealized(q.qty, q.buyAvg, q.sellAvg, mark)
  BY DEF PositionAfter
<1>6. /\ z.qty = q.qty /\ z.buyAvg = q.buyAvg
      /\ z.sellAvg = q.sellAvg /\ z.realized = q.realized
  BY DEF PositionAfter
<1>7. q.qty \in Int /\ q.realized \in Int
  BY <1>1, <1>4, <1>5
<1>8. q.unrealized \in Int
  BY <1>2, <1>5, <1>7, SMT DEF Unrealized
<1>9. q \in Position
  BY <1>2, <1>4, <1>5, <1>7, <1>8 DEF Position, PositionAfter
<1>10. q.qty = 0 => q.unrealized = 0
  BY <1>2, <1>5, SMT DEF Unrealized
<1>11. Book(z) = Book(q)
  BY <1>6 DEF Book
<1>12. Imbalance(p, side, k, price, averages)
         = (Book(q) - q.realized) - (Book(p) - p.realized) - Signed(side, k) * price
  BY <1>6, <1>11 DEF Imbalance
<1> QED BY <1>2, <1>5, <1>9, <1>10, <1>12

-----------------------------------------------------------------------------
(* Prices and charges.                                                     *)

Rate == Nat \X (Nat \ {0})

LEMMA AtRateInt ==
  ASSUME NEW amount \in Int, NEW rate \in Rate
  PROVE  AtRate(amount, rate) \in Int
<1>1. rate[1] \in Nat /\ rate[2] \in Nat \ {0}
  BY DEF Rate
<1>2. amount * rate[1] \in Int
  BY <1>1, SMT
<1> QED BY <1>1, <1>2, RoundHalfEvenInt DEF AtRate

LEMMA Rates ==
  ASSUME NEW side, NEW instrument
  PROVE  /\ SttRate(side, instrument) \in Rate
         /\ ExchangeRate(instrument) \in Rate
         /\ StampRate(side, instrument) \in Rate
         /\ SebiRate \in Rate /\ GstRate \in Rate
<1>1. \A n \in Nat, d \in Nat \ {0} : <<n, d>> \in Rate
  BY DEF Rate
<1>2. SttRate(side, instrument) \in {<<1, 1000>>, <<1, 5000>>, <<1, 4000>>, NoRate}
  BY DEF SttRate
<1>3. ExchangeRate(instrument) \in {<<1, 2000>>, <<1, 50000>>, <<69, 2000000>>}
  BY DEF ExchangeRate
<1>4. StampRate(side, instrument) \in {NoRate, <<1, 50000>>, <<3, 20000>>, <<3, 100000>>}
  BY DEF StampRate
<1> QED BY <1>1, <1>2, <1>3, <1>4 DEF NoRate, SebiRate, GstRate

LEMMA ChargesInt ==
  ASSUME NEW side, NEW instrument, NEW qty \in Nat, NEW price \in Nat
  PROVE  TotalCharges(side, qty, price, instrument) \in Int
<1> DEFINE turnover == qty * price
<1>1. turnover \in Int
  BY SMT
<1> HIDE DEF turnover
<1>2. AtRate(turnover, SttRate(side, instrument)) \in Int
  BY <1>1, AtRateInt, Rates
<1>3. AtRate(turnover, ExchangeRate(instrument)) \in Int
  BY <1>1, AtRateInt, Rates
<1>4. AtRate(turnover, SebiRate) \in Int
  BY <1>1, AtRateInt, Rates
<1>5. AtRate(turnover, StampRate(side, instrument)) \in Int
  BY <1>1, AtRateInt, Rates
<1>6. AtRate(Brokerage + AtRate(turnover, ExchangeRate(instrument))
               + AtRate(turnover, SebiRate), GstRate) \in Int
  BY <1>3, <1>4, AtRateInt, Rates DEF Brokerage
<1> QED BY <1>2, <1>3, <1>4, <1>5, <1>6 DEF TotalCharges, Brokerage, turnover

LEMMA SlippedPriceNat ==
  ASSUME NEW price \in Nat, NEW side
  PROVE  /\ SlippedPrice(price, side) \in Nat
         /\ side # "BUY" => SlippedPrice(price, side) > 0
         /\ side = "BUY" => SlippedPrice(price, side) >= price
<1> DEFINE n == price * SlippageBps + SlippagePoints * 10000
           slip == RoundHalfEven(n, 10000)
<1>1. n \in Nat
  BY SlippageAssumption, SMT
<1> HIDE DEF n
<1>2. slip \in Nat
  BY <1>1, RoundHalfEvenNat
<1> HIDE DEF slip
<1>3. SlippedPrice(price, side) = IF side = "BUY" THEN price + slip
                                                  ELSE Greater(TickFloor, price - slip)
  BY DEF SlippedPrice, slip, n
<1> QED BY <1>2, <1>3, SMT DEF Greater, TickFloor

(* ARCHITECTURE.md's limit clamping, for every slippage and exact price. *)
LimitRespected(ord, price) ==
  ord.type = "LIMIT" => IF ord.side = "BUY" THEN price <= ord.price
                                            ELSE price >= ord.price

LEMMA FillPriceLimit ==
  ASSUME NEW ord \in Order, NEW raw \in Nat, NEW exact \in Nat
  PROVE  /\ FillPrice(ord, raw, exact) \in Nat
         /\ LimitRespected(ord, FillPrice(ord, raw, exact))
         /\ ord.type = "LIMIT" /\ ord.price > 0 /\ raw = ord.price /\ exact = 0
              => FillPrice(ord, raw, exact) > 0
<1>1. ord.price \in Nat /\ SlippedPrice(raw, ord.side) \in Nat
  BY SlippedPriceNat DEF Order
<1>2. ord.side = "BUY" => SlippedPrice(raw, ord.side) >= raw
  BY SlippedPriceNat
<1> QED BY <1>1, <1>2, SMT DEF FillPrice, LimitRespected, Lesser, Greater

-----------------------------------------------------------------------------
(* The inductive invariant.  LedgerReconciles and LimitNeverWorse need the *)
(* types; MarkedPnLReconciles needs LedgerReconciles and MarkInv; a trade's*)
(* price is positive because every limit price is.                         *)

OrderInv ==
  \A o \in DOMAIN orders :
    /\ orders[o].filled <= orders[o].qty
    /\ orders[o].status \in {"CREATED", "SUBMITTED"} => orders[o].filled = 0
    /\ orders[o].type = "LIMIT" => orders[o].price > 0

MatchingInv ==
  \A o \in matching : /\ orders[o].type = "LIMIT"
                      /\ orders[o].status \in Open
                      /\ Remaining(o) > 0

TapeInv == \A t \in DOMAIN trades : trades[t].order \in DOMAIN orders

MarkInv ==
  \A s \in Symbols :
    LET p == position[s]
    IN  /\ latest[s] # NoPrice =>
             p.unrealized = Unrealized(p.qty, p.buyAvg, p.sellAvg, latest[s])
        /\ p.qty = 0 => p.unrealized = 0

IInv ==
  /\ TypeOK
  /\ OrderInv
  /\ MatchingInv
  /\ TapeInv
  /\ MarkInv
  /\ LimitNeverWorse
  /\ LedgerReconciles

LEMMA InitEstablishes == Init => IInv
<1> SUFFICES ASSUME Init PROVE IInv
  OBVIOUS
<1> USE DEF Init
<1>1. TypeOK
  BY BrokerAssumption, EmptySeq DEF TypeOK, Position
<1>2. OrderInv /\ MatchingInv /\ TapeInv /\ LimitNeverWorse
  BY DEF OrderInv, MatchingInv, TapeInv, LimitNeverWorse
<1>3. MarkInv
  BY DEF MarkInv
<1>4. LedgerReconciles
  BY SMT DEF LedgerReconciles, Book, Abs
<1> QED BY <1>1, <1>2, <1>3, <1>4 DEF IInv

LEMMA FilledOrder ==
  ASSUME NEW ord \in Order, NEW k \in Nat \ {0}, NEW price \in Nat \ {0},
         NEW avg \in Nearest(ord.avg * ord.filled + price * k, ord.filled + k),
         NEW status \in OrderStatus
  PROVE  [ord EXCEPT !.filled = ord.filled + k, !.avg = avg, !.status = status] \in Order
<1>1. ord.avg \in Nat /\ ord.filled \in Nat
  BY DEF Order
<1> DEFINE value == ord.avg * ord.filled + price * k
           filled == ord.filled + k
<1>2. value \in Nat
  <2>1. ord.avg * ord.filled \in Nat
    BY <1>1
  <2>2. price * k \in Nat
    OBVIOUS
  <2> QED BY <2>1, <2>2
<1>3. filled \in Nat \ {0}
  BY <1>1
<1> HIDE DEF value, filled
<1>4. avg \in Nat
  BY <1>2, <1>3, NearestNat DEF value, filled
<1>5. [ord EXCEPT !.filled = filled, !.avg = avg, !.status = status] \in Order
  BY <1>3, <1>4 DEF Order
<1> QED BY <1>5 DEF filled

LEMMA SettlementInt ==
  ASSUME NEW side, NEW k \in Nat, NEW price \in Nat, NEW fee \in Int
  PROVE  Settlement(side, k, price, fee) \in Int
<1> DEFINE value == k * price
<1>1. value \in Int
  OBVIOUS
<1> HIDE DEF value
<1>2. -(value + fee) \in Int /\ value - fee \in Int
  BY <1>1
<1> QED BY <1>2 DEF Settlement, value

LEMMA UpdateAt ==
  ASSUME NEW S, NEW T, NEW f \in [S -> T], NEW x \in S, NEW v \in T,
         NEW g, g = [f EXCEPT ![x] = v]
  PROVE  /\ g \in [S -> T]
         /\ g[x] = v
         /\ \A y \in S \ {x} : g[y] = f[y]
OBVIOUS

(* The one step all three ways of filling an order share. *)
LEMMA FillPreserves ==
  ASSUME IInv, NEW o \in DOMAIN orders, NEW ord \in Order,
         ord.symbol = orders[o].symbol, ord.side = orders[o].side,
         ord.type = orders[o].type, ord.price = orders[o].price,
         NEW k \in Nat \ {0}, k <= ord.qty - ord.filled,
         NEW price \in Nat \ {0}, LimitRespected(ord, price),
         ExecuteFill(o, ord, k, price),
         latest' = latest, matching' \subseteq matching, o \notin matching'
  PROVE  IInv'
<1> DEFINE s    == ord.symbol
           p    == position[s]
           mark == IF latest[s] = NoPrice THEN price ELSE latest[s]
           gain == -Signed(ord.side, k) * price
           fee  == TotalCharges(ord.side, k, price, Instrument)
<1> USE DEF IInv
<1>1. /\ s \in Symbols /\ ord.side \in Side /\ p \in Position
      /\ mark \in Nat
      /\ ord.qty \in Nat \ {0} /\ ord.filled \in Nat /\ ord.avg \in Nat
      /\ orders[o] \in Order /\ o \in Nat \ {0} /\ Len(orders) \in Nat
      /\ fee \in Int /\ gain \in Int /\ Signed(ord.side, k) \in Int
  <2>1. s \in Symbols /\ ord.side \in Side
    BY DEF Order
  <2>2. p \in Position /\ latest[s] \in Nat \cup {NoPrice}
    BY <2>1 DEF TypeOK
  <2>3. Signed(ord.side, k) \in Int
    BY DEF Signed
  <2>4. orders[o] \in Order /\ o \in Nat \ {0} /\ Len(orders) \in Nat
    BY DEF TypeOK
  <2>5. gain \in Int
    BY <2>3
  <2> QED BY <2>1, <2>2, <2>3, <2>4, <2>5, ChargesInt DEF Order, NoPrice
<1>0. /\ p = position[s] /\ s = ord.symbol
      /\ gain = -(Signed(ord.side, k) * price)
  BY <1>1, SMT
<1> HIDE DEF s, p, mark, gain, fee
<1>2. PICK averages \in Averages(p, ord.side, k, price) :
        position' = [position EXCEPT ![s] =
                       PositionAfter(p, ord.side, k, price, mark, averages)]
  BY DEF ExecuteFill, s, p, mark
<1> DEFINE q == PositionAfter(p, ord.side, k, price, mark, averages)
<1>3. /\ q \in Position
      /\ q.qty = p.qty + Signed(ord.side, k)
      /\ q.unrealized = Unrealized(q.qty, q.buyAvg, q.sellAvg, mark)
      /\ q.qty = 0 => q.unrealized = 0
      /\ 2 * Abs((Book(q) - q.realized) - (Book(p) - p.realized)
                   - Signed(ord.side, k) * price)
           <= IF Averaging(p, ord.side, k) THEN Abs(p.qty + Signed(ord.side, k)) ELSE 0
  BY <1>1, <1>2, PositionStep DEF q
<1>a. p.qty \in Int /\ p.buyAvg \in Nat /\ p.sellAvg \in Nat /\ p.realized \in Int
  BY <1>1 DEF Position
<1>b. Abs(p.qty + Signed(ord.side, k)) \in Nat
  BY <1>1, <1>a, SMT DEF Abs
<1> HIDE DEF q
<1>4. /\ position' \in [Symbols -> Position]
      /\ position'[s] = q
      /\ \A r \in Symbols \ {s} : position'[r] = position[r]
  BY <1>1, <1>2, <1>3 DEF TypeOK, q
<1>5. PICK avg \in Nearest(ord.avg * ord.filled + price * k, ord.filled + k) :
        orders' = [orders EXCEPT ![o] =
             [ord EXCEPT !.filled = ord.filled + k,
                         !.avg    = avg,
                         !.status = IF ord.filled + k = ord.qty THEN "FILLED"
                                                        ELSE "PARTIALLY_FILLED"]]
  BY DEF ExecuteFill
<1> DEFINE new == [ord EXCEPT !.filled = ord.filled + k,
                              !.avg    = avg,
                              !.status = IF ord.filled + k = ord.qty THEN "FILLED"
                                                        ELSE "PARTIALLY_FILLED"]
<1>6. new \in Order
  <2> DEFINE st == IF ord.filled + k = ord.qty THEN "FILLED" ELSE "PARTIALLY_FILLED"
  <2>1. st \in OrderStatus
    BY DEF OrderStatus
  <2> HIDE DEF st
  <2>2. [ord EXCEPT !.filled = ord.filled + k, !.avg = avg, !.status = st] \in Order
    BY <1>5, <2>1, FilledOrder
  <2> QED BY <2>2 DEF st
<1>7. /\ new.symbol = ord.symbol /\ new.side = ord.side /\ new.type = ord.type
      /\ new.price = ord.price /\ new.qty = ord.qty
      /\ new.filled = ord.filled + k
      /\ new.status \in {"FILLED", "PARTIALLY_FILLED"}
  BY <1>1 DEF Order
<1> HIDE DEF new
<1>8. /\ orders' \in Seq(Order)
      /\ DOMAIN orders' = DOMAIN orders
      /\ orders'[o] = new
      /\ \A x \in DOMAIN orders \ {o} : orders'[x] = orders[x]
  BY <1>5, <1>6, ExceptSeq DEF TypeOK, new
<1> DEFINE trade == [order |-> o, symbol |-> s, side |-> ord.side,
                     qty |-> k, price |-> price, charges |-> fee]
<1>9. trade \in Trade
  BY <1>1 DEF Trade
<1>10. /\ trades' \in Seq(Trade)
       /\ Len(trades') = Len(trades) + 1 /\ Len(trades) \in Nat
       /\ trades'[Len(trades) + 1] = trade
       /\ \A t \in 1 .. Len(trades) : trades'[t] = trades[t]
       /\ DOMAIN trades' = 1 .. Len(trades) + 1
       /\ DOMAIN trades = 1 .. Len(trades)
  BY <1>9, AppendProperties DEF ExecuteFill, TypeOK, s, fee
<1>11. /\ flow' \in [Symbols -> Int]
       /\ flow'[s] = flow[s] + gain
       /\ \A r \in Symbols \ {s} : flow'[r] = flow[r]
  <2>1. flow' = [flow EXCEPT ![s] = flow[s] + gain]
    BY DEF ExecuteFill, s, gain
  <2>2. flow \in [Symbols -> Int]
    BY DEF TypeOK
  <2>3. flow[s] + gain \in Int
    BY <1>1, <2>2
  <2> QED BY <1>1, <2>1, <2>2, <2>3, UpdateAt
<1>12. /\ slack' \in [Symbols -> Nat]
       /\ slack'[s] = slack[s] + IF Averaging(p, ord.side, k)
                                 THEN Abs(p.qty + Signed(ord.side, k)) ELSE 0
       /\ \A r \in Symbols \ {s} : slack'[r] = slack[r]
  <2> DEFINE error == IF Averaging(p, ord.side, k)
                      THEN Abs(p.qty + Signed(ord.side, k)) ELSE 0
  <2>1. error \in Nat /\ slack[s] \in Nat
    BY <1>1, <1>b DEF TypeOK
  <2>2. slack' = [slack EXCEPT ![s] = slack[s] + error]
    <3>1. slack' = [slack EXCEPT ![s] =
                      IF Averaging(p, ord.side, k)
                      THEN slack[s] + Abs(p.qty + Signed(ord.side, k)) ELSE slack[s]]
      BY DEF ExecuteFill, s, p
    <3>2. (IF Averaging(p, ord.side, k)
           THEN slack[s] + Abs(p.qty + Signed(ord.side, k)) ELSE slack[s])
            = slack[s] + error
      BY <1>b, <2>1
    <3> QED BY <3>1, <3>2
  <2> HIDE DEF error
  <2>3. /\ slack' \in [Symbols -> Nat]
        /\ slack'[s] = slack[s] + error
        /\ \A r \in Symbols \ {s} : slack'[r] = slack[r]
    <3>1. slack \in [Symbols -> Nat]
      BY DEF TypeOK
    <3>2. slack[s] + error \in Nat
      BY <2>1
    <3> QED BY <1>1, <2>2, <3>1, <3>2, UpdateAt
  <2> QED BY <2>3 DEF error
<1>13. TypeOK'
  <2>1. cash' \in Int
    <3>1. Settlement(ord.side, k, price, fee) \in Int
      BY <1>1, SettlementInt
    <3> QED BY <3>1 DEF ExecuteFill, TypeOK, fee
  <2>2. matching' \subseteq DOMAIN orders'
    BY <1>8 DEF TypeOK
  <2> QED BY <1>4, <1>8, <1>10, <1>11, <1>12, <2>1, <2>2 DEF TypeOK
<1>14. OrderInv'
  <2> SUFFICES ASSUME NEW x \in DOMAIN orders
               PROVE  /\ orders'[x].filled <= orders'[x].qty
                      /\ orders'[x].status \in {"CREATED", "SUBMITTED"} => orders'[x].filled = 0
                      /\ orders'[x].type = "LIMIT" => orders'[x].price > 0
    BY <1>8 DEF OrderInv
  <2>1. CASE x # o
    BY <1>8, <2>1 DEF OrderInv
  <2>2. CASE x = o
    <3>1. new.filled <= new.qty
      <4>1. \A a, b, c \in Int : a <= b - c => c + a <= b
        BY SMT
      <4>2. ord.filled + k <= ord.qty
        BY <1>1, <4>1
      <4> QED BY <1>7, <4>2
    <3> QED BY <1>7, <1>8, <2>2, <3>1 DEF OrderInv
  <2> QED BY <2>1, <2>2
<1>15. MatchingInv'
  BY <1>8 DEF MatchingInv, Remaining, TypeOK
<1>16. TapeInv'
  BY <1>8, <1>10 DEF TapeInv
<1>17. MarkInv'
  <2> SUFFICES ASSUME NEW r \in Symbols
               PROVE  LET m == position'[r]
                      IN  /\ latest'[r] # NoPrice =>
                               m.unrealized = Unrealized(m.qty, m.buyAvg, m.sellAvg, latest'[r])
                          /\ m.qty = 0 => m.unrealized = 0
    BY DEF MarkInv
  <2>1. CASE r # s
    <3>1. position'[r] = position[r] /\ latest'[r] = latest[r]
      BY <1>4, <2>1
    <3> QED BY <3>1 DEF MarkInv
  <2>2. CASE r = s
    <3>1. position'[r] = q /\ latest'[r] = latest[s]
      BY <1>4, <2>2
    <3>2. latest[s] # NoPrice => mark = latest[s]
      BY DEF mark
    <3> QED BY <1>3, <3>1, <3>2
  <2> QED BY <2>1, <2>2
<1>18. LimitNeverWorse'
  <2> SUFFICES ASSUME NEW t \in DOMAIN trades', orders'[trades'[t].order].type = "LIMIT"
               PROVE  LET of == orders'[trades'[t].order]
                      IN  IF of.side = "BUY" THEN trades'[t].price <= of.price
                                             ELSE trades'[t].price >= of.price
    BY DEF LimitNeverWorse
  <2>1. CASE t = Len(trades) + 1
    BY <1>7, <1>8, <1>10, <2>1 DEF LimitRespected
  <2>2. CASE t \in 1 .. Len(trades)
    BY <1>7, <1>8, <1>10, <2>2 DEF LimitNeverWorse, TapeInv
  <2> QED BY <1>10, <2>1, <2>2
<1>19. LedgerReconciles'
  <2> SUFFICES ASSUME NEW r \in Symbols
               PROVE  2 * Abs(flow'[r] + Book(position'[r]) - position'[r].realized)
                        <= slack'[r]
    BY DEF LedgerReconciles
  <2>1. CASE r # s
    BY <1>4, <1>11, <1>12, <2>1 DEF LedgerReconciles
  <2>2. CASE r = s
    <3>1. 2 * Abs(flow[s] + Book(p) - p.realized) <= slack[s]
      BY <1>0, <1>1 DEF LedgerReconciles
    <3>2. /\ p.realized \in Int /\ q.realized \in Int /\ flow[s] \in Int
          /\ slack[s] \in Nat /\ slack'[s] \in Nat
      BY <1>1, <1>3, <1>12 DEF Position, TypeOK
    <3>3. Book(p) \in Int /\ Book(q) \in Int
      <4>1. q.qty \in Int /\ q.buyAvg \in Nat /\ q.sellAvg \in Nat
        BY <1>3 DEF Position
      <4> QED BY <1>a, <4>1, SMT DEF Book
    <3>4. gain = -(Signed(ord.side, k) * price) /\ Signed(ord.side, k) * price \in Int
      BY <1>0, <1>1, SMT
    <3> DEFINE cost == Signed(ord.side, k) * price
    <3>5. /\ cost \in Int /\ flow'[s] = flow[s] - cost
          /\ 2 * Abs((Book(q) - q.realized) - (Book(p) - p.realized) - cost)
                <= slack'[s] - slack[s]
      <4>1. slack'[s] - slack[s] = IF Averaging(p, ord.side, k)
                                   THEN Abs(p.qty + Signed(ord.side, k)) ELSE 0
        BY <1>12, <1>b, <3>2
      <4> QED BY <1>3, <1>11, <3>2, <3>4, <4>1
    <3> HIDE DEF cost
    <3>6. 2 * Abs((flow[s] - cost) + Book(q) - q.realized) <= slack'[s]
      <4> DEFINE a == flow[s]  b == Book(p)  c == p.realized
                 d == Book(q)  e == q.realized  old == slack[s]  new1 == slack'[s]
      <4>1. /\ a \in Int /\ b \in Int /\ c \in Int /\ d \in Int /\ e \in Int
            /\ old \in Int /\ new1 \in Int /\ cost \in Int
            /\ 2 * Abs(a + b - c) <= old
            /\ 2 * Abs((d - e) - (b - c) - cost) <= new1 - old
        BY <3>1, <3>2, <3>3, <3>5
      <4> HIDE DEF a, b, c, d, e, old, new1
      <4>2. 2 * Abs((a - cost) + d - e) <= new1
        BY <4>1, SMT DEF Abs
      <4> QED BY <4>2 DEF a, d, e, new1
    <3> QED BY <1>4, <2>2, <3>5, <3>6
  <2> QED BY <2>1, <2>2
<1> QED BY <1>13, <1>14, <1>15, <1>16, <1>17, <1>18, <1>19

(* A step that fills nothing and only appends an order, or changes the     *)
(* status of one to `status`, keeps the invariant.                         *)
LEMMA StatusPreserves ==
  ASSUME IInv, NEW o \in DOMAIN orders,
         NEW status \in {"SUBMITTED", "CANCELLED", "REJECTED"},
         status = "SUBMITTED" => orders[o].status = "CREATED",
         orders' = [orders EXCEPT ![o].status = status],
         matching = {}, NoFill, UNCHANGED <<latest, matching>>
  PROVE  IInv'
<1> USE DEF IInv, NoFill
<1> DEFINE new == [orders[o] EXCEPT !.status = status]
<1>1. orders[o] \in Order /\ new \in Order
  <2>1. status \in OrderStatus
    BY DEF OrderStatus
  <2>2. orders[o] \in Order
    BY DEF TypeOK
  <2> QED BY <2>1, <2>2 DEF Order
<1>2. /\ new.symbol = orders[o].symbol /\ new.side = orders[o].side
      /\ new.type = orders[o].type /\ new.price = orders[o].price
      /\ new.qty = orders[o].qty /\ new.filled = orders[o].filled
      /\ new.status = status
  BY <1>1 DEF Order
<1> HIDE DEF new
<1>3. /\ orders' \in Seq(Order)
      /\ DOMAIN orders' = DOMAIN orders
      /\ orders'[o] = new
      /\ \A x \in DOMAIN orders \ {o} : orders'[x] = orders[x]
  BY <1>1, ExceptSeq DEF TypeOK, new
<1>4. TypeOK'
  BY <1>3 DEF TypeOK
<1>5. OrderInv'
  BY <1>2, <1>3 DEF OrderInv
<1>6. MatchingInv' /\ TapeInv' /\ MarkInv' /\ LedgerReconciles'
  BY <1>3 DEF MatchingInv, TapeInv, MarkInv, LedgerReconciles
<1>7. LimitNeverWorse'
  BY <1>2, <1>3 DEF LimitNeverWorse, TapeInv
<1> QED BY <1>4, <1>5, <1>6, <1>7

LEMMA CreatePreserves ==
  ASSUME IInv, NEW symbol \in Symbols, NEW side \in Side,
         NEW type \in {"MARKET", "LIMIT"}, NEW qty \in Quantities,
         NEW price \in LimitPrices \cup {0},
         CreateOrder(symbol, side, type, qty, price)
  PROVE  IInv'
<1> USE DEF IInv, NoFill, CreateOrder
<1> DEFINE new == [symbol |-> symbol, side |-> side, type |-> type, qty |-> qty,
                   price |-> price, status |-> "CREATED", filled |-> 0, avg |-> 0]
<1>1. new \in Order
  BY BrokerAssumption DEF Order, OrderStatus
<1>2. /\ orders' \in Seq(Order)
      /\ DOMAIN orders' = DOMAIN orders \cup {Len(orders) + 1}
      /\ orders'[Len(orders) + 1] = new
      /\ \A x \in DOMAIN orders : orders'[x] = orders[x]
  BY <1>1, AppendProperties DEF TypeOK
<1>3. TypeOK'
  BY <1>2 DEF TypeOK
<1>4. OrderInv'
  BY <1>1, <1>2, BrokerAssumption DEF OrderInv
<1>5. MatchingInv' /\ TapeInv' /\ MarkInv' /\ LedgerReconciles'
  BY <1>2 DEF MatchingInv, TapeInv, MarkInv, LedgerReconciles
<1>6. LimitNeverWorse'
  BY <1>2 DEF LimitNeverWorse, TapeInv
<1> QED BY <1>3, <1>4, <1>5, <1>6

(* What submit_order fills at, if it fills, respects the limit. *)
LEMMA SubmittedPrice ==
  ASSUME IInv, NEW o \in DOMAIN orders, NEW quoted \in MarketPrices,
         NEW bid \in Quotes, NEW ask \in Quotes, NEW exact \in ExactPrices
  PROVE  LET price == ImmediatePrice(orders[o], MarketPrice(orders[o].symbol, quoted),
                                     bid, ask, exact)
         IN  price \in Nat /\ (price > 0 => LimitRespected(orders[o], price))
<1> DEFINE ord    == orders[o]
           market == MarketPrice(ord.symbol, quoted)
           quote  == QuotedPrice(ord.side, bid, ask, market)
<1>1. ord \in Order
  BY DEF IInv, TypeOK
<1>2. market \in Nat \cup {NoPrice}
  BY <1>1, BrokerAssumption DEF MarketPrice, IInv, TypeOK, Order
<1>3. bid \in Nat /\ ask \in Nat /\ exact \in Nat
  BY BrokerAssumption
<1>4. market # NoPrice => quote \in Nat
  BY <1>2, <1>3 DEF QuotedPrice
<1>5. ord.price \in Nat
  BY <1>1 DEF Order
<1> HIDE DEF ord, market, quote
<1>6. ImmediatePrice(ord, market, bid, ask, exact)
        \in {0, FillPrice(ord, quote, exact), FillPrice(ord, ord.price, exact)}
  BY DEF ImmediatePrice, quote
<1>7. CASE market = NoPrice
  BY <1>7 DEF ImmediatePrice, ord, market
<1>8. CASE market # NoPrice
  <2>1. /\ FillPrice(ord, quote, exact) \in Nat
        /\ LimitRespected(ord, FillPrice(ord, quote, exact))
        /\ FillPrice(ord, ord.price, exact) \in Nat
        /\ LimitRespected(ord, FillPrice(ord, ord.price, exact))
    BY <1>1, <1>3, <1>4, <1>5, <1>8, FillPriceLimit
  <2> QED BY <1>6, <2>1 DEF ord, market
<1> QED BY <1>7, <1>8

LEMMA SubmitPreserves ==
  ASSUME IInv, NEW o \in DOMAIN orders, NEW quoted \in MarketPrices,
         NEW bid \in Quotes, NEW ask \in Quotes, NEW exact \in ExactPrices,
         SubmitOrder(o, quoted, bid, ask, exact)
  PROVE  IInv'
<1> DEFINE ord       == orders[o]
           market    == MarketPrice(ord.symbol, quoted)
           submitted == [ord EXCEPT !.status = "SUBMITTED"]
           price     == ImmediatePrice(ord, market, bid, ask, exact)
<1>1. /\ ord \in Order /\ ord.status = "CREATED" /\ matching = {}
      /\ UNCHANGED <<latest, matching>>
  BY DEF IInv, TypeOK, SubmitOrder
<1>2. CASE orders' = [orders EXCEPT ![o].status = "REJECTED"] /\ NoFill
  BY <1>1, <1>2, StatusPreserves
<1>3. CASE orders' = [orders EXCEPT ![o] = submitted] /\ NoFill
  <2>1. orders' = [orders EXCEPT ![o].status = "SUBMITTED"]
    BY <1>3
  <2> QED BY <1>1, <1>3, <2>1, StatusPreserves
<1>4. CASE price > 0 /\ ExecuteFill(o, submitted, ord.qty, price)
  <2>1. /\ submitted \in Order
        /\ submitted.symbol = ord.symbol /\ submitted.side = ord.side
        /\ submitted.type = ord.type /\ submitted.price = ord.price
        /\ submitted.qty = ord.qty /\ submitted.filled = ord.filled
    BY <1>1 DEF Order, OrderStatus
  <2>2. ord.filled = 0 /\ ord.qty \in Nat \ {0}
    BY <1>1 DEF IInv, OrderInv, Order
  <2>3. price \in Nat /\ LimitRespected(submitted, price)
    <3>1. price \in Nat /\ (price > 0 => LimitRespected(ord, price))
      BY SubmittedPrice
    <3> QED BY <1>4, <2>1, <3>1 DEF LimitRespected
  <2> HIDE DEF price, submitted
  <2>4. ord.qty <= submitted.qty - submitted.filled
    BY <2>1, <2>2
  <2>5. matching' \subseteq matching /\ o \notin matching' /\ latest' = latest
    BY <1>1
  <2>6. price \in Nat \ {0}
    BY <1>4, <2>3
  <2> QED BY <1>4, <2>1, <2>2, <2>3, <2>4, <2>5, <2>6, FillPreserves
<1> QED BY <1>2, <1>3, <1>4 DEF SubmitOrder

LEMMA FillOrderPreserves ==
  ASSUME IInv, NEW o \in DOMAIN orders, NEW k \in Quantities, NEW raw \in Ticks,
         FillOrder(o, k, raw)
  PROVE  IInv'
<1> DEFINE price == FillPrice(orders[o], raw, 0)
<1>1. orders[o] \in Order /\ raw \in Nat /\ k \in Nat \ {0}
  BY BrokerAssumption DEF IInv, TypeOK
<1>2. price \in Nat /\ LimitRespected(orders[o], price)
  BY <1>1, FillPriceLimit
<1>3. /\ price > 0 /\ ExecuteFill(o, orders[o], k, price)
      /\ k <= orders[o].qty - orders[o].filled
      /\ matching = {} /\ matching' = matching /\ latest' = latest
  BY DEF FillOrder, Remaining
<1> HIDE DEF price
<1>4. price \in Nat \ {0} /\ matching' \subseteq matching /\ o \notin matching'
  BY <1>2, <1>3
<1> QED BY <1>1, <1>2, <1>3, <1>4, FillPreserves

LEMMA MatchPreserves ==
  ASSUME IInv, NEW o \in DOMAIN orders, MatchNext(o)
  PROVE  IInv'
<1> DEFINE price == FillPrice(orders[o], orders[o].price, 0)
<1>1. /\ orders[o] \in Order /\ orders[o].price \in Nat
      /\ orders[o].qty \in Nat /\ orders[o].filled \in Nat
  <2>1. orders[o] \in Order
    BY DEF IInv, TypeOK
  <2> QED BY <2>1 DEF Order
<1>2. o \in matching /\ orders[o].type = "LIMIT" /\ orders[o].price > 0 /\ Remaining(o) > 0
  BY DEF MatchNext, IInv, MatchingInv, OrderInv
<1>3. price \in Nat \ {0} /\ LimitRespected(orders[o], price)
  <2>1. 0 \in Nat
    OBVIOUS
  <2>2. price \in Nat /\ LimitRespected(orders[o], price)
    BY <1>1, <2>1, FillPriceLimit
  <2>3. price > 0
    BY <1>1, <1>2, <2>1, FillPriceLimit, Zenon
  <2> HIDE DEF price
  <2> QED BY <2>2, <2>3
<1>4. Remaining(o) = orders[o].qty - orders[o].filled /\ Remaining(o) \in Nat \ {0}
  BY <1>1, <1>2 DEF Remaining
<1>5. /\ ExecuteFill(o, orders[o], Remaining(o), price)
      /\ matching' = matching \ {o} /\ latest' = latest
  BY DEF MatchNext
<1> HIDE DEF price
<1>6. /\ matching' \subseteq matching /\ o \notin matching'
      /\ Remaining(o) <= orders[o].qty - orders[o].filled
  BY <1>1, <1>4, <1>5
<1> QED BY <1>1, <1>3, <1>4, <1>5, <1>6, FillPreserves

LEMMA TickPreserves ==
  ASSUME IInv, NEW s \in Symbols, NEW ltp \in Ticks, NEW bid \in Quotes, NEW ask \in Quotes,
         OnTick(s, ltp, bid, ask)
  PROVE  IInv'
<1> USE DEF IInv, OnTick
<1> DEFINE p == position[s]
           q == Marked(p, ltp)
<1>1. ltp \in Nat /\ p \in Position
  BY BrokerAssumption DEF TypeOK
<1>2. /\ p.qty \in Int /\ p.buyAvg \in Nat /\ p.sellAvg \in Nat
  BY <1>1 DEF Position
<1>3. Unrealized(p.qty, p.buyAvg, p.sellAvg, ltp) \in Int
  BY <1>1, <1>2, SMT DEF Unrealized
<1>4. /\ q \in Position
      /\ q.qty = p.qty /\ q.buyAvg = p.buyAvg /\ q.sellAvg = p.sellAvg
      /\ q.realized = p.realized
      /\ q.qty # 0 => q.unrealized = Unrealized(p.qty, p.buyAvg, p.sellAvg, ltp)
      /\ q.qty = 0 => q.unrealized = p.unrealized
  BY <1>1, <1>3 DEF Marked, Position
<1>5. p.qty = 0 => /\ p.unrealized = 0
                   /\ Unrealized(p.qty, p.buyAvg, p.sellAvg, ltp) = 0
  BY <1>1, <1>2, SMT DEF MarkInv, Unrealized
<1>6. /\ position' = [position EXCEPT ![s] = q]
      /\ latest' = [latest EXCEPT ![s] = ltp]
  OBVIOUS
<1> HIDE DEF q
<1>7. /\ position' \in [Symbols -> Position] /\ position'[s] = q
      /\ \A r \in Symbols \ {s} : position'[r] = position[r] /\ latest'[r] = latest[r]
      /\ latest' \in [Symbols -> Nat \cup {NoPrice}] /\ latest'[s] = ltp
  BY <1>1, <1>4, <1>6 DEF TypeOK
<1>8. TypeOK'
  BY <1>7 DEF TypeOK, Matches
<1>9. OrderInv' /\ TapeInv' /\ LimitNeverWorse'
  BY DEF OrderInv, TapeInv, LimitNeverWorse
<1>10. MatchingInv'
  BY DEF MatchingInv, Matches, Remaining
<1>11. MarkInv'
  BY <1>4, <1>5, <1>7 DEF MarkInv
<1>12. LedgerReconciles'
  <2>1. Book(q) = Book(p)
    BY <1>4 DEF Book
  <2> QED BY <1>4, <1>7, <2>1 DEF LedgerReconciles
<1> QED BY <1>8, <1>9, <1>10, <1>11, <1>12

LEMMA NextPreserves == IInv /\ [Next]_vars => IInv'
<1> SUFFICES ASSUME IInv, [Next]_vars PROVE IInv'
  OBVIOUS
<1>1. ASSUME NEW symbol \in Symbols, NEW side \in Side, NEW type \in {"MARKET", "LIMIT"},
             NEW qty \in Quantities, NEW price \in LimitPrices \cup {0},
             CreateOrder(symbol, side, type, qty, price)
      PROVE  IInv'
  BY <1>1, CreatePreserves
<1>2. ASSUME NEW o \in DOMAIN orders, NEW quoted \in MarketPrices,
             NEW bid \in Quotes, NEW ask \in Quotes, NEW exact \in ExactPrices,
             SubmitOrder(o, quoted, bid, ask, exact)
      PROVE  IInv'
  BY <1>2, SubmitPreserves
<1>3. ASSUME NEW o \in DOMAIN orders, CancelOrder(o)
      PROVE  IInv'
  BY <1>3, StatusPreserves DEF CancelOrder
<1>4. ASSUME NEW o \in DOMAIN orders, NEW k \in Quantities, NEW raw \in Ticks,
             FillOrder(o, k, raw)
      PROVE  IInv'
  BY <1>4, FillOrderPreserves
<1>5. ASSUME NEW o \in DOMAIN orders, MatchNext(o)
      PROVE  IInv'
  BY <1>5, MatchPreserves
<1>6. ASSUME NEW s \in Symbols, NEW ltp \in Ticks, NEW bid \in Quotes, NEW ask \in Quotes,
             OnTick(s, ltp, bid, ask)
      PROVE  IInv'
  BY <1>6, TickPreserves
<1>7. CASE UNCHANGED vars
  BY <1>7 DEF vars, IInv, TypeOK, OrderInv, MatchingInv, TapeInv, MarkInv,
              LimitNeverWorse, LedgerReconciles, Remaining
<1> QED BY <1>1, <1>2, <1>3, <1>4, <1>5, <1>6, <1>7 DEF Next

THEOREM Inductive == Spec => []IInv
<1>1. Init => IInv
  BY InitEstablishes
<1>2. IInv /\ [Next]_vars => IInv'
  BY NextPreserves
<1> QED BY <1>1, <1>2, PTL DEF Spec

-----------------------------------------------------------------------------
(* The tape: orders, positions and cash are what the trades add up to.     *)

FilledInv ==
  \A o \in DOMAIN orders :
    /\ orders[o].filled = orders[o].qty <=> orders[o].status = "FILLED"
    /\ orders[o].status = "PARTIALLY_FILLED" => orders[o].filled > 0
    /\ orders[o].status \in {"CREATED", "SUBMITTED", "REJECTED"} => orders[o].filled = 0

TotalsInv ==
  /\ \A o \in DOMAIN orders : orders[o].filled = Total(FillsOf(o))
  /\ \A s \in Symbols : position[s].qty = Total(MovesOf(s))
  /\ CashReconciles

TapeReplays == FilledInv /\ TotalsInv

TapeTypes ==
  /\ \A o : FillsOf(o) \in [1 .. Len(trades) -> Int]
  /\ \A s : MovesOf(s) \in [1 .. Len(trades) -> Int]
  /\ CashFlows \in [1 .. Len(trades) -> Int]

LEMMA TapeTyped == TypeOK => TapeTypes
<1> SUFFICES ASSUME TypeOK PROVE TapeTypes
  OBVIOUS
<1>1. Len(trades) \in Nat /\ DOMAIN trades = 1 .. Len(trades)
  BY DEF TypeOK
<1>2. ASSUME NEW t \in DOMAIN trades
      PROVE  /\ trades[t].qty \in Int /\ trades[t].price \in Int /\ trades[t].charges \in Int
             /\ Signed(trades[t].side, trades[t].qty) \in Int
             /\ -Signed(trades[t].side, trades[t].qty) * trades[t].price - trades[t].charges \in Int
  <2>1. trades[t] \in Trade
    BY ElementOfSeq DEF TypeOK
  <2> DEFINE tr == trades[t]
  <2>2. tr.qty \in Int /\ tr.price \in Int /\ tr.charges \in Int
    BY <2>1 DEF Trade
  <2> HIDE DEF tr
  <2>3. Signed(tr.side, tr.qty) \in Int
    BY <2>2 DEF Signed
  <2>4. -Signed(tr.side, tr.qty) * tr.price \in Int
    BY <2>2, <2>3
  <2>5. -Signed(tr.side, tr.qty) * tr.price - tr.charges \in Int
    BY <2>2, <2>4
  <2> QED BY <2>2, <2>3, <2>5 DEF tr
<1>3. \A o : FillsOf(o) \in [1 .. Len(trades) -> Int]
  BY <1>1, <1>2 DEF FillsOf
<1>4. \A s : MovesOf(s) \in [1 .. Len(trades) -> Int]
  BY <1>1, <1>2 DEF MovesOf
<1>5. CashFlows \in [1 .. Len(trades) -> Int]
  BY <1>1, <1>2, Zenon DEF CashFlows
<1> QED BY <1>3, <1>4, <1>5 DEF TapeTypes

LEMMA TapeInit == Init => TapeReplays
<1> SUFFICES ASSUME Init PROVE TapeReplays
  OBVIOUS
<1>1. orders = <<>> /\ DOMAIN orders = {} /\ DOMAIN trades = {} /\ cash = InitialCapital
  BY DEF Init
<1>2. \A s : MovesOf(s) = <<>>
  BY <1>1 DEF MovesOf
<1>3. CashFlows = <<>>
  BY <1>1 DEF CashFlows
<1>4. \A s \in Symbols : position[s].qty = 0
  BY DEF Init
<1>5. CashReconciles
  BY <1>1, <1>3, TotalEmpty, BrokerAssumption DEF CashReconciles
<1>6. TotalsInv
  BY <1>1, <1>2, <1>4, <1>5, TotalEmpty DEF TotalsInv
<1> QED BY <1>1, <1>6 DEF TapeReplays, FilledInv

(* One more trade adds to the sums of its order, its symbol and cash.      *)
LEMMA TapeGrows ==
  ASSUME TypeOK, TypeOK', NEW trade \in Trade, trades' = Append(trades, trade)
  PROVE  /\ \A o : /\ Total(FillsOf(o)) \in Int
                   /\ Total(FillsOf(o))' = Total(FillsOf(o))
                        + IF trade.order = o THEN trade.qty ELSE 0
         /\ \A s : /\ Total(MovesOf(s)) \in Int
                   /\ Total(MovesOf(s))' = Total(MovesOf(s))
                        + IF trade.symbol = s THEN Signed(trade.side, trade.qty) ELSE 0
         /\ Total(CashFlows) \in Int
         /\ Total(CashFlows)' = Total(CashFlows)
              + (-Signed(trade.side, trade.qty) * trade.price - trade.charges)
<1> DEFINE n == Len(trades)
<1>1. /\ n \in Nat /\ Len(trades') = n + 1 /\ trades'[n + 1] = trade
      /\ \A t \in 1 .. n : trades'[t] = trades[t]
      /\ DOMAIN trades = 1 .. n /\ DOMAIN trades' = 1 .. n + 1
  BY AppendProperties DEF TypeOK
<1>2. /\ \A o : FillsOf(o) \in [1 .. n -> Int] /\ FillsOf(o)' \in [1 .. n + 1 -> Int]
      /\ \A s : MovesOf(s) \in [1 .. n -> Int] /\ MovesOf(s)' \in [1 .. n + 1 -> Int]
      /\ CashFlows \in [1 .. n -> Int] /\ CashFlows' \in [1 .. n + 1 -> Int]
  <2>1. TapeTypes /\ TapeTypes'
    BY TapeTyped, PTL
  <2> QED BY <1>1, <2>1 DEF TapeTypes
<1> HIDE DEF n
<1>3. ASSUME NEW o
      PROVE  /\ Total(FillsOf(o)) \in Int
             /\ Total(FillsOf(o))' = Total(FillsOf(o))
                  + IF trade.order = o THEN trade.qty ELSE 0
  <2>1. \A i \in 1 .. n : FillsOf(o)'[i] = FillsOf(o)[i]
    BY <1>1 DEF FillsOf
  <2>2. FillsOf(o)'[n + 1] = IF trade.order = o THEN trade.qty ELSE 0
    BY <1>1 DEF FillsOf
  <2>3. Total(FillsOf(o)) \in Int /\ Total(FillsOf(o)') = Total(FillsOf(o)) + FillsOf(o)'[n + 1]
    BY <1>1, <1>2, <2>1, TotalGrows
  <2> QED BY <2>2, <2>3
<1>4. ASSUME NEW s
      PROVE  /\ Total(MovesOf(s)) \in Int
             /\ Total(MovesOf(s))' = Total(MovesOf(s))
                  + IF trade.symbol = s THEN Signed(trade.side, trade.qty) ELSE 0
  <2>1. \A i \in 1 .. n : MovesOf(s)'[i] = MovesOf(s)[i]
    BY <1>1 DEF MovesOf
  <2>2. MovesOf(s)'[n + 1] = IF trade.symbol = s THEN Signed(trade.side, trade.qty) ELSE 0
    BY <1>1 DEF MovesOf
  <2>3. Total(MovesOf(s)) \in Int /\ Total(MovesOf(s)') = Total(MovesOf(s)) + MovesOf(s)'[n + 1]
    BY <1>1, <1>2, <2>1, TotalGrows
  <2> QED BY <2>2, <2>3
<1>5. /\ Total(CashFlows) \in Int
      /\ Total(CashFlows)' = Total(CashFlows)
           + (-Signed(trade.side, trade.qty) * trade.price - trade.charges)
  <2>1. ASSUME NEW i \in 1 .. n PROVE CashFlows'[i] = CashFlows[i]
    <3>1. i \in DOMAIN trades /\ i \in DOMAIN trades' /\ trades'[i] = trades[i]
      BY <1>1
    <3> QED BY <3>1, Zenon DEF CashFlows
  <2>2. CashFlows'[n + 1] = -Signed(trade.side, trade.qty) * trade.price - trade.charges
    BY <1>1 DEF CashFlows
  <2>3. Total(CashFlows) \in Int /\ Total(CashFlows') = Total(CashFlows) + CashFlows'[n + 1]
    BY <1>1, <1>2, <2>1, TotalGrows
  <2> QED BY <2>2, <2>3
<1> QED BY <1>3, <1>4, <1>5

(* What a fill changes, without the rounding of the averages. *)
LEMMA FillEffect ==
  ASSUME IInv, NEW o \in DOMAIN orders, NEW ord \in Order,
         NEW k \in Nat \ {0}, NEW price \in Nat \ {0}, ExecuteFill(o, ord, k, price)
  PROVE  LET s   == ord.symbol
             fee == TotalCharges(ord.side, k, price, Instrument)
         IN  /\ fee \in Int /\ cash' = cash + Settlement(ord.side, k, price, fee)
             /\ [order |-> o, symbol |-> s, side |-> ord.side,
                 qty |-> k, price |-> price, charges |-> fee] \in Trade
             /\ trades' = Append(trades, [order |-> o, symbol |-> s, side |-> ord.side,
                                          qty |-> k, price |-> price, charges |-> fee])
             /\ DOMAIN orders' = DOMAIN orders
             /\ \A x \in DOMAIN orders \ {o} : orders'[x] = orders[x]
             /\ orders'[o].symbol = ord.symbol /\ orders'[o].side = ord.side
             /\ orders'[o].qty = ord.qty
             /\ orders'[o].filled = ord.filled + k
             /\ orders'[o].status = IF ord.filled + k = ord.qty THEN "FILLED"
                                                                ELSE "PARTIALLY_FILLED"
             /\ \A r \in Symbols :
                  position'[r].qty = position[r].qty
                                       + IF r = s THEN Signed(ord.side, k) ELSE 0
<1> DEFINE s   == ord.symbol
           fee == TotalCharges(ord.side, k, price, Instrument)
           st  == IF ord.filled + k = ord.qty THEN "FILLED" ELSE "PARTIALLY_FILLED"
           trade == [order |-> o, symbol |-> s, side |-> ord.side,
                     qty |-> k, price |-> price, charges |-> fee]
<1>1. fee \in Int /\ cash' = cash + Settlement(ord.side, k, price, fee)
  BY ChargesInt DEF ExecuteFill
<1>2. trades' = Append(trades, trade)
  BY DEF ExecuteFill
<1>3. trade \in Trade
  <2>1. o \in Nat \ {0}
    <3>1. orders \in Seq(Order)
      BY DEF IInv, TypeOK
    <3> QED BY <3>1
  <2>2. s \in Symbols /\ ord.side \in Side
    BY DEF Order
  <2> HIDE DEF s, fee
  <2> QED BY <1>1, <2>1, <2>2 DEF Trade
<1>4. PICK avg : orders' = [orders EXCEPT ![o] =
             [ord EXCEPT !.filled = ord.filled + k, !.avg = avg, !.status = st]]
  BY DEF ExecuteFill
<1>5. /\ DOMAIN orders' = DOMAIN orders
      /\ \A x \in DOMAIN orders \ {o} : orders'[x] = orders[x]
      /\ orders'[o].symbol = ord.symbol /\ orders'[o].side = ord.side
      /\ orders'[o].qty = ord.qty
      /\ orders'[o].filled = ord.filled + k /\ orders'[o].status = st
  <2> DEFINE new == [ord EXCEPT !.filled = ord.filled + k, !.avg = avg, !.status = st]
  <2>1. /\ new.symbol = ord.symbol /\ new.side = ord.side /\ new.qty = ord.qty
        /\ new.filled = ord.filled + k /\ new.status = st
    <3> HIDE DEF st
    <3> QED BY DEF Order
  <2>2. orders' = [orders EXCEPT ![o] = new]
    BY <1>4
  <2> HIDE DEF new, st
  <2>3. orders'[o] = new
    BY <2>2 DEF IInv, TypeOK
  <2>4. /\ DOMAIN orders' = DOMAIN orders
        /\ \A x \in DOMAIN orders \ {o} : orders'[x] = orders[x]
    BY <2>2
  <2> QED BY <2>1, <2>3, <2>4
<1>6. PICK averages : position' = [position EXCEPT ![s] =
             PositionAfter(position[s], ord.side, k, price,
                           IF latest[s] = NoPrice THEN price ELSE latest[s], averages)]
  BY DEF ExecuteFill
<1>7. ASSUME NEW r \in Symbols
      PROVE  position'[r].qty = position[r].qty + IF r = s THEN Signed(ord.side, k) ELSE 0
  <2>1. s \in Symbols /\ position \in [Symbols -> Position] /\ position[r].qty \in Int
    BY DEF IInv, TypeOK, Order, Position
  <2>2. CASE r = s
    BY <1>6, <2>1, <2>2 DEF PositionAfter
  <2>3. CASE r # s
    BY <1>6, <2>1, <2>3
  <2> QED BY <2>2, <2>3
<1> HIDE DEF s, fee, st
<1> QED BY <1>1, <1>2, <1>3, <1>5, <1>7 DEF s, fee, st

LEMMA FillReplays ==
  ASSUME IInv, IInv', TapeReplays, NEW o \in DOMAIN orders, NEW ord \in Order,
         ord.qty = orders[o].qty, ord.filled = orders[o].filled,
         NEW k \in Nat \ {0}, k <= ord.qty - ord.filled,
         NEW price \in Nat \ {0}, ExecuteFill(o, ord, k, price)
  PROVE  TapeReplays'
<1> DEFINE s   == ord.symbol
           fee == TotalCharges(ord.side, k, price, Instrument)
           trade == [order |-> o, symbol |-> s, side |-> ord.side,
                     qty |-> k, price |-> price, charges |-> fee]
<1>1. /\ fee \in Int /\ cash' = cash + Settlement(ord.side, k, price, fee)
      /\ trade \in Trade /\ trades' = Append(trades, trade)
      /\ DOMAIN orders' = DOMAIN orders
      /\ \A x \in DOMAIN orders \ {o} : orders'[x] = orders[x]
      /\ orders'[o].qty = ord.qty /\ orders'[o].filled = ord.filled + k
      /\ orders'[o].status = IF ord.filled + k = ord.qty THEN "FILLED"
                                                         ELSE "PARTIALLY_FILLED"
      /\ \A r \in Symbols : position'[r].qty = position[r].qty
                              + IF r = s THEN Signed(ord.side, k) ELSE 0
  BY FillEffect
<1>2. /\ trade.order = o /\ trade.symbol = s /\ trade.side = ord.side
      /\ trade.qty = k /\ trade.price = price /\ trade.charges = fee
  OBVIOUS
<1> HIDE DEF s, fee, trade
<1>3. /\ \A x : /\ Total(FillsOf(x)) \in Int
                /\ Total(FillsOf(x))' = Total(FillsOf(x)) + IF o = x THEN k ELSE 0
      /\ \A r : /\ Total(MovesOf(r)) \in Int
                /\ Total(MovesOf(r))' = Total(MovesOf(r))
                     + IF s = r THEN Signed(ord.side, k) ELSE 0
      /\ Total(CashFlows) \in Int
      /\ Total(CashFlows)' = Total(CashFlows) + (-Signed(ord.side, k) * price - fee)
  <2>1. TypeOK /\ TypeOK'
    BY DEF IInv
  <2> QED BY <1>1, <1>2, <2>1, TapeGrows
<1>4. ord.qty \in Nat \ {0} /\ ord.filled \in Nat
  BY DEF Order
<1>5. FilledInv'
  <2> SUFFICES ASSUME NEW x \in DOMAIN orders
               PROVE  /\ orders'[x].filled = orders'[x].qty <=> orders'[x].status = "FILLED"
                      /\ orders'[x].status = "PARTIALLY_FILLED" => orders'[x].filled > 0
                      /\ orders'[x].status \in {"CREATED", "SUBMITTED", "REJECTED"}
                           => orders'[x].filled = 0
    BY <1>1, Zenon DEF FilledInv
  <2>1. CASE x # o
    BY <1>1, <2>1 DEF TapeReplays, FilledInv
  <2>2. CASE x = o
    <3>1. ord.filled + k > 0
      BY <1>4
    <3> QED BY <1>1, <2>2, <3>1
  <2> QED BY <2>1, <2>2
<1>6. \A x \in DOMAIN orders' : orders'[x].filled = Total(FillsOf(x))'
  <2> SUFFICES ASSUME NEW x \in DOMAIN orders
               PROVE  orders'[x].filled = Total(FillsOf(x))'
    BY <1>1
  <2>1. orders[x].filled = Total(FillsOf(x)) /\ Total(FillsOf(x)) \in Int
    BY <1>3 DEF TapeReplays, TotalsInv
  <2>2. CASE x # o
    BY <1>1, <1>3, <2>1, <2>2
  <2>3. CASE x = o
    BY <1>1, <1>3, <2>1, <2>3
  <2> QED BY <2>2, <2>3
<1>7. \A r \in Symbols : position'[r].qty = Total(MovesOf(r))'
  <2> SUFFICES ASSUME NEW r \in Symbols
               PROVE  position'[r].qty = Total(MovesOf(r))'
    OBVIOUS
  <2>1. position[r].qty = Total(MovesOf(r))
    BY DEF TapeReplays, TotalsInv
  <2> QED BY <1>1, <1>3, <2>1
<1>8. CashReconciles'
  <2>1. cash = InitialCapital + Total(CashFlows)
    BY DEF TapeReplays, TotalsInv, CashReconciles
  <2>2. Settlement(ord.side, k, price, fee) = -Signed(ord.side, k) * price - fee
    <3>1. CASE ord.side = "BUY"
      BY <1>1, <3>1, -k * price = -(k * price), k * price \in Nat DEF Settlement, Signed
    <3>2. CASE ord.side # "BUY"
      BY <1>1, <3>2, -(-k) = k, k * price \in Nat DEF Settlement, Signed
    <3> QED BY <3>1, <3>2
  <2>3. Settlement(ord.side, k, price, fee) \in Int
    BY <1>1, SettlementInt
  <2>4. cash' = InitialCapital + Total(CashFlows)'
    <3> DEFINE d == Settlement(ord.side, k, price, fee)
    <3>1. /\ d \in Int /\ cash' = cash + d /\ Total(CashFlows)' = Total(CashFlows) + d
          /\ Total(CashFlows) \in Int /\ InitialCapital \in Int
      BY <1>1, <1>3, <2>2, <2>3, BrokerAssumption
    <3> HIDE DEF d
    <3> QED BY <2>1, <3>1
  <2> QED BY <2>4 DEF CashReconciles
<1> QED BY <1>5, <1>6, <1>7, <1>8, Zenon DEF TapeReplays, TotalsInv

(* A step that records no trade leaves the sums alone. *)
LEMMA QuietReplays ==
  ASSUME TapeReplays, trades' = trades, cash' = cash,
         \A s \in Symbols : position'[s].qty = position[s].qty,
         \A o \in DOMAIN orders' : orders'[o].filled = Total(FillsOf(o)),
         FilledInv'
  PROVE  TapeReplays'
<1>1. \A o : Total(FillsOf(o))' = Total(FillsOf(o))
  BY DEF FillsOf
<1>2. \A s : Total(MovesOf(s))' = Total(MovesOf(s))
  BY DEF MovesOf
<1>3. CashReconciles'
  BY Zenon DEF TapeReplays, TotalsInv, CashReconciles, CashFlows
<1> QED BY <1>1, <1>2, <1>3 DEF TapeReplays, TotalsInv

LEMMA StatusReplays ==
  ASSUME IInv, TapeReplays, NEW o \in DOMAIN orders,
         NEW status \in {"SUBMITTED", "CANCELLED", "REJECTED"},
         CanTransition(orders[o].status, status),
         status # "CANCELLED" => orders[o].status = "CREATED",
         orders' = [orders EXCEPT ![o].status = status], NoFill
  PROVE  TapeReplays'
<1> DEFINE new == [orders[o] EXCEPT !.status = status]
<1>1. orders[o] \in Order
  BY DEF IInv, TypeOK
<1>2. /\ new.qty = orders[o].qty /\ new.filled = orders[o].filled
      /\ new.status = status
  BY <1>1 DEF Order
<1>3. orders' = [orders EXCEPT ![o] = new]
  OBVIOUS
<1> HIDE DEF new
<1>4. /\ DOMAIN orders' = DOMAIN orders
      /\ orders'[o] = new
      /\ \A x \in DOMAIN orders \ {o} : orders'[x] = orders[x]
  BY <1>3 DEF IInv, TypeOK
<1>5. orders[o].status \in {"CREATED", "SUBMITTED", "PARTIALLY_FILLED"}
  BY DEF CanTransition, AllowedTransitions
<1>6. FilledInv'
  <2>1. orders[o].filled # orders[o].qty
    BY <1>5 DEF TapeReplays, FilledInv
  <2>2. status # "CANCELLED" => orders[o].filled = 0
    BY DEF TapeReplays, FilledInv
  <2>3. status # "FILLED" /\ status # "PARTIALLY_FILLED"
    OBVIOUS
  <2>4. ASSUME NEW x \in DOMAIN orders'
        PROVE  /\ orders'[x].filled = orders'[x].qty <=> orders'[x].status = "FILLED"
               /\ orders'[x].status = "PARTIALLY_FILLED" => orders'[x].filled > 0
               /\ orders'[x].status \in {"CREATED", "SUBMITTED", "REJECTED"}
                    => orders'[x].filled = 0
    <3>1. CASE x # o
      BY <1>4, <3>1 DEF TapeReplays, FilledInv
    <3>2. CASE x = o
      BY <1>2, <1>4, <2>1, <2>2, <2>3, <3>2
    <3> QED BY <3>1, <3>2
  <2> QED BY <2>4, Zenon DEF FilledInv
<1>7. \A x \in DOMAIN orders' : orders'[x].filled = Total(FillsOf(x))
  BY <1>2, <1>4, Zenon DEF TapeReplays, TotalsInv
<1>8. trades' = trades /\ cash' = cash /\ position' = position
  BY DEF NoFill
<1> QED BY <1>6, <1>7, <1>8, QuietReplays

LEMMA CreateReplays ==
  ASSUME IInv, TapeReplays, NEW symbol \in Symbols, NEW side \in Side,
         NEW type \in {"MARKET", "LIMIT"}, NEW qty \in Quantities,
         NEW price \in LimitPrices \cup {0},
         CreateOrder(symbol, side, type, qty, price)
  PROVE  TapeReplays'
<1> DEFINE new == [symbol |-> symbol, side |-> side, type |-> type, qty |-> qty,
                   price |-> price, status |-> "CREATED", filled |-> 0, avg |-> 0]
           n == Len(orders) + 1
<1>1. new \in Order /\ new.filled = 0 /\ new.qty # 0 /\ new.status = "CREATED"
  BY BrokerAssumption DEF Order, OrderStatus
<1>2. /\ DOMAIN orders' = DOMAIN orders \cup {n} /\ n \notin DOMAIN orders
      /\ orders'[n] = new
      /\ \A x \in DOMAIN orders : orders'[x] = orders[x]
  BY <1>1, AppendProperties DEF IInv, TypeOK, CreateOrder
<1> HIDE DEF new, n
<1>3. FilledInv'
  <2>1. ASSUME NEW x \in DOMAIN orders'
        PROVE  /\ orders'[x].filled = orders'[x].qty <=> orders'[x].status = "FILLED"
               /\ orders'[x].status = "PARTIALLY_FILLED" => orders'[x].filled > 0
               /\ orders'[x].status \in {"CREATED", "SUBMITTED", "REJECTED"}
                    => orders'[x].filled = 0
    <3>1. CASE x \in DOMAIN orders
      BY <1>2, <3>1 DEF TapeReplays, FilledInv
    <3>2. CASE x = n
      BY <1>1, <1>2, <3>2
    <3> QED BY <1>2, <3>1, <3>2
  <2> QED BY <2>1, Zenon DEF FilledInv
<1>4. Total(FillsOf(n)) = 0
  <2>1. FillsOf(n) \in [1 .. Len(trades) -> Int]
    BY TapeTyped DEF IInv, TapeTypes
  <2>2. /\ Len(trades) \in Nat /\ DOMAIN trades = 1 .. Len(trades)
    BY DEF IInv, TypeOK
  <2>3. FillsOf(n) \in Seq(Int) /\ Len(FillsOf(n)) = Len(trades)
    BY <2>1, <2>2
  <2>4. \A t \in 1 .. Len(trades) : FillsOf(n)[t] = 0
    BY <1>2, <2>2 DEF IInv, TapeInv, FillsOf
  <2> QED BY <2>3, <2>4, TotalZeros
<1>5. \A x \in DOMAIN orders' : orders'[x].filled = Total(FillsOf(x))
  BY <1>1, <1>2, <1>4 DEF TapeReplays, TotalsInv
<1>6. trades' = trades /\ cash' = cash /\ position' = position
  BY DEF CreateOrder, NoFill
<1> QED BY <1>3, <1>5, <1>6, QuietReplays

LEMMA SubmitReplays ==
  ASSUME IInv, IInv', TapeReplays, NEW o \in DOMAIN orders, NEW quoted \in MarketPrices,
         NEW bid \in Quotes, NEW ask \in Quotes, NEW exact \in ExactPrices,
         SubmitOrder(o, quoted, bid, ask, exact)
  PROVE  TapeReplays'
<1> DEFINE ord       == orders[o]
           submitted == [ord EXCEPT !.status = "SUBMITTED"]
           price     == ImmediatePrice(ord, MarketPrice(ord.symbol, quoted), bid, ask, exact)
<1>1. /\ ord \in Order /\ ord.status = "CREATED"
      /\ CanTransition(ord.status, "SUBMITTED") /\ CanTransition(ord.status, "REJECTED")
  BY DEF IInv, TypeOK, SubmitOrder, CanTransition, AllowedTransitions
<1>2. CASE orders' = [orders EXCEPT ![o].status = "REJECTED"] /\ NoFill
  BY <1>1, <1>2, StatusReplays
<1>3. CASE orders' = [orders EXCEPT ![o] = submitted] /\ NoFill
  <2>1. orders' = [orders EXCEPT ![o].status = "SUBMITTED"]
    BY <1>3
  <2> QED BY <1>1, <1>3, <2>1, StatusReplays
<1>4. CASE price > 0 /\ ExecuteFill(o, submitted, ord.qty, price)
  <2>1. /\ submitted \in Order
        /\ submitted.qty = ord.qty /\ submitted.filled = ord.filled
    BY <1>1 DEF Order, OrderStatus
  <2>2. ord.filled = 0 /\ ord.qty \in Nat \ {0}
    BY <1>1 DEF IInv, OrderInv, Order
  <2>3. ord.qty <= submitted.qty - submitted.filled
    BY <2>1, <2>2
  <2>4. price \in Nat
    BY SubmittedPrice
  <2> HIDE DEF price, submitted
  <2>5. price \in Nat \ {0}
    BY <1>4, <2>4
  <2> QED BY <1>4, <2>1, <2>2, <2>3, <2>5, FillReplays
<1> QED BY <1>2, <1>3, <1>4 DEF SubmitOrder

LEMMA MatchReplays ==
  ASSUME IInv, IInv', TapeReplays, NEW o \in DOMAIN orders,
         (\E k \in Quantities, raw \in Ticks : FillOrder(o, k, raw)) \/ MatchNext(o)
  PROVE  TapeReplays'
<1>1. /\ orders[o] \in Order /\ orders[o].price \in Nat
      /\ orders[o].qty \in Nat /\ orders[o].filled \in Nat /\ 0 \in Nat
  <2>1. orders[o] \in Order
    BY DEF IInv, TypeOK
  <2> QED BY <2>1 DEF Order
<1>2. ASSUME NEW k \in Quantities, NEW raw \in Ticks, FillOrder(o, k, raw)
      PROVE  TapeReplays'
  <2> DEFINE price == FillPrice(orders[o], raw, 0)
  <2>1. raw \in Nat /\ k \in Nat \ {0}
    BY BrokerAssumption
  <2>2. price \in Nat
    BY <1>1, <2>1, FillPriceLimit
  <2>3. price > 0 /\ ExecuteFill(o, orders[o], k, price) /\ k <= orders[o].qty - orders[o].filled
    BY <1>2 DEF FillOrder, Remaining
  <2> HIDE DEF price
  <2>4. price \in Nat \ {0}
    BY <2>2, <2>3
  <2> QED BY <1>1, <2>1, <2>3, <2>4, FillReplays
<1>3. CASE MatchNext(o)
  <2> DEFINE price == FillPrice(orders[o], orders[o].price, 0)
  <2>1. orders[o].type = "LIMIT" /\ orders[o].price > 0 /\ Remaining(o) > 0
    BY <1>3 DEF MatchNext, IInv, MatchingInv, OrderInv
  <2>2. price \in Nat
    BY <1>1, FillPriceLimit
  <2>3. price > 0
    BY <1>1, <2>1, FillPriceLimit, Zenon
  <2>4. ExecuteFill(o, orders[o], Remaining(o), price)
    BY <1>3 DEF MatchNext
  <2> HIDE DEF price
  <2>5. /\ price \in Nat \ {0} /\ Remaining(o) \in Nat \ {0}
        /\ Remaining(o) <= orders[o].qty - orders[o].filled
    BY <1>1, <2>1, <2>2, <2>3 DEF Remaining
  <2> QED BY <1>1, <2>4, <2>5, FillReplays
<1> QED BY <1>2, <1>3

LEMMA TickQuantities ==
  ASSUME IInv, NEW s \in Symbols, NEW ltp \in Ticks, NEW bid \in Quotes,
         NEW ask \in Quotes, OnTick(s, ltp, bid, ask)
  PROVE  \A r \in Symbols : position'[r].qty = position[r].qty
<1>1. position \in [Symbols -> Position]
  BY DEF IInv, TypeOK
<1>2. ASSUME NEW p \in Position PROVE Marked(p, ltp).qty = p.qty
  BY DEF Marked, Position
<1>3. position' = [position EXCEPT ![s] = Marked(position[s], ltp)]
  BY DEF OnTick
<1> QED BY <1>1, <1>2, <1>3

LEMMA TickReplays ==
  ASSUME IInv, TapeReplays, NEW s \in Symbols, NEW ltp \in Ticks, NEW bid \in Quotes,
         NEW ask \in Quotes, OnTick(s, ltp, bid, ask)
  PROVE  TapeReplays'
<1>1. trades' = trades /\ cash' = cash /\ orders' = orders
  BY DEF OnTick
<1>2. \A r \in Symbols : position'[r].qty = position[r].qty
  BY TickQuantities
<1>3. FilledInv'
  BY <1>1 DEF TapeReplays, FilledInv
<1>4. \A x \in DOMAIN orders' : orders'[x].filled = Total(FillsOf(x))
  BY <1>1 DEF TapeReplays, TotalsInv
<1> QED BY <1>1, <1>2, <1>3, <1>4, QuietReplays

LEMMA NextReplays ==
  ASSUME IInv, IInv', TapeReplays, [Next]_vars
  PROVE  TapeReplays'
<1>1. ASSUME NEW symbol \in Symbols, NEW side \in Side, NEW type \in {"MARKET", "LIMIT"},
             NEW qty \in Quantities, NEW price \in LimitPrices \cup {0},
             CreateOrder(symbol, side, type, qty, price)
      PROVE  TapeReplays'
  BY <1>1, CreateReplays
<1>2. ASSUME NEW o \in DOMAIN orders, NEW quoted \in MarketPrices,
             NEW bid \in Quotes, NEW ask \in Quotes, NEW exact \in ExactPrices,
             SubmitOrder(o, quoted, bid, ask, exact)
      PROVE  TapeReplays'
  BY <1>2, SubmitReplays
<1>3. ASSUME NEW o \in DOMAIN orders, CancelOrder(o)
      PROVE  TapeReplays'
  BY <1>3, StatusReplays DEF CancelOrder
<1>4. ASSUME NEW o \in DOMAIN orders,
             (\E k \in Quantities, raw \in Ticks : FillOrder(o, k, raw)) \/ MatchNext(o)
      PROVE  TapeReplays'
  BY <1>4, MatchReplays
<1>5. ASSUME NEW s \in Symbols, NEW ltp \in Ticks, NEW bid \in Quotes, NEW ask \in Quotes,
             OnTick(s, ltp, bid, ask)
      PROVE  TapeReplays'
  BY <1>5, TickReplays
<1>6. CASE UNCHANGED vars
  <2>1. FilledInv' /\ \A o : FillsOf(o)' = FillsOf(o)
    BY <1>6 DEF vars, TapeReplays, FilledInv, FillsOf
  <2>2. (\A s : MovesOf(s)' = MovesOf(s)) /\ CashReconciles'
    BY <1>6, Zenon DEF vars, TapeReplays, TotalsInv, MovesOf, CashReconciles, CashFlows
  <2> QED BY <1>6, <2>1, <2>2, Zenon DEF vars, TapeReplays, TotalsInv
<1> QED BY <1>1, <1>2, <1>3, <1>4, <1>5, <1>6 DEF Next

-----------------------------------------------------------------------------
(* The results.                                                            *)

(* Every reachable state of the broker is well typed: average prices and   *)
(* filled quantities never go negative and every recorded trade has a      *)
(* positive price and quantity, which is what lets the pydantic validators *)
(* of Trade and Position accept whatever the broker computes.              *)
THEOREM TypeCorrect == Spec => []TypeOK
BY Inductive, PTL DEF IInv

(* No limit order is ever filled worse than its limit (_execute_fill's     *)
(* clamp), for every slippage model, quote and exact price.                *)
THEOREM LimitClamped == Spec => []LimitNeverWorse
BY Inductive, PTL DEF IInv

(* Average-cost accounting loses at most half a paisa per unit held each   *)
(* time it averages, over any number of trades.                            *)
THEOREM LedgerBalanced == Spec => []LedgerReconciles
BY Inductive, PTL DEF IInv

LEMMA MarkFromLedger == IInv => MarkedPnLReconciles
<1> SUFFICES ASSUME IInv, NEW s \in Symbols, latest[s] # NoPrice
             PROVE  2 * Abs(flow[s] + position[s].qty * latest[s]
                              - (position[s].realized + position[s].unrealized)) <= slack[s]
  BY DEF MarkedPnLReconciles
<1> DEFINE p == position[s]
<1>1. /\ p.qty \in Int /\ p.buyAvg \in Nat /\ p.sellAvg \in Nat
      /\ p.realized \in Int /\ latest[s] \in Nat /\ flow[s] \in Int
  BY DEF IInv, TypeOK, Position, NoPrice
<1>2. p.unrealized = Unrealized(p.qty, p.buyAvg, p.sellAvg, latest[s])
  BY DEF IInv, MarkInv
<1>3. p.unrealized = p.qty * latest[s] - Book(p)
  <2>1. CASE p.qty > 0
    BY <1>1, <1>2, <2>1, SMT DEF Unrealized, Book
  <2>2. CASE ~(p.qty > 0)
    <3>a. \A a, b, c \in Int : (a - b) * (-c) = c * b - c * a
      BY SMT
    <3> HIDE DEF p
    <3>1. (p.sellAvg - latest[s]) * (-p.qty) = p.qty * latest[s] - p.qty * p.sellAvg
      BY <1>1, <3>a
    <3> QED BY <1>2, <2>2, <3>1 DEF Unrealized, Book
  <2> QED BY <2>1, <2>2
<1>4. 2 * Abs(flow[s] + Book(p) - p.realized) <= slack[s]
  BY DEF IInv, LedgerReconciles
<1>5. Book(p) \in Int /\ p.qty * latest[s] \in Int
  BY <1>1, SMT DEF Book
<1> HIDE DEF p
<1>6. flow[s] + p.qty * latest[s] - (p.realized + p.unrealized) = flow[s] + Book(p) - p.realized
  BY <1>1, <1>3, <1>5
<1> QED BY <1>4, <1>6 DEF p

(* The profit the account reports for a symbol with a last price is what   *)
(* its trades and position are worth, within the same rounding bound: no   *)
(* order of ticks and fills leaves a stale mark behind.                    *)
THEOREM MarkedPnLBalanced == Spec => []MarkedPnLReconciles
BY Inductive, MarkFromLedger, PTL

THEOREM Replayed == Spec => []TapeReplays
<1>1. Init => TapeReplays
  BY TapeInit
<1>2. IInv /\ IInv' /\ TapeReplays /\ [Next]_vars => TapeReplays'
  BY NextReplays
<1> QED BY <1>1, <1>2, Inductive, PTL DEF Spec

(* The order book, the tape of trades and the positions tell one story:    *)
(* _execute_fill's separate updates never drift apart, however orders are  *)
(* filled in parts, cancelled, matched by ticks or refused.                *)
THEOREM BookMatchesTape == Spec => []FillsMatchTrades
<1>1. IInv /\ TapeReplays => FillsMatchTrades
  BY Zenon DEF IInv, OrderInv, TapeReplays, FilledInv, TotalsInv, FillsMatchTrades
<1> QED BY <1>1, Inductive, Replayed, PTL

(* Cash is the initial capital plus every trade's proceeds less its        *)
(* charges, to the paisa, after any number of trades.                      *)
THEOREM CashBalanced == Spec => []CashReconciles
<1>1. TapeReplays => CashReconciles
  BY DEF TapeReplays, TotalsInv
<1> QED BY <1>1, Replayed, PTL

-----------------------------------------------------------------------------
(* Liquidation.                                                            *)

LEMMA ClosingAdmitted ==
  ASSUME IInv, NEW o \in DOMAIN orders,
         Signed(orders[o].side, 1) * position[orders[o].symbol].qty < 0,
         orders[o].qty <= Abs(position[orders[o].symbol].qty),
         latest[orders[o].symbol] # NoPrice, NEW quoted \in MarketPrices
  PROVE  ~Refused(orders[o], EstimatedPrice(orders[o], MarketPrice(orders[o].symbol, quoted)))
<1> DEFINE ord == orders[o]
           p   == position[ord.symbol]
<1>1. ord \in Order
  BY DEF IInv, TypeOK
<1>2. ord.symbol \in Symbols /\ ord.side \in Side /\ ord.qty \in Nat \ {0} /\ ord.price \in Nat
  BY <1>1 DEF Order
<1>3. p \in Position /\ p.qty \in Int
  BY <1>2 DEF IInv, TypeOK, Position
<1>4. Signed(ord.side, 1) * p.qty < 0 /\ ord.qty <= Abs(p.qty)
  OBVIOUS
<1>5. latest[ord.symbol] \in Nat
  BY <1>2 DEF IInv, TypeOK
<1> HIDE DEF ord, p
<1>6. ClosedQty(p, ord.side, ord.qty) = ord.qty
  <2>1. CASE ord.side = "BUY"
    BY <1>2, <1>3, <1>4, <2>1, SMT DEF Signed, Abs, ClosedQty, Lesser
  <2>2. CASE ord.side # "BUY"
    BY <1>2, <1>3, <1>4, <2>2, SMT DEF Signed, Abs, ClosedQty, Lesser
  <2> QED BY <2>1, <2>2
<1>7. NetNewQty(ord) = 0
  BY <1>2, <1>6 DEF NetNewQty, p
<1>8. EstimatedPrice(ord, MarketPrice(ord.symbol, quoted)) # NoPrice
  BY <1>2, <1>5, BrokerAssumption DEF EstimatedPrice, MarketPrice, NoPrice
<1> QED BY <1>7, <1>8 DEF Refused, ord

LEMMA RefusedOnlyBySubmit ==
  ASSUME IInv, [Next]_vars, NEW o \in DOMAIN orders,
         orders[o].status = "CREATED", orders'[o].status = "REJECTED"
  PROVE  \E quoted \in MarketPrices :
           Refused(orders[o], EstimatedPrice(orders[o], MarketPrice(orders[o].symbol, quoted)))
<1>1. orders \in Seq(Order) /\ orders[o] \in Order
  BY DEF IInv, TypeOK
<1>2. orders'[o] # orders[o]
  OBVIOUS
<1>3. ASSUME NEW x \in DOMAIN orders, x # o, NEW v, orders' = [orders EXCEPT ![x] = v]
      PROVE  FALSE
  BY <1>1, <1>2, <1>3
<1>4. ASSUME NEW x \in DOMAIN orders, NEW ord \in Order, NEW k, NEW price,
             ExecuteFill(x, ord, k, price)
      PROVE  FALSE
  <2> DEFINE st == IF ord.filled + k = ord.qty THEN "FILLED" ELSE "PARTIALLY_FILLED"
  <2>1. PICK avg : orders' = [orders EXCEPT ![x] =
             [ord EXCEPT !.filled = ord.filled + k, !.avg = avg, !.status = st]]
    BY <1>4 DEF ExecuteFill
  <2>2. st # "REJECTED"
    OBVIOUS
  <2> DEFINE new == [ord EXCEPT !.filled = ord.filled + k, !.avg = avg, !.status = st]
  <2>3. new.status = st
    <3> HIDE DEF st
    <3> QED BY DEF Order
  <2>4. orders' = [orders EXCEPT ![x] = new]
    BY <2>1
  <2> HIDE DEF new, st
  <2>5. x = o
    BY <1>3, <2>4
  <2> QED BY <1>1, <2>2, <2>3, <2>4, <2>5
<1>5. ASSUME NEW symbol \in Symbols, NEW side \in Side, NEW type \in {"MARKET", "LIMIT"},
             NEW qty \in Quantities, NEW price \in LimitPrices \cup {0},
             CreateOrder(symbol, side, type, qty, price)
      PROVE  FALSE
  BY <1>1, <1>2, <1>5 DEF CreateOrder
<1>6. ASSUME NEW x \in DOMAIN orders, NEW quoted \in MarketPrices,
             NEW bid \in Quotes, NEW ask \in Quotes, NEW exact \in ExactPrices,
             SubmitOrder(x, quoted, bid, ask, exact)
      PROVE  /\ x = o
             /\ Refused(orders[o], EstimatedPrice(orders[o], MarketPrice(orders[o].symbol, quoted)))
  <2> DEFINE submitted == [orders[x] EXCEPT !.status = "SUBMITTED"]
             price == ImmediatePrice(orders[x], MarketPrice(orders[x].symbol, quoted),
                                     bid, ask, exact)
  <2>0. orders[x] \in Order
    BY DEF IInv, TypeOK
  <2>1. submitted \in Order /\ submitted.status = "SUBMITTED"
    BY <2>0 DEF Order, OrderStatus
  <2>2. CASE ExecuteFill(x, submitted, orders[x].qty, price)
    BY <1>4, <2>1, <2>2, Zenon
  <2>3. CASE orders' = [orders EXCEPT ![x] = submitted]
    <3>1. x = o
      BY <1>3, <2>3
    <3> HIDE DEF submitted
    <3> QED BY <1>1, <2>1, <2>3, <3>1
  <2>4. CASE /\ orders' = [orders EXCEPT ![x].status = "REJECTED"]
             /\ Refused(orders[x], EstimatedPrice(orders[x], MarketPrice(orders[x].symbol, quoted)))
    <3>1. x = o
      BY <1>3, <2>4
    <3> QED BY <2>4, <3>1
  <2> QED BY <1>6, <2>2, <2>3, <2>4, Zenon DEF SubmitOrder
<1>7. ASSUME NEW x \in DOMAIN orders, CancelOrder(x)
      PROVE  FALSE
  <2>1. x = o /\ orders' = [orders EXCEPT ![x].status = "CANCELLED"]
    BY <1>3, <1>7 DEF CancelOrder
  <2> QED BY <1>1, <2>1 DEF Order
<1>8. ASSUME NEW x \in DOMAIN orders,
             (\E k \in Quantities, raw \in Ticks : FillOrder(x, k, raw)) \/ MatchNext(x)
      PROVE  FALSE
  <2>1. orders[x] \in Order
    BY DEF IInv, TypeOK
  <2> QED BY <1>4, <1>8, <2>1, Zenon DEF FillOrder, MatchNext
<1>9. CASE orders' = orders
  BY <1>2, <1>9
<1> QED BY <1>5, <1>6, <1>7, <1>8, <1>9 DEF Next, OnTick, vars

(* submit_order never refuses an order that only closes or reduces a       *)
(* position, whatever the margin: liquidation is always open.              *)
THEOREM ClosesAdmitted == Spec => CloseNeverRefused
<1> DEFINE Admitted ==
      \A o \in DOMAIN orders :
        LET ord == orders[o]
            net == position[ord.symbol].qty
            closes == /\ Signed(ord.side, 1) * net < 0
                      /\ ord.qty <= Abs(net)
        IN  closes /\ latest[ord.symbol] # NoPrice /\ ord.status = "CREATED"
              => orders'[o].status # "REJECTED"
<1>1. IInv /\ [Next]_vars => Admitted
  <2> SUFFICES ASSUME IInv, [Next]_vars, NEW o \in DOMAIN orders,
                      Signed(orders[o].side, 1) * position[orders[o].symbol].qty < 0,
                      orders[o].qty <= Abs(position[orders[o].symbol].qty),
                      latest[orders[o].symbol] # NoPrice, orders[o].status = "CREATED",
                      orders'[o].status = "REJECTED"
               PROVE  FALSE
    BY Zenon
  <2>1. PICK quoted \in MarketPrices :
          Refused(orders[o], EstimatedPrice(orders[o], MarketPrice(orders[o].symbol, quoted)))
    BY RefusedOnlyBySubmit
  <2> QED BY <2>1, ClosingAdmitted
<1>2. IInv /\ [Next]_vars => [Admitted]_vars
  BY <1>1, Zenon
<1> HIDE DEF Admitted
<1>3. Spec => [][Admitted]_vars
  BY <1>2, Inductive, PTL DEF Spec
<1> QED BY <1>3 DEF Admitted, CloseNeverRefused

-----------------------------------------------------------------------------
(* The order lifecycle, step by step.                                      *)

View(ord) == [symbol |-> ord.symbol, side |-> ord.side, qty |-> ord.qty,
              status |-> ord.status, filled |-> ord.filled]
Shown == [o \in DOMAIN orders |-> View(orders[o])]
Net == [s \in Symbols |-> position[s].qty]

LEMMA ViewFields ==
  ASSUME NEW ord
  PROVE  /\ View(ord).symbol = ord.symbol /\ View(ord).side = ord.side
         /\ View(ord).qty = ord.qty /\ View(ord).status = ord.status
         /\ View(ord).filled = ord.filled
  BY DEF View

(* The abstract actions, in terms of Shown and Net. *)
LEMMA LifecycleActions ==
  /\ Lifecycle!Init <=> Shown = <<>> /\ Net = [s \in Symbols |-> 0]
  /\ \A symbol, side, qty :
       Lifecycle!Place(symbol, side, qty) <=>
         /\ Shown' = Append(Shown, [symbol |-> symbol, side |-> side, qty |-> qty,
                                    status |-> "CREATED", filled |-> 0])
         /\ Net' = Net
  /\ \A o, status :
       Lifecycle!Move(o, status) <=>
         /\ CanTransition(Shown[o].status, status)
         /\ Shown' = [Shown EXCEPT ![o].status = status]
         /\ Net' = Net
  /\ \A o, k :
       Lifecycle!Fill(o, k) <=>
         /\ Shown[o].status \in Open \cup {"CREATED"}
         /\ k \in 1 .. Shown[o].qty - Shown[o].filled
         /\ Shown' = [Shown EXCEPT
              ![o].filled = Shown[o].filled + k,
              ![o].status = IF Shown[o].filled + k = Shown[o].qty THEN "FILLED"
                                                                  ELSE "PARTIALLY_FILLED"]
         /\ Net' = [Net EXCEPT ![Shown[o].symbol] = @ + Lifecycle!Direction(Shown[o].side) * k]
  /\ Lifecycle!Next <=>
       \/ \E symbol \in Symbols, side \in {"BUY", "SELL"}, qty \in Quantities :
            Lifecycle!Place(symbol, side, qty)
       \/ \E o \in DOMAIN Shown :
            \/ Lifecycle!Move(o, "SUBMITTED")
            \/ Shown[o].status = "CREATED" /\ Lifecycle!Move(o, "REJECTED")
            \/ Lifecycle!Move(o, "CANCELLED")
            \/ \E k \in 1 .. Shown[o].qty : Lifecycle!Fill(o, k)
  /\ Lifecycle!vars = <<Shown, Net>>
<1>1. Lifecycle!Init <=> Shown = <<>> /\ Net = [s \in Symbols |-> 0]
  BY Zenon DEF Lifecycle!Init, Shown, Net, View
<1>2. ASSUME NEW symbol, NEW side, NEW qty
      PROVE  Lifecycle!Place(symbol, side, qty) <=>
               /\ Shown' = Append(Shown, [symbol |-> symbol, side |-> side, qty |-> qty,
                                          status |-> "CREATED", filled |-> 0])
               /\ Net' = Net
  BY Zenon DEF Lifecycle!Place, Shown, Net, View
<1>3. ASSUME NEW o, NEW status
      PROVE  Lifecycle!Move(o, status) <=>
               /\ CanTransition(Shown[o].status, status)
               /\ Shown' = [Shown EXCEPT ![o].status = status]
               /\ Net' = Net
  BY Zenon DEF Lifecycle!Move, Lifecycle!CanTransition, Lifecycle!AllowedTransitions,
               CanTransition, AllowedTransitions, Shown, Net, View
<1>4. ASSUME NEW o, NEW k
      PROVE  Lifecycle!Fill(o, k) <=>
         /\ Shown[o].status \in Open \cup {"CREATED"}
         /\ k \in 1 .. Shown[o].qty - Shown[o].filled
         /\ Shown' = [Shown EXCEPT
              ![o].filled = Shown[o].filled + k,
              ![o].status = IF Shown[o].filled + k = Shown[o].qty THEN "FILLED"
                                                                  ELSE "PARTIALLY_FILLED"]
         /\ Net' = [Net EXCEPT ![Shown[o].symbol] = @ + Lifecycle!Direction(Shown[o].side) * k]
  BY Zenon DEF Lifecycle!Fill, Lifecycle!Open, Open, Shown, Net, View
<1>5. Lifecycle!Next <=>
       \/ \E symbol \in Symbols, side \in {"BUY", "SELL"}, qty \in Quantities :
            Lifecycle!Place(symbol, side, qty)
       \/ \E o \in DOMAIN Shown :
            \/ Lifecycle!Move(o, "SUBMITTED")
            \/ Shown[o].status = "CREATED" /\ Lifecycle!Move(o, "REJECTED")
            \/ Lifecycle!Move(o, "CANCELLED")
            \/ \E k \in 1 .. Shown[o].qty : Lifecycle!Fill(o, k)
  BY Zenon DEF Lifecycle!Next, Lifecycle!Admit, Lifecycle!Refuse, Lifecycle!Cancel,
               Shown, View
<1>6. Lifecycle!vars = <<Shown, Net>>
  BY Zenon DEF Lifecycle!vars, Shown, Net, View
<1> QED BY <1>1, <1>2, <1>3, <1>4, <1>5, <1>6, Zenon

Viewed == [symbol : Symbols, side : Side, qty : Nat, status : OrderStatus, filled : Nat]

ShownTypes ==
  /\ Shown \in Seq(Viewed) /\ Len(Shown) = Len(orders)
  /\ \A o \in DOMAIN orders : Shown[o] = View(orders[o])

LEMMA ShownTyped == TypeOK => ShownTypes
<1> SUFFICES ASSUME TypeOK PROVE ShownTypes
  OBVIOUS
<1>1. orders \in Seq(Order) /\ DOMAIN orders = 1 .. Len(orders) /\ Len(orders) \in Nat
  BY DEF TypeOK
<1>2. ASSUME NEW ord \in Order PROVE View(ord) \in Viewed
  BY DEF View, Viewed, Order
<1>3. \A o \in DOMAIN orders : orders[o] \in Order
  BY <1>1, ElementOfSeq
<1>4. Shown \in [1 .. Len(orders) -> Viewed]
  BY <1>1, <1>2, <1>3 DEF Shown
<1>5. Shown \in Seq(Viewed) /\ Len(Shown) = Len(orders)
  BY <1>1, <1>4
<1> QED BY <1>1, <1>5 DEF Shown, ShownTypes

LEMMA InitShown == Init => Lifecycle!Init
<1> SUFFICES ASSUME Init PROVE Lifecycle!Init
  OBVIOUS
<1>1. Shown = <<>>
  BY DEF Init, Shown
<1>2. Net = [s \in Symbols |-> 0]
  BY DEF Init, Net
<1> QED BY <1>1, <1>2, LifecycleActions

LEMMA CreatePlaces ==
  ASSUME IInv, IInv', NEW symbol \in Symbols, NEW side \in Side,
         NEW type \in {"MARKET", "LIMIT"}, NEW qty \in Quantities,
         NEW price \in LimitPrices \cup {0},
         CreateOrder(symbol, side, type, qty, price)
  PROVE  Lifecycle!Place(symbol, side, qty)
<1> DEFINE new == [symbol |-> symbol, side |-> side, type |-> type, qty |-> qty,
                   price |-> price, status |-> "CREATED", filled |-> 0, avg |-> 0]
           seen == [symbol |-> symbol, side |-> side, qty |-> qty,
                    status |-> "CREATED", filled |-> 0]
           n == Len(orders)
<1>1. View(new) = seen
  BY DEF View
<1>2. seen \in Viewed /\ new \in Order
  BY BrokerAssumption DEF Viewed, Order, OrderStatus
<1> HIDE DEF new, seen
<1>3. /\ n \in Nat /\ Len(orders') = n + 1 /\ orders'[n + 1] = new
      /\ \A x \in 1 .. n : orders'[x] = orders[x]
      /\ DOMAIN orders = 1 .. n /\ DOMAIN orders' = 1 .. n + 1
  BY <1>2, AppendProperties DEF IInv, TypeOK, CreateOrder, new
<1> HIDE DEF n
<1>4. TypeOK /\ TypeOK'
  BY DEF IInv
<1>a. ShownTypes /\ ShownTypes'
  BY <1>4, ShownTyped, PTL
<1>5. /\ Shown \in Seq(Viewed) /\ Len(Shown) = n
      /\ \A x \in 1 .. n : Shown[x] = View(orders[x])
  BY <1>3, <1>a DEF n, ShownTypes
<1>6. /\ Shown' \in Seq(Viewed) /\ Len(Shown') = n + 1
      /\ \A x \in 1 .. n + 1 : Shown'[x] = View(orders'[x])
  BY <1>3, <1>a DEF ShownTypes
<1> DEFINE more == Append(Shown, seen)
<1>7. /\ more \in Seq(Viewed) /\ Len(more) = n + 1 /\ more[n + 1] = seen
      /\ \A x \in 1 .. n : more[x] = Shown[x]
  BY <1>2, <1>5, AppendProperties
<1> HIDE DEF more
<1>8. ASSUME NEW x \in 1 .. n + 1 PROVE Shown'[x] = more[x]
  <2>1. CASE x \in 1 .. n
    BY <1>3, <1>5, <1>6, <1>7, <2>1
  <2>2. CASE x = n + 1
    BY <1>1, <1>3, <1>6, <1>7, <2>2
  <2> QED BY <1>3, <2>1, <2>2
<1>9. Shown' = more
  BY <1>6, <1>7, <1>8, SeqEqual
<1>10. Net' = Net
  BY DEF Net, CreateOrder, NoFill
<1> QED BY <1>9, <1>10, LifecycleActions DEF more, seen

(* An order whose status alone changes. *)
LEMMA StatusMoves ==
  ASSUME IInv, NEW o \in DOMAIN orders, NEW status,
         CanTransition(orders[o].status, status),
         orders' = [orders EXCEPT ![o].status = status], NoFill
  PROVE  /\ o \in DOMAIN Shown /\ Shown[o].status = orders[o].status
         /\ Lifecycle!Move(o, status)
<1> DEFINE new == [orders[o] EXCEPT !.status = status]
<1>1. orders[o] \in Order /\ orders \in Seq(Order)
  BY DEF IInv, TypeOK
<1>2. /\ new.symbol = orders[o].symbol /\ new.side = orders[o].side
      /\ new.qty = orders[o].qty /\ new.filled = orders[o].filled /\ new.status = status
  BY <1>1 DEF Order
<1>3. orders' = [orders EXCEPT ![o] = new]
  OBVIOUS
<1> HIDE DEF new
<1>4. /\ DOMAIN orders' = DOMAIN orders /\ orders'[o] = new
      /\ \A x \in DOMAIN orders \ {o} : orders'[x] = orders[x]
  BY <1>1, <1>3
<1> DEFINE seen == [Shown[o] EXCEPT !.status = status]
<1>5. View(new) = seen
  <2>1. View(new) = [symbol |-> orders[o].symbol, side |-> orders[o].side,
                     qty |-> orders[o].qty, status |-> status, filled |-> orders[o].filled]
    BY <1>2 DEF View
  <2>2. Shown[o] = [symbol |-> orders[o].symbol, side |-> orders[o].side,
                    qty |-> orders[o].qty, status |-> orders[o].status,
                    filled |-> orders[o].filled]
    BY DEF Shown, View
  <2> QED BY <2>1, <2>2
<1> HIDE DEF seen
<1>6. Shown' = [Shown EXCEPT ![o] = seen]
  <2>1. Shown' = [x \in DOMAIN orders |-> IF x = o THEN seen ELSE View(orders[x])]
    BY <1>4, <1>5 DEF Shown
  <2> QED BY <2>1 DEF Shown
<1>7. Shown' = [Shown EXCEPT ![o].status = status]
  BY <1>6 DEF seen
<1>8. DOMAIN Shown = DOMAIN orders /\ Shown[o].status = orders[o].status
  BY DEF Shown, View
<1>9. Net' = Net
  BY DEF Net, NoFill
<1> QED BY <1>7, <1>8, <1>9, LifecycleActions

LEMMA FillFills ==
  ASSUME IInv, NEW o \in DOMAIN orders, NEW ord \in Order,
         orders[o].status \in Open \cup {"CREATED"},
         ord.symbol = orders[o].symbol, ord.side = orders[o].side,
         ord.qty = orders[o].qty, ord.filled = orders[o].filled,
         NEW k \in Nat \ {0}, k <= ord.qty - ord.filled,
         NEW price \in Nat \ {0}, ExecuteFill(o, ord, k, price)
  PROVE  Lifecycle!Next
<1> DEFINE st == IF ord.filled + k = ord.qty THEN "FILLED" ELSE "PARTIALLY_FILLED"
           s  == ord.symbol
           d  == Signed(ord.side, k)
<1>1. /\ DOMAIN orders' = DOMAIN orders
      /\ \A x \in DOMAIN orders \ {o} : orders'[x] = orders[x]
      /\ orders'[o].symbol = ord.symbol /\ orders'[o].side = ord.side
      /\ orders'[o].qty = ord.qty
      /\ orders'[o].filled = ord.filled + k /\ orders'[o].status = st
      /\ \A r \in Symbols :
           position'[r].qty = position[r].qty + IF r = s THEN d ELSE 0
  BY FillEffect
<1>2. /\ s \in Symbols /\ ord.qty \in Nat /\ ord.filled \in Nat /\ d \in Int
      /\ Lifecycle!Direction(ord.side) * k = d
  BY DEF Order, Signed, Lifecycle!Direction
<1>3. /\ DOMAIN Shown = DOMAIN orders
      /\ Shown[o] = [symbol |-> s, side |-> ord.side, qty |-> ord.qty,
                     status |-> orders[o].status, filled |-> ord.filled]
  BY DEF Shown, View
<1> HIDE DEF st, s, d
<1> DEFINE seen == [symbol |-> s, side |-> ord.side, qty |-> ord.qty,
                    status |-> st, filled |-> ord.filled + k]
<1>4. View(orders'[o]) = seen
  BY <1>1 DEF View, s
<1>5. seen = [Shown[o] EXCEPT !.filled = ord.filled + k, !.status = st]
  <2> DEFINE old == [symbol |-> s, side |-> ord.side, qty |-> ord.qty,
                     status |-> orders[o].status, filled |-> ord.filled]
  <2>1. seen = [old EXCEPT !.filled = ord.filled + k, !.status = st]
    <3> DEFINE f    == ord.filled + k
               half == [symbol |-> s, side |-> ord.side, qty |-> ord.qty,
                        status |-> orders[o].status, filled |-> f]
               new  == [half EXCEPT !.status = st]
    <3>1. seen = new
      OBVIOUS
    <3>2. half = [old EXCEPT !.filled = f]
      <4> HIDE DEF f, seen
      <4> QED OBVIOUS
    <3> HIDE DEF old, half, f, seen
    <3>3. [old EXCEPT !.filled = f, !.status = st] = [[old EXCEPT !.filled = f] EXCEPT !.status = st]
      BY Zenon
    <3> QED BY <3>1, <3>2, <3>3, Zenon DEF f
  <2>2. Shown[o] = old
    BY <1>3
  <2> HIDE DEF old, seen
  <2> QED BY <2>1, <2>2, Zenon
<1> HIDE DEF seen
<1>6. Shown' = [Shown EXCEPT ![o] = seen]
  <2>1. Shown' = [x \in DOMAIN orders |-> IF x = o THEN seen ELSE View(orders[x])]
    BY <1>1, <1>4 DEF Shown
  <2> QED BY <2>1 DEF Shown
<1>7. Shown' = [Shown EXCEPT ![o].filled = ord.filled + k, ![o].status = st]
  BY <1>3, <1>5, <1>6
<1>8. Net' = [Net EXCEPT ![s] = @ + d]
  <2>1. \A r \in Symbols : position[r].qty \in Int
    BY DEF IInv, TypeOK, Position
  <2>2. Net' = [r \in Symbols |-> position[r].qty + IF r = s THEN d ELSE 0]
    BY <1>1, Zenon DEF Net
  <2>3. \A r \in Symbols :
          position[r].qty + (IF r = s THEN d ELSE 0) = IF r = s THEN Net[s] + d ELSE Net[r]
    BY <1>2, <2>1 DEF Net
  <2>4. DOMAIN Net = Symbols
    BY DEF Net
  <2>5. Net' = [r \in Symbols |-> IF r = s THEN Net[s] + d ELSE Net[r]]
    BY <2>2, <2>3
  <2> QED BY <1>2, <2>4, <2>5
<1>9. /\ Shown[o].symbol = s /\ Shown[o].side = ord.side /\ Shown[o].qty = ord.qty
      /\ Shown[o].filled = ord.filled /\ Shown[o].status = orders[o].status
  BY <1>3
<1>10. k \in 1 .. ord.qty - ord.filled /\ k \in 1 .. ord.qty
  BY <1>2
<1>11. Lifecycle!Fill(o, k)
  BY <1>2, <1>7, <1>8, <1>9, <1>10, LifecycleActions DEF st
<1> QED BY <1>3, <1>9, <1>10, <1>11, LifecycleActions

LEMMA StepShown ==
  ASSUME IInv, IInv', TapeReplays, [Next]_vars
  PROVE  Lifecycle!Next \/ <<Shown, Net>>' = <<Shown, Net>>
<1>1. ASSUME NEW symbol \in Symbols, NEW side \in Side, NEW type \in {"MARKET", "LIMIT"},
             NEW qty \in Quantities, NEW price \in LimitPrices \cup {0},
             CreateOrder(symbol, side, type, qty, price)
      PROVE  Lifecycle!Next
  BY <1>1, CreatePlaces, LifecycleActions DEF Side
<1>2. ASSUME NEW o \in DOMAIN orders, NEW quoted \in MarketPrices,
             NEW bid \in Quotes, NEW ask \in Quotes, NEW exact \in ExactPrices,
             SubmitOrder(o, quoted, bid, ask, exact)
      PROVE  Lifecycle!Next
  <2> DEFINE ord       == orders[o]
             submitted == [ord EXCEPT !.status = "SUBMITTED"]
             price     == ImmediatePrice(ord, MarketPrice(ord.symbol, quoted), bid, ask, exact)
  <2>0. ord \in Order
    BY DEF IInv, TypeOK
  <2>1. /\ ord.status = "CREATED"
        /\ CanTransition(ord.status, "SUBMITTED") /\ CanTransition(ord.status, "REJECTED")
    BY <1>2 DEF SubmitOrder, CanTransition, AllowedTransitions
  <2>2. CASE orders' = [orders EXCEPT ![o].status = "REJECTED"] /\ NoFill
    BY <2>1, <2>2, StatusMoves, LifecycleActions
  <2>3. CASE orders' = [orders EXCEPT ![o] = submitted] /\ NoFill
    <3>1. orders' = [orders EXCEPT ![o].status = "SUBMITTED"]
      BY <2>3
    <3> QED BY <2>1, <2>3, <3>1, StatusMoves, LifecycleActions
  <2>4. CASE price > 0 /\ ExecuteFill(o, submitted, ord.qty, price)
    <3>1. /\ submitted \in Order
          /\ submitted.symbol = ord.symbol /\ submitted.side = ord.side
          /\ submitted.qty = ord.qty /\ submitted.filled = ord.filled
      BY <2>0 DEF Order, OrderStatus
    <3>2. ord.filled = 0 /\ ord.qty \in Nat \ {0}
      BY <2>0, <2>1 DEF IInv, OrderInv, Order
    <3>3. ord.qty <= submitted.qty - submitted.filled
      BY <3>1, <3>2
    <3>4. price \in Nat
      BY SubmittedPrice
    <3> HIDE DEF price, submitted
    <3>5. price \in Nat \ {0} /\ ord.status \in Open \cup {"CREATED"}
      BY <2>1, <2>4, <3>4
    <3> QED BY <2>4, <3>1, <3>2, <3>3, <3>5, FillFills
  <2> QED BY <1>2, <2>2, <2>3, <2>4 DEF SubmitOrder
<1>3. ASSUME NEW o \in DOMAIN orders, CancelOrder(o)
      PROVE  Lifecycle!Next
  BY <1>3, StatusMoves, LifecycleActions DEF CancelOrder
<1>4. ASSUME NEW o \in DOMAIN orders
      PROVE  /\ orders[o] \in Order /\ orders[o].price \in Nat
             /\ orders[o].qty \in Nat /\ orders[o].filled \in Nat /\ 0 \in Nat
  <2>1. orders[o] \in Order
    BY DEF IInv, TypeOK
  <2> QED BY <2>1 DEF Order
<1>5. ASSUME NEW o \in DOMAIN orders, NEW k \in Quantities, NEW raw \in Ticks,
             FillOrder(o, k, raw)
      PROVE  Lifecycle!Next
  <2> DEFINE price == FillPrice(orders[o], raw, 0)
  <2>1. raw \in Nat /\ k \in Nat \ {0}
    BY BrokerAssumption
  <2>2. price \in Nat
    BY <1>4, <2>1, FillPriceLimit
  <2>3. /\ price > 0 /\ ExecuteFill(o, orders[o], k, price)
        /\ k <= orders[o].qty - orders[o].filled
        /\ orders[o].status \in Open \cup {"CREATED"}
    BY <1>5 DEF FillOrder, Remaining
  <2> HIDE DEF price
  <2>4. price \in Nat \ {0}
    BY <2>2, <2>3
  <2> QED BY <1>4, <2>1, <2>3, <2>4, FillFills
<1>6. ASSUME NEW o \in DOMAIN orders, MatchNext(o)
      PROVE  Lifecycle!Next
  <2> DEFINE price == FillPrice(orders[o], orders[o].price, 0)
  <2>1. /\ orders[o].type = "LIMIT" /\ orders[o].price > 0 /\ Remaining(o) > 0
        /\ orders[o].status \in Open \cup {"CREATED"}
    BY <1>6 DEF MatchNext, IInv, MatchingInv, OrderInv
  <2>2. price \in Nat
    BY <1>4, FillPriceLimit
  <2>3. price > 0
    BY <1>4, <2>1, FillPriceLimit, Zenon
  <2>4. ExecuteFill(o, orders[o], Remaining(o), price)
    BY <1>6 DEF MatchNext
  <2> HIDE DEF price
  <2>5. /\ price \in Nat \ {0} /\ Remaining(o) \in Nat \ {0}
        /\ Remaining(o) <= orders[o].qty - orders[o].filled
    BY <1>4, <2>1, <2>2, <2>3 DEF Remaining
  <2> QED BY <1>4, <2>1, <2>4, <2>5, FillFills
<1>7. ASSUME NEW s \in Symbols, NEW ltp \in Ticks, NEW bid \in Quotes, NEW ask \in Quotes,
             OnTick(s, ltp, bid, ask)
      PROVE  <<Shown, Net>>' = <<Shown, Net>>
  <2>1. \A r \in Symbols : position'[r].qty = position[r].qty
    BY <1>7, TickQuantities
  <2>2. Shown' = Shown
    BY <1>7 DEF OnTick, Shown
  <2> QED BY <2>1, <2>2 DEF Net
<1>8. CASE UNCHANGED vars
  BY <1>8 DEF vars, Shown, Net
<1> QED BY <1>1, <1>2, <1>3, <1>5, <1>6, <1>7, <1>8 DEF Next

(* The broker implements the order lifecycle: every operation, a fill in   *)
(* submit_order, fill_order or a tick's matching among them, is a legal    *)
(* move of one order, and positions move by exactly what is filled.        *)
THEOREM LifecycleImplemented == Spec => ImplementsLifecycle
<1>1. Init => Lifecycle!Init
  BY InitShown
<1>2. IInv /\ IInv' /\ TapeReplays /\ [Next]_vars => [Lifecycle!Next]_Lifecycle!vars
  <2> SUFFICES ASSUME IInv, IInv', TapeReplays, [Next]_vars
               PROVE  Lifecycle!Next \/ Lifecycle!vars' = Lifecycle!vars
    OBVIOUS
  <2>1. Lifecycle!vars' = <<Shown, Net>>' /\ Lifecycle!vars = <<Shown, Net>>
    BY Zenon DEF Lifecycle!vars, Shown, Net, View
  <2> QED BY <2>1, StepShown
<1> QED BY <1>1, <1>2, Inductive, Replayed, PTL DEF Spec, ImplementsLifecycle, Lifecycle!Spec
=============================================================================
