------------------------- MODULE BacktestRunnerProofs -------------------------
(***************************************************************************)
(* Theorems about BacktestRunner for every configuration, quantity, set of *)
(* candles, fee, limit and length of the data set, and about the ledger of *)
(* roundtrips of any tape of fills.                                        *)
(***************************************************************************)
EXTENDS BacktestRunner, SequenceTheorems, WellFoundedInduction, TLAPS

-----------------------------------------------------------------------------
(* Folds, by induction on the length of the sequence.                      *)

(* A set of naturals has a least element: induction, without an operator.  *)
Below == {p \in Nat \X Nat : p[1] < p[2]}

LEMMA LeastNat ==
  ASSUME NEW T, T \subseteq Nat, T # {}
  PROVE  \E n \in T : \A m \in T : n <= m
<1>1. IsWellFoundedOn(Below, Nat)
  BY NatLessThanWellFounded, Zenon DEF OpToRel, Below
<1>2. \E n \in T : \A m \in T : ~ (<<m, n>> \in Below)
  BY <1>1, WFMin, Zenon
<1>3. \A m, n \in Nat : ~ (<<m, n>> \in Below) => n <= m
  BY SMT DEF Below
<1> QED BY <1>2, <1>3, Zenon

(* The last index of a set of indices. *)
LEMMA MaxOf ==
  ASSUME NEW n \in Nat, NEW d \in SUBSET (1 .. n), d # {}
  PROVE  /\ Max(d) \in d /\ \A i \in d : i <= Max(d)
         /\ Max(d) \in 1 .. n
         /\ d \ {Max(d)} \in SUBSET (1 .. Max(d) - 1)
<1> DEFINE Bounds == {u \in Nat : \A i \in d : i <= u}
<1>1. n \in Bounds
  OBVIOUS
<1>2. PICK u \in Bounds : \A v \in Bounds : u <= v
  BY <1>1, LeastNat
<1>3. u \in d
  <2> SUFFICES ASSUME u \notin d PROVE FALSE
    OBVIOUS
  <2>1. \A i \in d : i \in Nat \ {0} /\ i <= u /\ i # u
    BY <1>2
  <2>2. PICK i \in d : TRUE
    OBVIOUS
  <2>3. u - 1 \in Nat
    BY <1>2, <2>1, <2>2
  <2>4. \A j \in d : j <= u - 1
    BY <2>1, <2>3
  <2>5. u - 1 \in Bounds /\ u \in Nat
    BY <1>2, <2>3, <2>4
  <2> HIDE DEF Bounds
  <2> QED BY <1>2, <2>3, <2>5
<1>4. \A i \in d : u >= i
  BY <1>2
<1> DEFINE top == Max(d)
<1>5. top \in d /\ \A i \in d : top >= i
  BY <1>3, <1>4, Zenon DEF Max
<1> HIDE DEF top
<1>6. /\ top \in 1 .. n
      /\ \A i \in d : i <= top
      /\ \A i \in d \ {top} : i \in 1 .. top - 1
  BY <1>5
<1> QED BY <1>5, <1>6, Zenon DEF top

(* Induction over sets of indices, from what comes before the last one. *)
Grows(G, n) ==
  /\ {} \in G
  /\ \A d \in SUBSET (1 .. n) : d # {} /\ d \ {Max(d)} \in G => d \in G

LEMMA IndexInduction ==
  ASSUME NEW n \in Nat, NEW G, Grows(G, n)
  PROVE  \A d \in SUBSET (1 .. n) : d \in G
<1> DEFINE Bad == {j \in 0 .. n : \E d \in SUBSET (1 .. j) : d \notin G}
<1> SUFFICES Bad = {}
  BY n \in 0 .. n
<1> SUFFICES ASSUME Bad # {} PROVE FALSE
  OBVIOUS
<1>1. PICK j \in Bad : \A i \in Bad : j <= i
  BY LeastNat, Bad \subseteq Nat
<1>2. PICK d \in SUBSET (1 .. j) : d \notin G
  BY <1>1
<1>3. d \in SUBSET (1 .. n) /\ d # {}
  <2>1. d # {}
    BY <1>2, Zenon DEF Grows
  <2>2. d \in SUBSET (1 .. n)
    BY <1>2, SMT
  <2> QED BY <2>1, <2>2
<1>4. Max(d) \in 1 .. j /\ d \ {Max(d)} \in SUBSET (1 .. Max(d) - 1)
  BY <1>3, MaxOf
<1>5. Max(d) - 1 \in 0 .. n /\ Max(d) - 1 \notin Bad
  <2>1. j \in 0 .. n
    BY <1>1
  <2>2. Max(d) - 1 \in 0 .. n /\ ~ (j <= Max(d) - 1)
    BY <1>4, <2>1
  <2> QED BY <1>1, <2>2, Zenon
<1>6. d \ {Max(d)} \in G
  BY <1>4, <1>5, Zenon
<1> QED BY <1>2, <1>3, <1>6, Zenon DEF Grows

(* The function a fold with F builds: what it makes of each set of indices.*)
Folded(h, F, base, w, n) ==
  h = [d \in SUBSET (1 .. n) |->
         IF d = {} THEN base ELSE F[<<h[d \ {Max(d)}], w[Max(d)]>>]]

Fits(S, E, F, base, w, n) ==
  /\ F \in [S \X E -> S] /\ base \in S /\ n \in Nat
  /\ \A i \in 1 .. n : w[i] \in E

LEMMA FoldExists ==
  ASSUME NEW S, NEW E, NEW F, NEW base, NEW w, NEW n, Fits(S, E, F, base, w, n)
  PROVE  \E h \in [SUBSET (1 .. n) -> S] : Folded(h, F, base, w, n)
<1> DEFINE Exists(m) == \E h \in [SUBSET (1 .. m) -> S] : Folded(h, F, base, w, m)
           Bad == {m \in 0 .. n : ~ Exists(m)}
<1>0. F \in [S \X E -> S] /\ base \in S /\ n \in Nat /\ \A i \in 1 .. n : w[i] \in E
  BY Zenon DEF Fits
<1>1. Exists(0)
  <2> DEFINE h == [d \in SUBSET (1 .. 0) |-> base]
  <2>1. \A d \in SUBSET (1 .. 0) : d = {}
    OBVIOUS
  <2>2. h \in [SUBSET (1 .. 0) -> S]
    BY <1>0
  <2>3. Folded(h, F, base, w, 0)
    BY <2>1, Zenon DEF Folded
  <2> HIDE DEF h
  <2> QED BY <2>2, <2>3, Zenon
<1>2. ASSUME NEW m \in 0 .. n, m + 1 \in 0 .. n, Exists(m) PROVE Exists(m + 1)
  <2>1. PICK h \in [SUBSET (1 .. m) -> S] : Folded(h, F, base, w, m)
    BY <1>2
  <2> DEFINE g == [d \in SUBSET (1 .. m + 1) |->
                     IF d = {} THEN base ELSE F[<<h[d \ {Max(d)}], w[Max(d)]>>]]
  <2>2. \A d \in SUBSET (1 .. m + 1) : d # {} =>
          Max(d) \in 1 .. n /\ d \ {Max(d)} \in SUBSET (1 .. m)
    BY <1>0, <1>2, MaxOf
  <2>3. \A d \in SUBSET (1 .. m + 1) : d # {} => F[<<h[d \ {Max(d)}], w[Max(d)]>>] \in S
    <3> TAKE d \in SUBSET (1 .. m + 1)
    <3> HAVE d # {}
    <3>1. h[d \ {Max(d)}] \in S /\ w[Max(d)] \in E
      BY <1>0, <2>1, <2>2, Zenon
    <3> QED BY <1>0, <3>1, Zenon
  <2>4. g \in [SUBSET (1 .. m + 1) -> S]
    BY <1>0, <2>3, Zenon
  <2>5. SUBSET (1 .. m) \subseteq SUBSET (1 .. m + 1)
    OBVIOUS
  <2>6. \A d \in SUBSET (1 .. m) : g[d] = h[d]
    BY <2>1, <2>5, Zenon DEF Folded
  <2>7. Folded(g, F, base, w, m + 1)
    <3>1. \A d \in SUBSET (1 .. m + 1) : d # {} => h[d \ {Max(d)}] = g[d \ {Max(d)}]
      BY <2>2, <2>6, Zenon
    <3>2. g = [d \in SUBSET (1 .. m + 1) |->
                 IF d = {} THEN base ELSE F[<<h[d \ {Max(d)}], w[Max(d)]>>]]
      OBVIOUS
    <3> HIDE DEF g
    <3> QED BY <3>1, <3>2, Zenon DEF Folded
  <2> HIDE DEF g
  <2> QED BY <2>4, <2>7, Zenon
<1> HIDE DEF Exists
<1>3. Bad = {}
  <2> SUFFICES ASSUME Bad # {} PROVE FALSE
    OBVIOUS
  <2>1. PICK m \in Bad : \A k \in Bad : m <= k
    BY <1>0, LeastNat, Bad \subseteq Nat
  <2>2. m # 0
    BY <1>1
  <2>3. m - 1 \in 0 .. n /\ m - 1 \notin Bad /\ (m - 1) + 1 = m
    BY <1>0, <2>1, <2>2, SMT
  <2> QED BY <1>2, <2>1, <2>3
<1>4. n \in 0 .. n
  BY <1>0
<1> QED BY <1>3, <1>4, Zenon DEF Exists

(* What a fold goes through: the accumulator after each prefix of w. *)
Traced(r, F, base, w, n) ==
  /\ r[0] = base
  /\ \A j \in 1 .. n : r[j] = F[<<r[j - 1], w[j]>>]

Comes(v, S, F, base, w, n) ==
  \E r \in [0 .. n -> S] : Traced(r, F, base, w, n) /\ r[n] = v

LEMMA LastOf ==
  ASSUME NEW j \in Nat \ {0}
  PROVE  /\ 1 .. j # {} /\ Max(1 .. j) = j
         /\ (1 .. j) \ {j} = 1 .. j - 1
<1> DEFINE d == 1 .. j
<1>1. /\ d # {} /\ j \in d /\ j - 1 \in Nat
      /\ \A i : i \in d \ {j} <=> i \in 1 .. j - 1
  OBVIOUS
<1>2. d \in SUBSET (1 .. j) /\ \A i \in d : i \in Nat /\ i <= j
  OBVIOUS
<1> HIDE DEF d
<1>3. Max(d) \in d /\ \A i \in d : i <= Max(d)
  BY <1>1, <1>2, MaxOf
<1>4. Max(d) = j
  BY <1>1, <1>2, <1>3
<1>5. d \ {j} = 1 .. j - 1
  BY <1>1, Zenon
<1> QED BY <1>1, <1>4, <1>5, Zenon DEF d

LEMMA FoldTraced ==
  ASSUME NEW S, NEW E, NEW F, NEW base, NEW w, NEW n, Fits(S, E, F, base, w, n),
         NEW h \in [SUBSET (1 .. n) -> S], Folded(h, F, base, w, n)
  PROVE  Comes(h[1 .. n], S, F, base, w, n)
<1> DEFINE r == [j \in 0 .. n |-> h[1 .. j]]
<1>0. n \in Nat
  BY Zenon DEF Fits
<1>1. \A j \in 0 .. n : 1 .. j \in SUBSET (1 .. n)
  BY <1>0
<1>2. r \in [0 .. n -> S]
  BY <1>1, Zenon
<1>3. 0 \in 0 .. n /\ n \in 0 .. n /\ 1 .. 0 = {}
  BY <1>0
<1>4. r[0] = base
  BY <1>1, <1>3, Zenon DEF Folded
<1>5. ASSUME NEW j \in 1 .. n
      PROVE  r[j] = F[<<r[j - 1], w[j]>>]
  <2>1. j \in Nat \ {0} /\ j \in 0 .. n /\ j - 1 \in 0 .. n
    BY <1>0
  <2>2. h[1 .. j] = F[<<h[(1 .. j) \ {Max(1 .. j)}], w[Max(1 .. j)]>>]
    <3>1. 1 .. j # {}
      BY <2>1, LastOf, Zenon
    <3> QED BY <1>1, <2>1, <3>1, Zenon DEF Folded
  <2>3. Max(1 .. j) = j /\ (1 .. j) \ {j} = 1 .. j - 1
    BY <2>1, LastOf, Zenon
  <2>4. h[1 .. j] = F[<<h[1 .. j - 1], w[j]>>]
    BY <2>2, <2>3, Zenon
  <2>5. r[j] = h[1 .. j] /\ r[j - 1] = h[1 .. j - 1]
    BY <2>1, Zenon
  <2> QED BY <2>4, <2>5, Zenon
<1>6. r[n] = h[1 .. n]
  BY <1>3, Zenon
<1> HIDE DEF r
<1> QED BY <1>2, <1>4, <1>5, <1>6, Zenon DEF Comes, Traced

(* Whatever makes the same steps, while it stays in S, comes to the same. *)
Follows(g, S, F, base, w, n) ==
  /\ g[{}] = base
  /\ \A d \in SUBSET (1 .. n) :
       d # {} /\ g[d \ {Max(d)}] \in S => g[d] = F[<<g[d \ {Max(d)}], w[Max(d)]>>]

LEMMA FoldFollowed ==
  ASSUME NEW S, NEW E, NEW F, NEW base, NEW w, NEW n, Fits(S, E, F, base, w, n),
         NEW g, Follows(g, S, F, base, w, n)
  PROVE  Comes(g[1 .. n], S, F, base, w, n)
<1>0. n \in Nat
  BY Zenon DEF Fits
<1>1. PICK h \in [SUBSET (1 .. n) -> S] : Folded(h, F, base, w, n)
  BY FoldExists, Zenon
<1> DEFINE G == {d \in SUBSET (1 .. n) : g[d] = h[d]}
<1>2. \A d \in SUBSET (1 .. n) :
        h[d] = IF d = {} THEN base ELSE F[<<h[d \ {Max(d)}], w[Max(d)]>>]
  BY <1>1, Zenon DEF Folded
<1>3. {} \in G
  BY <1>2, Zenon DEF Follows
<1>4. ASSUME NEW d \in SUBSET (1 .. n), d # {}, d \ {Max(d)} \in G
      PROVE  d \in G
  <2> DEFINE e == d \ {Max(d)}
  <2>1. g[e] = h[e] /\ e \in SUBSET (1 .. n)
    BY <1>4, Zenon
  <2>2. g[e] \in S
    BY <2>1, Zenon
  <2>3. g[d] = F[<<g[e], w[Max(d)]>>]
    BY <1>4, <2>2, Zenon DEF Follows
  <2>4. h[d] = F[<<h[e], w[Max(d)]>>]
    BY <1>2, <1>4, Zenon
  <2> QED BY <2>1, <2>3, <2>4, Zenon
<1>5. Grows(G, n)
  <2> HIDE DEF G
  <2> QED BY <1>3, <1>4, Zenon DEF Grows
<1>6. \A d \in SUBSET (1 .. n) : d \in G
  <2> HIDE DEF G
  <2> QED BY <1>0, <1>5, IndexInduction, Zenon
<1>7. g[1 .. n] = h[1 .. n]
  <2>1. 1 .. n \in SUBSET (1 .. n)
    OBVIOUS
  <2> QED BY <1>6, <2>1, Zenon
<1>8. Comes(h[1 .. n], S, F, base, w, n)
  BY <1>1, FoldTraced, Zenon
<1> QED BY <1>7, <1>8, Zenon

(* Induction along a trace. *)
Climbs(G, n) == 0 \in G /\ \A j \in 1 .. n : j - 1 \in G => j \in G

LEMMA TraceInduction ==
  ASSUME NEW n \in Nat, NEW G, Climbs(G, n)
  PROVE  \A j \in 0 .. n : j \in G
<1> DEFINE Bad == {j \in 0 .. n : j \notin G}
<1> SUFFICES ASSUME Bad # {} PROVE FALSE
  OBVIOUS
<1>1. PICK j \in Bad : \A i \in Bad : j <= i
  BY LeastNat, Bad \subseteq Nat
<1>2. j \in 1 .. n
  <2>1. j # 0
    BY <1>1, Zenon DEF Climbs
  <2>2. j \in 0 .. n
    BY <1>1
  <2> QED BY <2>1, <2>2
<1>3. j - 1 \in 0 .. n /\ ~ (j <= j - 1)
  BY <1>2
<1>4. j - 1 \in G
  BY <1>1, <1>3, Zenon
<1> QED BY <1>1, <1>2, <1>4, Zenon DEF Climbs

-----------------------------------------------------------------------------
(* Sums.                                                                   *)

Added == [p \in Int \X Int |-> p[1] + p[2]]

LEMMA AddedIs ==
  /\ Added \in [Int \X Int -> Int]
  /\ \A a, b \in Int : Added[<<a, b>>] = a + b
<1>1. \A p \in Int \X Int : p[1] + p[2] \in Int
  OBVIOUS
<1>2. Added \in [Int \X Int -> Int]
  BY <1>1, Zenon DEF Added
<1>3. ASSUME NEW a \in Int, NEW b \in Int PROVE Added[<<a, b>>] = a + b
  <2>1. <<a, b>> \in Int \X Int /\ <<a, b>>[1] = a /\ <<a, b>>[2] = b
    OBVIOUS
  <2> QED BY <2>1, Zenon DEF Added
<1> QED BY <1>2, <1>3

LEMMA TotalTraced ==
  ASSUME NEW w \in Seq(Int)
  PROVE  Comes(Total(w), Int, Added, 0, w, Len(w))
<1> DEFINE n == Len(w)
           g == CHOOSE iter : iter = [d \in SUBSET (1 .. n) |->
                  IF d = {} THEN 0 ELSE iter[d \ {Max(d)}] + w[Max(d)]]
<1>1. DOMAIN w = 1 .. n /\ n \in Nat /\ \A i \in 1 .. n : w[i] \in Int
  OBVIOUS
<1>2. Total(w) = g[1 .. n]
  <2>1. Total(w) = (CHOOSE iter :
          iter = [d \in SUBSET DOMAIN w |->
                    IF d = {} THEN 0 ELSE iter[d \ {Max(d)}] + w[Max(d)]])[DOMAIN w]
    BY Zenon DEF Total, FoldLeft, MapThenFoldSet
  <2> QED BY <1>1, <2>1, Zenon
<1> HIDE DEF n
<1>3. Fits(Int, Int, Added, 0, w, n)
  <2>1. 0 \in Int
    OBVIOUS
  <2> QED BY <1>1, <2>1, AddedIs, Zenon DEF Fits
<1>4. \A d \in SUBSET (1 .. n) : d # {} => w[Max(d)] \in Int
  BY <1>1, MaxOf
<1>5. PICK h \in [SUBSET (1 .. n) -> Int] : Folded(h, Added, 0, w, n)
  BY <1>3, FoldExists, Zenon
<1>6. \A d \in SUBSET (1 .. n) : d # {} =>
        Added[<<h[d \ {Max(d)}], w[Max(d)]>>] = h[d \ {Max(d)}] + w[Max(d)]
  <2> TAKE d \in SUBSET (1 .. n)
  <2> HAVE d # {}
  <2>1. d \ {Max(d)} \in SUBSET (1 .. n)
    OBVIOUS
  <2>2. h[d \ {Max(d)}] \in Int /\ w[Max(d)] \in Int
    BY <1>4, <1>5, <2>1, Zenon
  <2> QED BY <2>2, AddedIs, Zenon
<1>7. h = [d \in SUBSET (1 .. n) |-> IF d = {} THEN 0 ELSE h[d \ {Max(d)}] + w[Max(d)]]
  BY <1>5, <1>6, Zenon DEF Folded
<1>8. g = [d \in SUBSET (1 .. n) |-> IF d = {} THEN 0 ELSE g[d \ {Max(d)}] + w[Max(d)]]
  BY <1>7, Zenon
<1> HIDE DEF g
<1>9. g[{}] = 0 /\ \A d \in SUBSET (1 .. n) : d # {} => g[d] = g[d \ {Max(d)}] + w[Max(d)]
  <2>1. {} \in SUBSET (1 .. n)
    OBVIOUS
  <2> QED BY <1>8, <2>1, Zenon
<1>10. Follows(g, Int, Added, 0, w, n)
  <2>1. ASSUME NEW d \in SUBSET (1 .. n), d # {}, g[d \ {Max(d)}] \in Int
        PROVE  g[d] = Added[<<g[d \ {Max(d)}], w[Max(d)]>>]
    <3>1. w[Max(d)] \in Int /\ g[d] = g[d \ {Max(d)}] + w[Max(d)]
      BY <1>4, <1>9, <2>1, Zenon
    <3> QED BY <2>1, <3>1, AddedIs, Zenon
  <2> QED BY <1>9, <2>1, Zenon DEF Follows
<1>11. Comes(g[1 .. n], Int, Added, 0, w, n)
  BY <1>3, <1>10, FoldFollowed, Zenon
<1> QED BY <1>2, <1>11, Zenon DEF n

LEMMA TotalEmpty == Total(<<>>) = 0
<1>1. <<>> \in Seq(Int) /\ Len(<<>>) = 0 /\ 0 \in 0 .. 0
  OBVIOUS
<1>2. Comes(Total(<<>>), Int, Added, 0, <<>>, 0)
  BY <1>1, TotalTraced, Zenon
<1> QED BY <1>1, <1>2, Zenon DEF Comes, Traced

LEMMA TotalInt ==
  ASSUME NEW w \in Seq(Int)
  PROVE  Total(w) \in Int
<1>1. Len(w) \in 0 .. Len(w)
  OBVIOUS
<1>2. Comes(Total(w), Int, Added, 0, w, Len(w))
  BY TotalTraced, Zenon
<1> QED BY <1>1, <1>2, Zenon DEF Comes

LEMMA TotalAppend ==
  ASSUME NEW w \in Seq(Int), NEW x \in Int
  PROVE  Total(Append(w, x)) = Total(w) + x
<1> DEFINE v == Append(w, x)
           n == Len(w)
<1>1. /\ v \in Seq(Int) /\ Len(v) = n + 1 /\ v[n + 1] = x /\ n \in Nat
      /\ \A i \in 1 .. n : v[i] = w[i]
  OBVIOUS
<1>2. Comes(Total(v), Int, Added, 0, v, n + 1) /\ Comes(Total(w), Int, Added, 0, w, n)
  BY <1>1, TotalTraced, Zenon
<1> HIDE DEF v, n
<1>3. PICK r \in [0 .. n + 1 -> Int] : Traced(r, Added, 0, v, n + 1) /\ r[n + 1] = Total(v)
  BY <1>2, Zenon DEF Comes
<1>4. PICK q \in [0 .. n -> Int] : Traced(q, Added, 0, w, n) /\ q[n] = Total(w)
  BY <1>2, Zenon DEF Comes
<1> DEFINE G == {j \in 0 .. n : r[j] = q[j]}
<1>5. Climbs(G, n)
  <2>1. 0 \in G
    BY <1>1, <1>3, <1>4 DEF Traced
  <2>2. ASSUME NEW j \in 1 .. n, j - 1 \in G PROVE j \in G
    <3>1. j \in 1 .. n + 1 /\ j \in 0 .. n
      BY <1>1
    <3>2. r[j] = Added[<<r[j - 1], v[j]>>] /\ q[j] = Added[<<q[j - 1], w[j]>>]
      BY <1>3, <1>4, <3>1, Zenon DEF Traced
    <3> QED BY <1>1, <2>2, <3>1, <3>2, Zenon
  <2> HIDE DEF G
  <2> QED BY <2>1, <2>2, Zenon DEF Climbs
<1>6. n \in G
  <2> HIDE DEF G
  <2>1. n \in 0 .. n
    BY <1>1
  <2> QED BY <1>1, <1>5, <2>1, TraceInduction, Zenon
<1>7. r[n + 1] = Added[<<r[n], x>>]
  <2>1. n + 1 \in 1 .. n + 1 /\ (n + 1) - 1 = n
    BY <1>1
  <2> QED BY <1>1, <1>3, <2>1, Zenon DEF Traced
<1>8. r[n] = Total(w) /\ r[n] \in Int
  BY <1>1, <1>3, <1>4, <1>6
<1> QED BY <1>3, <1>7, <1>8, AddedIs, Zenon DEF v

(* The sum of what g gives for the elements of a sequence. *)
SumOf(g, s) == Total([i \in DOMAIN s |-> g[s[i]]])

LEMMA SumEmpty == ASSUME NEW g PROVE SumOf(g, <<>>) = 0
<1>1. [i \in DOMAIN <<>> |-> g[<<>>[i]]] = <<>>
  OBVIOUS
<1> QED BY <1>1, TotalEmpty, Zenon DEF SumOf

LEMMA MappedTyped ==
  ASSUME NEW E, NEW g \in [E -> Int], NEW s \in Seq(E)
  PROVE  /\ [i \in DOMAIN s |-> g[s[i]]] \in Seq(Int)
         /\ Len([i \in DOMAIN s |-> g[s[i]]]) = Len(s)
<1>1. DOMAIN s = 1 .. Len(s) /\ Len(s) \in Nat /\ \A i \in 1 .. Len(s) : s[i] \in E
  OBVIOUS
<1>2. \A i \in 1 .. Len(s) : g[s[i]] \in Int
  BY <1>1, Zenon
<1> DEFINE v == [i \in 1 .. Len(s) |-> g[s[i]]]
<1>3. v \in [1 .. Len(s) -> Int]
  BY <1>2, Zenon
<1> HIDE DEF v
<1>4. v \in Seq(Int) /\ Len(v) = Len(s)
  BY <1>1, <1>3
<1> QED BY <1>1, <1>4, Zenon DEF v

LEMMA SumInt ==
  ASSUME NEW E, NEW g \in [E -> Int], NEW s \in Seq(E)
  PROVE  SumOf(g, s) \in Int
BY MappedTyped, TotalInt, Zenon DEF SumOf

LEMMA SumAppend ==
  ASSUME NEW E, NEW g \in [E -> Int], NEW s \in Seq(E), NEW x \in E
  PROVE  SumOf(g, Append(s, x)) = SumOf(g, s) + g[x]
<1> DEFINE Mapped(q) == [i \in DOMAIN q |-> g[q[i]]]
           u == Append(s, x)
           y == g[x]
           v == Append(Mapped(s), y)
<1>1. /\ u \in Seq(E) /\ Len(u) = Len(s) + 1 /\ u[Len(s) + 1] = x
      /\ \A i \in 1 .. Len(s) : u[i] = s[i]
  BY AppendProperties
<1>2. y \in Int
  BY Zenon
<1>3. /\ Mapped(s) \in Seq(Int) /\ Len(Mapped(s)) = Len(s)
      /\ \A i \in 1 .. Len(s) : Mapped(s)[i] = g[s[i]]
  <2>1. DOMAIN s = 1 .. Len(s)
    OBVIOUS
  <2>2. \A i \in 1 .. Len(s) : Mapped(s)[i] = g[s[i]]
    BY <2>1, Zenon
  <2>3. Mapped(s) \in Seq(Int) /\ Len(Mapped(s)) = Len(s)
    BY MappedTyped, Zenon
  <2> QED BY <2>2, <2>3
<1> HIDE DEF u
<1>4. /\ Mapped(u) \in Seq(Int) /\ Len(Mapped(u)) = Len(u)
      /\ \A i \in 1 .. Len(u) : Mapped(u)[i] = g[u[i]]
  <2>1. DOMAIN u = 1 .. Len(u)
    BY <1>1
  <2>2. \A i \in 1 .. Len(u) : Mapped(u)[i] = g[u[i]]
    BY <2>1, Zenon
  <2>3. u \in Seq(E)
    BY <1>1
  <2>4. Mapped(u) \in Seq(Int) /\ Len(Mapped(u)) = Len(u)
    BY <2>3, MappedTyped
  <2> QED BY <2>2, <2>4
<1> DEFINE a == Mapped(s)
           b == Mapped(u)
           m == Len(s)
<1>5. m \in Nat
  OBVIOUS
<1> HIDE DEF a, b, y, Mapped, m
<1>6. v \in Seq(Int) /\ Len(v) = m + 1 /\ v[m + 1] = y /\ \A i \in 1 .. m : v[i] = a[i]
  BY <1>2, <1>3, AppendProperties DEF a, m
<1>7. b \in Seq(Int) /\ Len(b) = m + 1
  BY <1>1, <1>4, Zenon DEF b, m
<1>8. \A i \in 1 .. m + 1 : b[i] = v[i]
  <2> TAKE i \in 1 .. m + 1
  <2>1. b[i] = g[u[i]]
    BY <1>1, <1>4, Zenon DEF b, m
  <2>2. CASE i = m + 1
    BY <1>1, <1>6, <2>1, <2>2, Zenon DEF y, m
  <2>3. CASE i # m + 1
    <3>1. i \in 1 .. m
      BY <1>5, <2>3
    <3> QED BY <1>1, <1>3, <1>6, <2>1, <3>1, Zenon DEF a, m
  <2> QED BY <2>2, <2>3
<1>9. b = v
  <2> HIDE DEF v
  <2> QED BY <1>6, <1>7, <1>8, SeqEqual
<1>10. Total(v) = Total(a) + y
  BY <1>2, <1>3, TotalAppend, Zenon DEF a, v
<1> QED BY <1>9, <1>10, Zenon DEF SumOf, a, b, u, y, Mapped

(* The sum of g over the elements of s, as it grows. *)
Accrues(u, g, s, n) ==
  /\ u[0] = 0 /\ u[n] = SumOf(g, s)
  /\ \A j \in 1 .. n : u[j] = u[j - 1] + g[s[j]]

Accrued(g, s, n) == \E u \in [0 .. n -> Int] : Accrues(u, g, s, n)

LEMMA SumTraced ==
  ASSUME NEW E, NEW g \in [E -> Int], NEW s \in Seq(E)
  PROVE  Accrued(g, s, Len(s))
<1> DEFINE n == Len(s)
           v == [i \in DOMAIN s |-> g[s[i]]]
<1>1. n \in Nat /\ DOMAIN s = 1 .. n /\ \A i \in 1 .. n : s[i] \in E
  OBVIOUS
<1>2. v \in Seq(Int) /\ Len(v) = n
  BY MappedTyped, Zenon
<1>3. \A i \in 1 .. n : v[i] = g[s[i]] /\ v[i] \in Int
  BY <1>1, Zenon
<1> HIDE DEF v
<1>4. Comes(Total(v), Int, Added, 0, v, n)
  BY <1>2, TotalTraced, Zenon
<1> HIDE DEF n
<1>5. PICK u \in [0 .. n -> Int] : Traced(u, Added, 0, v, n) /\ u[n] = Total(v)
  BY <1>4, Zenon DEF Comes
<1>6. ASSUME NEW j \in 1 .. n PROVE u[j] = u[j - 1] + g[s[j]]
  <2>1. j - 1 \in 0 .. n
    BY <1>1
  <2>2. u[j] = Added[<<u[j - 1], v[j]>>]
    BY <1>5, Zenon DEF Traced
  <2>3. u[j - 1] \in Int
    BY <1>5, <2>1, Zenon
  <2>4. u[j] = u[j - 1] + v[j]
    BY <1>3, <2>2, <2>3, AddedIs, Zenon
  <2> QED BY <1>3, <2>4, Zenon
<1>7. u[0] = 0 /\ u[n] = SumOf(g, s)
  BY <1>5, Zenon DEF Traced, SumOf, v
<1> QED BY <1>6, <1>7, Zenon DEF Accrued, Accrues, n

-----------------------------------------------------------------------------
(* The ledger of roundtrips.                                              *)

Sides == {"BUY", "SELL"}
Components == {"charges", "slippage"}
Parts == [Components -> Int]
Fills == [side : Sides, qty : Nat \ {0}, price : Int, costs : Parts,
          delay : Int, overnight : BOOLEAN]

Held == [qty : Nat \ {0}, price : Int, costs : Parts]
Closings == [gross : Int, costs : Parts]
Accs == [left : Nat, rest : Parts, kept : Seq(Held), closed : Seq(Closings)]
Ledgers == [long : Seq(Held), short : Seq(Held), closed : Seq(Closings)]

UnitsOf == [l \in Held |-> l.qty]
WorthOf == [l \in Held |-> l.qty * l.price]
CostIn(c) == [l \in Held |-> l.costs[c]]
PaidIn(c) == [x \in Closings |-> x.costs[c]]
GrossOf == [x \in Closings |-> x.gross]

LEMMA ShareTyped ==
  ASSUME NEW a \in Parts, NEW n \in Nat, NEW q \in Nat \ {0}
  PROVE  Share(a, n, q) \in Parts
<1>1. DOMAIN a = Components /\ \A c \in Components : a[c] \in Int
  BY Zenon DEF Parts
<1>3. \A c \in Components : RoundHalfEven(a[c] * n, q) \in Int
  <2> TAKE c \in Components
  <2>1. a[c] * n \in Int
    BY <1>1
  <2> DEFINE x == a[c] * n
  <2> HIDE DEF x
  <2>2. RoundHalfEven(x, q) \in Int
    BY <2>1, SMT DEF RoundHalfEven, x
  <2> QED BY <2>2, Zenon DEF x
<1> QED BY <1>1, <1>3, Zenon DEF Share, Parts

LEMMA PartsTyped ==
  ASSUME NEW a \in Parts, NEW b \in Parts
  PROVE  /\ Less(a, b) \in Parts /\ Plus(a, b) \in Parts
         /\ \A c \in Components : /\ a[c] \in Int /\ b[c] \in Int
                                  /\ Less(a, b)[c] = a[c] - b[c]
                                  /\ Plus(a, b)[c] = a[c] + b[c]
<1>1. DOMAIN a = Components /\ \A c \in Components : a[c] \in Int /\ b[c] \in Int
  BY Zenon DEF Parts
<1>2. \A c \in Components : a[c] - b[c] \in Int /\ a[c] + b[c] \in Int
  BY <1>1
<1>5. Less(a, b) \in Parts /\ Plus(a, b) \in Parts
  BY <1>1, <1>2, Zenon DEF Less, Plus, Parts
<1>6. \A c \in Components : Less(a, b)[c] = a[c] - b[c] /\ Plus(a, b)[c] = a[c] + b[c]
  BY <1>1, Zenon DEF Less, Plus
<1> QED BY <1>1, <1>5, <1>6

LEMMA PartsAt ==
  ASSUME NEW a \in Parts, NEW b \in Parts, NEW c \in Components
  PROVE  /\ a[c] \in Int /\ b[c] \in Int
         /\ Less(a, b)[c] = a[c] - b[c] /\ Plus(a, b)[c] = a[c] + b[c]
BY PartsTyped, Zenon

LEMMA LotIs ==
  ASSUME NEW l \in Held
  PROVE  l.qty \in Nat \ {0} /\ l.price \in Int /\ l.costs \in Parts
BY DEF Held

LEMMA Measures ==
  /\ UnitsOf \in [Held -> Int] /\ WorthOf \in [Held -> Int] /\ GrossOf \in [Closings -> Int]
  /\ \A c \in Components : CostIn(c) \in [Held -> Int] /\ PaidIn(c) \in [Closings -> Int]
<1>1. \A l \in Held : l.qty \in Int /\ l.qty * l.price \in Int
  BY LotIs
<1>2. \A l \in Held, c \in Components : l.costs[c] \in Int
  BY LotIs, Zenon DEF Parts
<1>3. \A x \in Closings : x.gross \in Int /\ x.costs \in Parts
  BY DEF Closings
<1>4. \A x \in Closings, c \in Components : x.costs[c] \in Int
  BY <1>3, Zenon DEF Parts
<1> QED BY <1>1, <1>2, <1>3, <1>4, Zenon DEF UnitsOf, WorthOf, GrossOf, CostIn, PaidIn

LEMMA Distribute ==
  ASSUME NEW a \in Int, NEW b \in Int, NEW c \in Int
  PROVE  (a - b) * c = a * c - b * c
OBVIOUS

LEMMA Commute ==
  ASSUME NEW a \in Int, NEW b \in Int
  PROVE  a * b = b * a /\ a * b \in Int
OBVIOUS

(* Match took n units of the lot: the shares of the costs, what is left of *)
(* the lot and the roundtrip it closed.                                    *)
Taken(t, m, lot, n, a, ofT, ofLot, cut, rt) ==
  /\ a \in Accs
  /\ n \in Nat \ {0} /\ n <= m.left /\ n <= lot.qty /\ n \in {m.left, lot.qty}
  /\ n = m.left => ofT = m.rest
  /\ n = lot.qty => ofLot = lot.costs
  /\ a.left = m.left - n
  /\ a.rest = Less(m.rest, ofT)
  /\ a.closed = Append(m.closed, rt)
  /\ rt.costs = Plus(ofT, ofLot)
  /\ rt.gross = (IF t.side = "BUY" THEN lot.price - t.price ELSE t.price - lot.price) * n
  /\ n = lot.qty => a.kept = m.kept
  /\ n # lot.qty => /\ a.kept = Append(m.kept, cut)
                    /\ cut.qty = lot.qty - n /\ cut.price = lot.price
                    /\ cut.costs = Less(lot.costs, ofLot)

LEMMA MatchNone ==
  ASSUME NEW t \in Fills, NEW m \in Accs, NEW lot \in Held, m.left = 0
  PROVE  /\ Match(t, m, lot) \in Accs
         /\ Match(t, m, lot).left = 0 /\ Match(t, m, lot).rest = m.rest
         /\ Match(t, m, lot).kept = Append(m.kept, lot) /\ Match(t, m, lot).closed = m.closed
<1>1. Lesser(m.left, lot.qty) = 0
  BY LotIs DEF Lesser
<1>2. Match(t, m, lot) = [m EXCEPT !.kept = Append(m.kept, lot)]
  BY <1>1, Zenon DEF Match
<1>3. Append(m.kept, lot) \in Seq(Held)
  BY AppendProperties DEF Accs
<1> DEFINE k == Append(m.kept, lot)
<1> HIDE DEF k
<1>4. [m EXCEPT !.kept = k] \in Accs /\ [m EXCEPT !.kept = k].left = m.left
      /\ [m EXCEPT !.kept = k].rest = m.rest /\ [m EXCEPT !.kept = k].kept = k
      /\ [m EXCEPT !.kept = k].closed = m.closed
  BY <1>3 DEF Accs, k
<1> QED BY <1>2, <1>4, Zenon DEF k

LEMMA MatchSome ==
  ASSUME NEW t \in Fills, NEW m \in Accs, NEW lot \in Held, m.left # 0
  PROVE  \E ofT, ofLot \in Parts, cut \in Held, rt \in Closings :
           Taken(t, m, lot, Lesser(m.left, lot.qty), Match(t, m, lot), ofT, ofLot, cut, rt)
<1> DEFINE n == Lesser(m.left, lot.qty)
           ofT == IF n = m.left THEN m.rest ELSE Share(t.costs, n, t.qty)
           ofLot == IF n = lot.qty THEN lot.costs ELSE Share(lot.costs, n, lot.qty)
           gross == (IF t.side = "BUY" THEN lot.price - t.price ELSE t.price - lot.price) * n
           cut == [lot EXCEPT !.qty = @ - n, !.costs = Less(@, ofLot)]
           rt == [gross |-> gross, costs |-> Plus(ofT, ofLot)]
           kept == IF n = lot.qty THEN m.kept ELSE Append(m.kept, cut)
           a == [left |-> m.left - n, rest |-> Less(m.rest, ofT), kept |-> kept,
                 closed |-> Append(m.closed, rt)]
<1>1. /\ m.left \in Nat \ {0} /\ m.rest \in Parts /\ m.kept \in Seq(Held)
      /\ m.closed \in Seq(Closings)
  BY DEF Accs
<1>2. t.qty \in Nat \ {0} /\ t.price \in Int /\ t.costs \in Parts
  BY DEF Fills
<1>3. /\ n \in Nat \ {0} /\ n <= m.left /\ n <= lot.qty
      /\ n \in {m.left, lot.qty}
  BY <1>1, LotIs DEF Lesser
<1>4. Match(t, m, lot) = a
  BY <1>3, Zenon DEF Match
<1> HIDE DEF n
<1>5. ofT \in Parts /\ ofLot \in Parts
  <2>1. n # m.left => Share(t.costs, n, t.qty) \in Parts
    BY <1>2, <1>3, ShareTyped
  <2>2. n # lot.qty => Share(lot.costs, n, lot.qty) \in Parts
    BY <1>3, LotIs, ShareTyped
  <2> QED BY <1>1, <2>1, <2>2, LotIs, Zenon
<1>6. n = m.left => ofT = m.rest
  OBVIOUS
<1>7. n = lot.qty => ofLot = lot.costs
  OBVIOUS
<1> HIDE DEF ofT, ofLot
<1>8. gross \in Int
  <2>1. lot.price - t.price \in Int /\ t.price - lot.price \in Int
    BY <1>2, LotIs
  <2> QED BY <1>3, <2>1, Commute
<1>9. Plus(ofT, ofLot) \in Parts /\ Less(m.rest, ofT) \in Parts /\ Less(lot.costs, ofLot) \in Parts
  BY <1>1, <1>5, LotIs, PartsTyped
<1>10. rt \in Closings /\ rt.gross = gross /\ rt.costs = Plus(ofT, ofLot)
  <2> HIDE DEF gross
  <2> QED BY <1>8, <1>9 DEF Closings
<1>11. n # lot.qty => /\ cut \in Held
                      /\ cut.qty = lot.qty - n /\ cut.price = lot.price
                      /\ cut.costs = Less(lot.costs, ofLot)
  <2> SUFFICES ASSUME n # lot.qty
               PROVE  /\ cut \in Held
                      /\ cut.qty = lot.qty - n /\ cut.price = lot.price
                      /\ cut.costs = Less(lot.costs, ofLot)
    OBVIOUS
  <2> DEFINE b == [lot EXCEPT !.qty = lot.qty - n]
             l == Less(lot.costs, ofLot)
  <2>1. lot.qty - n \in Nat \ {0}
    BY <1>3, LotIs
  <2>2. b \in Held /\ b.qty = lot.qty - n /\ b.price = lot.price /\ b.costs = lot.costs
    BY <2>1 DEF Held
  <2>3. cut = [b EXCEPT !.costs = Less(b.costs, ofLot)]
    BY Zenon
  <2>4. cut = [b EXCEPT !.costs = l]
    BY <2>2, <2>3, Zenon
  <2>5. l \in Parts
    BY <1>9
  <2> HIDE DEF b, l, cut
  <2>6. cut \in Held /\ cut.qty = b.qty /\ cut.price = b.price /\ cut.costs = l
    BY <2>2, <2>4, <2>5 DEF Held
  <2> QED BY <2>2, <2>6, Zenon DEF l
<1>12. \E x \in Held : n # lot.qty => x = cut
  BY <1>11, Zenon
<1> HIDE DEF rt, cut, gross
<1>13. kept \in Seq(Held)
  BY <1>1, <1>11, AppendProperties
<1>14. Append(m.closed, rt) \in Seq(Closings)
  BY <1>1, <1>10, AppendProperties
<1>15. m.left - n \in Nat
  BY <1>1, <1>3
<1>16. n = lot.qty => kept = m.kept
  OBVIOUS
<1>17. n # lot.qty => kept = Append(m.kept, cut)
  OBVIOUS
<1> DEFINE left == m.left - n
           rest == Less(m.rest, ofT)
           closed == Append(m.closed, rt)
<1> HIDE DEF kept, left, rest, closed
<1>18. a \in Accs /\ a.left = left /\ a.rest = rest /\ a.closed = closed /\ a.kept = kept
  <2>1. a = [left |-> left, rest |-> rest, kept |-> kept, closed |-> closed]
    BY Zenon DEF left, rest, closed
  <2> QED BY <1>9, <1>13, <1>14, <1>15, <2>1 DEF Accs, left, rest, closed
<1> HIDE DEF a
<1>19. PICK x \in Held : n # lot.qty => x = cut
  BY <1>12, Zenon
<1>20. n # lot.qty => /\ a.kept = Append(m.kept, x)
                      /\ x.qty = lot.qty - n /\ x.price = lot.price
                      /\ x.costs = Less(lot.costs, ofLot)
  BY <1>11, <1>17, <1>18, <1>19, Zenon
<1>21. n = lot.qty => a.kept = m.kept
  BY <1>16, <1>18, Zenon
<1>22. Taken(t, m, lot, n, a, ofT, ofLot, x, rt)
  BY <1>3, <1>6, <1>7, <1>10, <1>18, <1>20, <1>21, Zenon DEF Taken, left, rest, closed, gross
<1>23. rt \in Closings
  BY <1>10
<1> QED BY <1>4, <1>5, <1>22, <1>23, Zenon DEF n

LEMMA Measured ==
  /\ \A l \in Held : /\ UnitsOf[l] = l.qty /\ WorthOf[l] = l.qty * l.price
                     /\ \A c \in Components : CostIn(c)[l] = l.costs[c]
  /\ \A x \in Closings : /\ GrossOf[x] = x.gross
                         /\ \A c \in Components : PaidIn(c)[x] = x.costs[c]
BY Zenon DEF UnitsOf, WorthOf, CostIn, GrossOf, PaidIn

(* The sums of lots and of roundtrips, and those of one more.              *)
LEMMA LotSums ==
  ASSUME NEW s \in Seq(Held), NEW c \in Components
  PROVE  /\ SumOf(UnitsOf, s) \in Int /\ SumOf(WorthOf, s) \in Int /\ SumOf(CostIn(c), s) \in Int
         /\ \A l \in Held :
              /\ SumOf(UnitsOf, Append(s, l)) = SumOf(UnitsOf, s) + l.qty
              /\ SumOf(WorthOf, Append(s, l)) = SumOf(WorthOf, s) + l.qty * l.price
              /\ SumOf(CostIn(c), Append(s, l)) = SumOf(CostIn(c), s) + l.costs[c]
<1>1. UnitsOf \in [Held -> Int] /\ WorthOf \in [Held -> Int] /\ CostIn(c) \in [Held -> Int]
  BY Measures, Zenon
<1>2. SumOf(UnitsOf, s) \in Int /\ SumOf(WorthOf, s) \in Int /\ SumOf(CostIn(c), s) \in Int
  BY <1>1, SumInt, Zenon
<1>3. ASSUME NEW l \in Held
      PROVE  /\ SumOf(UnitsOf, Append(s, l)) = SumOf(UnitsOf, s) + UnitsOf[l]
             /\ SumOf(WorthOf, Append(s, l)) = SumOf(WorthOf, s) + WorthOf[l]
             /\ SumOf(CostIn(c), Append(s, l)) = SumOf(CostIn(c), s) + CostIn(c)[l]
  BY <1>1, SumAppend, Zenon
<1> QED BY <1>2, <1>3, Measured, Zenon

LEMMA ClosingSums ==
  ASSUME NEW s \in Seq(Closings), NEW c \in Components
  PROVE  /\ SumOf(GrossOf, s) \in Int /\ SumOf(PaidIn(c), s) \in Int
         /\ \A x \in Closings :
              /\ SumOf(GrossOf, Append(s, x)) = SumOf(GrossOf, s) + x.gross
              /\ SumOf(PaidIn(c), Append(s, x)) = SumOf(PaidIn(c), s) + x.costs[c]
<1>1. GrossOf \in [Closings -> Int] /\ PaidIn(c) \in [Closings -> Int]
  BY Measures, Zenon
<1>2. SumOf(GrossOf, s) \in Int /\ SumOf(PaidIn(c), s) \in Int
  BY <1>1, SumInt, Zenon
<1>3. ASSUME NEW x \in Closings
      PROVE  /\ SumOf(GrossOf, Append(s, x)) = SumOf(GrossOf, s) + GrossOf[x]
             /\ SumOf(PaidIn(c), Append(s, x)) = SumOf(PaidIn(c), s) + PaidIn(c)[x]
  BY <1>1, SumAppend, Zenon
<1> QED BY <1>2, <1>3, Measured

(* What a match keeps account of: the units still to be closed, where the  *)
(* costs are, and what the fill made at its price.                         *)
Owed(m) == SumOf(UnitsOf, m.kept) - m.left
CostsAt(m, c) == m.rest[c] + SumOf(CostIn(c), m.kept) + SumOf(PaidIn(c), m.closed)
Open(t, m) == SumOf(WorthOf, m.kept) - m.left * t.price
Made(t, m) ==
  IF t.side = "BUY" THEN SumOf(GrossOf, m.closed) + Open(t, m)
  ELSE SumOf(GrossOf, m.closed) - Open(t, m)
Spent(m) ==
  /\ m.left # 0 => m.kept = <<>>
  /\ m.left = 0 => \A c \in Components : m.rest[c] = 0

LEMMA MatchStep ==
  ASSUME NEW t \in Fills, NEW m \in Accs, NEW lot \in Held, NEW c \in Components
  PROVE  /\ Match(t, m, lot) \in Accs
         /\ Owed(Match(t, m, lot)) = Owed(m) + lot.qty
         /\ CostsAt(Match(t, m, lot), c) = CostsAt(m, c) + lot.costs[c]
         /\ Made(t, Match(t, m, lot)) = IF t.side = "BUY" THEN Made(t, m) + lot.qty * lot.price
                                        ELSE Made(t, m) - lot.qty * lot.price
         /\ Spent(m) => Spent(Match(t, m, lot))
<1> DEFINE a == Match(t, m, lot)
           n == Lesser(m.left, lot.qty)
           units == SumOf(UnitsOf, m.kept)
           worth == SumOf(WorthOf, m.kept)
           cost == SumOf(CostIn(c), m.kept)
           gross == SumOf(GrossOf, m.closed)
           paid == SumOf(PaidIn(c), m.closed)
           rest == m.rest[c]
           mine == lot.costs[c]
           size == lot.qty
           left == m.left
<1>1. /\ m.left \in Nat /\ m.rest \in Parts /\ m.kept \in Seq(Held) /\ m.closed \in Seq(Closings)
      /\ t.qty \in Nat \ {0} /\ t.price \in Int /\ t.costs \in Parts
      /\ lot.qty \in Nat \ {0} /\ lot.price \in Int /\ lot.costs \in Parts
  BY LotIs DEF Accs, Fills
<1>2. /\ units \in Int /\ worth \in Int /\ cost \in Int /\ gross \in Int /\ paid \in Int
      /\ m.rest[c] \in Int /\ lot.costs[c] \in Int
      /\ m.left \in Int /\ t.price \in Int /\ lot.qty \in Int /\ lot.price \in Int
  <2>1. units \in Int /\ worth \in Int /\ cost \in Int
    BY <1>1, LotSums, Zenon
  <2>2. gross \in Int /\ paid \in Int
    BY <1>1, ClosingSums, Zenon
  <2>3. m.rest[c] \in Int /\ lot.costs[c] \in Int
    BY <1>1, Zenon DEF Parts
  <2> QED BY <1>1, <2>1, <2>2, <2>3
<1>3. /\ Owed(m) = units - m.left
      /\ CostsAt(m, c) = m.rest[c] + cost + paid
      /\ Open(t, m) = worth - m.left * t.price
      /\ Made(t, m) = IF t.side = "BUY" THEN gross + Open(t, m) ELSE gross - Open(t, m)
  BY Zenon DEF Owed, CostsAt, Open, Made
<1>4. CASE m.left = 0
  <2>1. /\ a \in Accs /\ a.left = 0 /\ a.rest = m.rest
        /\ a.kept = Append(m.kept, lot) /\ a.closed = m.closed
    BY <1>4, MatchNone, Zenon
  <2> HIDE DEF a
  <2>2. /\ SumOf(UnitsOf, a.kept) = units + lot.qty
        /\ SumOf(WorthOf, a.kept) = worth + lot.qty * lot.price
        /\ SumOf(CostIn(c), a.kept) = cost + lot.costs[c]
        /\ SumOf(GrossOf, a.closed) = gross /\ SumOf(PaidIn(c), a.closed) = paid
    <3>1. m.kept \in Seq(Held) /\ lot \in Held
      BY <1>1
    <3>2. /\ SumOf(UnitsOf, Append(m.kept, lot)) = units + lot.qty
          /\ SumOf(WorthOf, Append(m.kept, lot)) = worth + lot.qty * lot.price
          /\ SumOf(CostIn(c), Append(m.kept, lot)) = cost + lot.costs[c]
      BY <3>1, LotSums
    <3> QED BY <2>1, <3>2, Zenon
  <2>3. /\ Owed(a) = (units + lot.qty) - 0
        /\ CostsAt(a, c) = m.rest[c] + (cost + lot.costs[c]) + paid
        /\ Open(t, a) = (worth + lot.qty * lot.price) - 0 * t.price
        /\ Made(t, a) = IF t.side = "BUY" THEN gross + Open(t, a) ELSE gross - Open(t, a)
    <3>1. Owed(a) = (units + lot.qty) - 0
      BY <2>1, <2>2, Zenon DEF Owed
    <3>2. CostsAt(a, c) = m.rest[c] + (cost + lot.costs[c]) + paid
      BY <2>1, <2>2, Zenon DEF CostsAt
    <3>3. Open(t, a) = (worth + lot.qty * lot.price) - 0 * t.price
      BY <2>1, <2>2, Zenon DEF Open
    <3>4. Made(t, a) = IF t.side = "BUY" THEN gross + Open(t, a) ELSE gross - Open(t, a)
      BY <2>2, Zenon DEF Made
    <3> QED BY <3>1, <3>2, <3>3, <3>4, Zenon
  <2>4. Spent(m) => Spent(a)
    BY <1>4, <2>1, Zenon DEF Spent
  <2> DEFINE w == lot.qty * lot.price
  <2>5. w \in Int /\ 0 * t.price = 0
    BY <1>1
  <2> HIDE DEF w, units, worth, cost, gross, paid, rest, mine, size, left
  <2>6. Owed(a) = Owed(m) + size /\ CostsAt(a, c) = CostsAt(m, c) + mine
    BY <1>2, <1>3, <1>4, <2>3 DEF size, left, rest, mine
  <2>7. Open(t, a) = worth + w /\ Open(t, m) = worth
    BY <1>2, <1>3, <1>4, <2>3, <2>5 DEF w
  <2>8. Made(t, a) = IF t.side = "BUY" THEN Made(t, m) + w ELSE Made(t, m) - w
    BY <1>2, <1>3, <2>3, <2>5, <2>7
  <2> QED BY <2>1, <2>4, <2>6, <2>8, Zenon DEF a, w, size, mine
<1>5. CASE m.left # 0
  <2> PICK ofT \in Parts, ofLot \in Parts, cut \in Held, rt \in Closings :
             Taken(t, m, lot, n, a, ofT, ofLot, cut, rt)
    BY <1>5, MatchSome, Zenon
  <2> DEFINE u == IF t.side = "BUY" THEN lot.price - t.price ELSE t.price - lot.price
  <2>1. /\ a \in Accs
        /\ n \in Nat \ {0} /\ n <= m.left /\ n <= lot.qty /\ n \in {m.left, lot.qty}
        /\ n = m.left => ofT = m.rest
        /\ n = lot.qty => ofLot = lot.costs
        /\ a.left = m.left - n
        /\ a.rest = Less(m.rest, ofT)
        /\ a.closed = Append(m.closed, rt)
        /\ rt.costs = Plus(ofT, ofLot)
        /\ rt.gross = u * n
        /\ n = lot.qty => a.kept = m.kept
        /\ n # lot.qty => /\ a.kept = Append(m.kept, cut)
                          /\ cut.qty = lot.qty - n /\ cut.price = lot.price
                          /\ cut.costs = Less(lot.costs, ofLot)
    BY Zenon DEF Taken
  <2> HIDE DEF a, n
  <2>2. /\ ofT[c] \in Int /\ ofLot[c] \in Int
        /\ Less(m.rest, ofT)[c] = m.rest[c] - ofT[c]
        /\ Plus(ofT, ofLot)[c] = ofT[c] + ofLot[c]
        /\ Less(lot.costs, ofLot)[c] = lot.costs[c] - ofLot[c]
    <3>1. m.rest \in Parts /\ lot.costs \in Parts
      BY <1>1
    <3>2. Less(m.rest, ofT)[c] = m.rest[c] - ofT[c]
      BY <3>1, PartsAt, Zenon
    <3>3. /\ ofT[c] \in Int /\ ofLot[c] \in Int
          /\ Plus(ofT, ofLot)[c] = ofT[c] + ofLot[c]
      BY PartsAt, Zenon
    <3>4. Less(lot.costs, ofLot)[c] = lot.costs[c] - ofLot[c]
      BY <3>1, PartsAt, Zenon
    <3> QED BY <3>2, <3>3, <3>4
  <2> DEFINE ours == ofT[c]
             theirs == ofLot[c]
             lp == n * lot.price
             tp == n * t.price
             all == lot.qty * lot.price
             due == m.left * t.price
  <2>3. /\ lp \in Int /\ tp \in Int /\ all \in Int /\ due \in Int
        /\ (lot.qty - n) * lot.price = all - lp
        /\ (m.left - n) * t.price = due - tp
        /\ (lot.price - t.price) * n = lp - tp
        /\ (t.price - lot.price) * n = tp - lp
    <3>1. n \in Int /\ m.left \in Int /\ lot.qty \in Int /\ lot.price \in Int /\ t.price \in Int
      BY <1>1, <2>1
    <3>2. /\ lp \in Int /\ tp \in Int /\ all \in Int /\ due \in Int
          /\ lot.price * n = lp /\ t.price * n = tp
      BY <3>1, Commute, Zenon
    <3>3. /\ (lot.qty - n) * lot.price = lot.qty * lot.price - n * lot.price
          /\ (m.left - n) * t.price = m.left * t.price - n * t.price
          /\ (lot.price - t.price) * n = lot.price * n - t.price * n
          /\ (t.price - lot.price) * n = t.price * n - lot.price * n
      <4>1. (lot.qty - n) * lot.price = lot.qty * lot.price - n * lot.price
        BY <3>1, Distribute
      <4>2. (m.left - n) * t.price = m.left * t.price - n * t.price
        BY <3>1, Distribute
      <4>3. (lot.price - t.price) * n = lot.price * n - t.price * n
        BY <3>1, Distribute
      <4>4. (t.price - lot.price) * n = t.price * n - lot.price * n
        BY <3>1, Distribute
      <4> QED BY <4>1, <4>2, <4>3, <4>4
    <3> QED BY <3>2, <3>3, Zenon
  <2>4. rt.gross = IF t.side = "BUY" THEN lp - tp ELSE tp - lp
    BY <2>1, <2>3, Zenon
  <2>5. /\ SumOf(GrossOf, a.closed) = gross + rt.gross
        /\ SumOf(PaidIn(c), a.closed) = paid + (ours + theirs)
    <3>1. /\ SumOf(GrossOf, a.closed) = gross + rt.gross
          /\ SumOf(PaidIn(c), a.closed) = paid + rt.costs[c]
      BY <1>1, <2>1, ClosingSums, Zenon
    <3> QED BY <2>1, <2>2, <3>1, Zenon
  <2>6. Spent(m) => Spent(a)
    <3> SUFFICES ASSUME Spent(m) PROVE Spent(a)
      OBVIOUS
    <3>1. a.left # 0 => a.kept = <<>>
      <4>1. a.left # 0 => n = lot.qty
        BY <1>1, <2>1
      <4> QED BY <1>5, <2>1, <4>1, Zenon DEF Spent
    <3>2. ASSUME a.left = 0, NEW d \in Components PROVE a.rest[d] = 0
      <4>1. n = m.left
        BY <1>1, <2>1, <3>2
      <4>2. a.rest = Less(m.rest, m.rest)
        BY <2>1, <4>1, Zenon
      <4>3. a.rest[d] = m.rest[d] - m.rest[d] /\ m.rest[d] \in Int
        <5>1. m.rest \in Parts
          BY <1>1
        <5>2. Less(m.rest, m.rest)[d] = m.rest[d] - m.rest[d] /\ m.rest[d] \in Int
          BY <3>2, <5>1, PartsAt, Zenon
        <5> QED BY <4>2, <5>2, Zenon
      <4> QED BY <4>3
    <3> QED BY <3>1, <3>2, Zenon DEF Spent
  <2>7. CASE n = lot.qty
    <3>1. /\ Owed(a) = units - (m.left - n)
          /\ CostsAt(a, c) = (m.rest[c] - ours) + cost + (paid + (ours + theirs))
          /\ Open(t, a) = worth - (due - tp)
          /\ Made(t, a) = IF t.side = "BUY" THEN (gross + rt.gross) + Open(t, a)
                          ELSE (gross + rt.gross) - Open(t, a)
      BY <2>1, <2>2, <2>3, <2>5, <2>7, Zenon DEF Owed, CostsAt, Open, Made
    <3>2. theirs = lot.costs[c] /\ all = lp
      BY <2>1, <2>7, Zenon
    <3> DEFINE made == rt.gross
    <3> HIDE DEF ours, theirs, lp, tp, all, due, units, worth, cost, gross, paid, u, rest, mine,
                 made
    <3>3. Owed(a) = Owed(m) + lot.qty
      BY <1>1, <1>2, <1>3, <2>7, <3>1
    <3>4. CostsAt(a, c) = CostsAt(m, c) + mine
      <4>1. ours \in Int /\ rest \in Int /\ mine \in Int
        BY <1>2, <2>2, Zenon DEF ours, rest, mine
      <4>2. /\ CostsAt(a, c) = (rest - ours) + cost + (paid + (ours + mine))
            /\ CostsAt(m, c) = rest + cost + paid
        BY <1>3, <3>1, <3>2, Zenon DEF rest, mine
      <4> QED BY <1>2, <4>1, <4>2
    <3>5. Made(t, a) = IF t.side = "BUY" THEN Made(t, m) + all ELSE Made(t, m) - all
      <4>1. Open(t, m) = worth - due
        BY <1>3, Zenon DEF due
      <4>2. made = (IF t.side = "BUY" THEN lp - tp ELSE tp - lp)
        BY <2>4, Zenon DEF made
      <4>3. /\ Made(t, a) = IF t.side = "BUY" THEN (gross + made) + Open(t, a)
                            ELSE (gross + made) - Open(t, a)
            /\ Made(t, m) = IF t.side = "BUY" THEN gross + Open(t, m) ELSE gross - Open(t, m)
        BY <1>3, <3>1, Zenon DEF made
      <4>4. lp \in Int /\ tp \in Int /\ all \in Int /\ due \in Int
        BY <2>3
      <4>5. CASE t.side = "BUY"
        BY <1>2, <3>1, <3>2, <4>1, <4>2, <4>3, <4>4, <4>5
      <4>6. CASE t.side # "BUY"
        BY <1>2, <3>1, <3>2, <4>1, <4>2, <4>3, <4>4, <4>6
      <4> QED BY <4>5, <4>6
    <3> QED BY <2>1, <2>6, <3>3, <3>4, <3>5, Zenon DEF a, all, mine
  <2>8. CASE n # lot.qty
    <3>1. /\ cut.qty = lot.qty - n
          /\ cut.qty * cut.price = all - lp
          /\ cut.costs[c] = lot.costs[c] - theirs
      BY <2>1, <2>2, <2>3, <2>8, Zenon
    <3>2. /\ SumOf(UnitsOf, a.kept) = units + (lot.qty - n)
          /\ SumOf(WorthOf, a.kept) = worth + (all - lp)
          /\ SumOf(CostIn(c), a.kept) = cost + (lot.costs[c] - theirs)
      <4>1. a.kept = Append(m.kept, cut)
        BY <2>1, <2>8, Zenon
      <4>2. /\ SumOf(UnitsOf, a.kept) = units + cut.qty
            /\ SumOf(WorthOf, a.kept) = worth + cut.qty * cut.price
            /\ SumOf(CostIn(c), a.kept) = cost + cut.costs[c]
        BY <1>1, <4>1, LotSums
      <4> QED BY <3>1, <4>2, Zenon
    <3>3. /\ Owed(a) = (units + (lot.qty - n)) - (m.left - n)
          /\ CostsAt(a, c) = (m.rest[c] - ours) + (cost + (lot.costs[c] - theirs))
                               + (paid + (ours + theirs))
          /\ Open(t, a) = (worth + (all - lp)) - (due - tp)
          /\ Made(t, a) = IF t.side = "BUY" THEN (gross + rt.gross) + Open(t, a)
                          ELSE (gross + rt.gross) - Open(t, a)
      BY <2>1, <2>2, <2>3, <2>5, <3>2, Zenon DEF Owed, CostsAt, Open, Made
    <3> DEFINE made == rt.gross
    <3> HIDE DEF ours, theirs, lp, tp, all, due, units, worth, cost, gross, paid, u, rest, mine,
                 made
    <3>4. Owed(a) = Owed(m) + lot.qty
      <4>1. /\ Owed(a) = (units + (lot.qty - n)) - (m.left - n) /\ Owed(m) = units - m.left
            /\ units \in Int /\ lot.qty \in Int /\ m.left \in Int /\ n \in Nat \ {0}
        BY <1>2, <1>3, <2>1, <3>3, Zenon
      <4> QED BY <4>1
    <3>5. CostsAt(a, c) = CostsAt(m, c) + mine
      <4>1. ours \in Int /\ theirs \in Int /\ rest \in Int /\ mine \in Int
        BY <1>2, <2>2, Zenon DEF ours, theirs, rest, mine
      <4>2. /\ CostsAt(a, c) = (rest - ours) + (cost + (mine - theirs)) + (paid + (ours + theirs))
            /\ CostsAt(m, c) = rest + cost + paid
        BY <1>3, <3>3, Zenon DEF rest, mine
      <4> QED BY <1>2, <4>1, <4>2
    <3>6. Made(t, a) = IF t.side = "BUY" THEN Made(t, m) + all ELSE Made(t, m) - all
      <4>1. Open(t, m) = worth - due
        BY <1>3, Zenon DEF due
      <4>2. made = (IF t.side = "BUY" THEN lp - tp ELSE tp - lp)
        BY <2>4, Zenon DEF made
      <4>3. /\ Made(t, a) = IF t.side = "BUY" THEN (gross + made) + Open(t, a)
                            ELSE (gross + made) - Open(t, a)
            /\ Made(t, m) = IF t.side = "BUY" THEN gross + Open(t, m) ELSE gross - Open(t, m)
        BY <1>3, <3>3, Zenon DEF made
      <4>4. lp \in Int /\ tp \in Int /\ all \in Int /\ due \in Int
        BY <2>3
      <4>5. CASE t.side = "BUY"
        BY <1>2, <3>3, <4>1, <4>2, <4>3, <4>4, <4>5
      <4>6. CASE t.side # "BUY"
        BY <1>2, <3>3, <4>1, <4>2, <4>3, <4>4, <4>6
      <4> QED BY <4>5, <4>6
    <3> QED BY <2>1, <2>6, <3>4, <3>5, <3>6, Zenon DEF a, all, mine
  <2> QED BY <2>7, <2>8
<1> QED BY <1>4, <1>5

MatchedBy(t) == [p \in Accs \X Held |-> Match(t, p[1], p[2])]

LEMMA MatchedByIs ==
  ASSUME NEW t \in Fills
  PROVE  /\ MatchedBy(t) \in [Accs \X Held -> Accs]
         /\ \A m \in Accs, lot \in Held : MatchedBy(t)[<<m, lot>>] = Match(t, m, lot)
<1>1. \A m \in Accs, lot \in Held : Match(t, m, lot) \in Accs
  <2>1. "charges" \in Components
    BY DEF Components
  <2> QED BY <2>1, MatchStep, Zenon
<1>2. \A p \in Accs \X Held : Match(t, p[1], p[2]) \in Accs
  <2> TAKE p \in Accs \X Held
  <2>1. p[1] \in Accs /\ p[2] \in Held
    OBVIOUS
  <2> QED BY <1>1, <2>1, Zenon
<1>3. MatchedBy(t) \in [Accs \X Held -> Accs]
  BY <1>2, Zenon DEF MatchedBy
<1>4. ASSUME NEW m \in Accs, NEW lot \in Held
      PROVE  MatchedBy(t)[<<m, lot>>] = Match(t, m, lot)
  <2>1. <<m, lot>> \in Accs \X Held /\ <<m, lot>>[1] = m /\ <<m, lot>>[2] = lot
    OBVIOUS
  <2> QED BY <2>1, Zenon DEF MatchedBy
<1> QED BY <1>3, <1>4

Unmatched(t, closed) == [left |-> t.qty, rest |-> t.costs, kept |-> <<>>, closed |-> closed]

LEMMA MatchedTraced ==
  ASSUME NEW t \in Fills, NEW closed \in Seq(Closings), NEW w \in Seq(Held)
  PROVE  /\ Unmatched(t, closed) \in Accs
         /\ Comes(Matched(t, closed, w), Accs, MatchedBy(t), Unmatched(t, closed), w, Len(w))
<1> DEFINE n == Len(w)
           base == Unmatched(t, closed)
           g == CHOOSE iter : iter = [d \in SUBSET (1 .. n) |->
                  IF d = {} THEN base ELSE Match(t, iter[d \ {Max(d)}], w[Max(d)])]
<1>0. base \in Accs
  BY EmptySeq DEF Unmatched, Fills, Accs
<1>1. DOMAIN w = 1 .. n /\ n \in Nat /\ \A i \in 1 .. n : w[i] \in Held
  OBVIOUS
<1>2. Matched(t, closed, w) = g[1 .. n]
  <2>1. Matched(t, closed, w) = (CHOOSE iter :
          iter = [d \in SUBSET DOMAIN w |->
                    IF d = {} THEN base ELSE Match(t, iter[d \ {Max(d)}], w[Max(d)])])[DOMAIN w]
    BY Zenon DEF Matched, Unmatched, FoldLeft, MapThenFoldSet
  <2> QED BY <1>1, <2>1, Zenon
<1> HIDE DEF n, base
<1>3. Fits(Accs, Held, MatchedBy(t), base, w, n)
  BY <1>0, <1>1, MatchedByIs, Zenon DEF Fits
<1>4. \A d \in SUBSET (1 .. n) : d # {} => w[Max(d)] \in Held
  BY <1>1, MaxOf
<1>5. PICK h \in [SUBSET (1 .. n) -> Accs] : Folded(h, MatchedBy(t), base, w, n)
  BY <1>3, FoldExists, Zenon
<1>6. \A d \in SUBSET (1 .. n) : d # {} =>
        MatchedBy(t)[<<h[d \ {Max(d)}], w[Max(d)]>>] = Match(t, h[d \ {Max(d)}], w[Max(d)])
  <2> TAKE d \in SUBSET (1 .. n)
  <2> HAVE d # {}
  <2>1. d \ {Max(d)} \in SUBSET (1 .. n)
    OBVIOUS
  <2>2. h[d \ {Max(d)}] \in Accs /\ w[Max(d)] \in Held
    BY <1>4, <1>5, <2>1, Zenon
  <2> QED BY <2>2, MatchedByIs, Zenon
<1>7. h = [d \in SUBSET (1 .. n) |->
             IF d = {} THEN base ELSE Match(t, h[d \ {Max(d)}], w[Max(d)])]
  BY <1>5, <1>6, Zenon DEF Folded
<1>8. g = [d \in SUBSET (1 .. n) |->
             IF d = {} THEN base ELSE Match(t, g[d \ {Max(d)}], w[Max(d)])]
  BY <1>7, Zenon
<1> HIDE DEF g
<1>9. /\ g[{}] = base
      /\ \A d \in SUBSET (1 .. n) :
           d # {} => g[d] = Match(t, g[d \ {Max(d)}], w[Max(d)])
  <2>1. {} \in SUBSET (1 .. n)
    OBVIOUS
  <2> QED BY <1>8, <2>1, Zenon
<1>10. Follows(g, Accs, MatchedBy(t), base, w, n)
  <2>1. ASSUME NEW d \in SUBSET (1 .. n), d # {}, g[d \ {Max(d)}] \in Accs
        PROVE  g[d] = MatchedBy(t)[<<g[d \ {Max(d)}], w[Max(d)]>>]
    <3>1. w[Max(d)] \in Held /\ g[d] = Match(t, g[d \ {Max(d)}], w[Max(d)])
      BY <1>4, <1>9, <2>1, Zenon
    <3> QED BY <2>1, <3>1, MatchedByIs, Zenon
  <2> QED BY <1>9, <2>1, Zenon DEF Follows
<1>11. Comes(g[1 .. n], Accs, MatchedBy(t), base, w, n)
  BY <1>3, <1>10, FoldFollowed, Zenon
<1> QED BY <1>0, <1>2, <1>11, Zenon DEF n, base

(* A fill closes what it can of the lots: what it leaves of them, of its   *)
(* own costs and of itself.                                                *)
LEMMA MatchedIs ==
  ASSUME NEW t \in Fills, NEW closed \in Seq(Closings), NEW w \in Seq(Held), NEW c \in Components
  PROVE  LET m == Matched(t, closed, w)
             worth == SumOf(WorthOf, w) - t.qty * t.price
         IN  /\ m \in Accs
             /\ Owed(m) = SumOf(UnitsOf, w) - t.qty
             /\ CostsAt(m, c) = t.costs[c] + SumOf(PaidIn(c), closed) + SumOf(CostIn(c), w)
             /\ Made(t, m) = IF t.side = "BUY" THEN SumOf(GrossOf, closed) + worth
                             ELSE SumOf(GrossOf, closed) - worth
             /\ Spent(m)
             /\ w = <<>> => m.kept = <<>>
<1> DEFINE n == Len(w)
           m == Matched(t, closed, w)
           base == Unmatched(t, closed)
           worth == SumOf(WorthOf, w)
           start == t.qty * t.price
<1>0. /\ t.qty \in Nat \ {0} /\ t.price \in Int /\ t.costs \in Parts /\ start \in Int
      /\ t.costs[c] \in Int
  <2>1. t.qty \in Nat \ {0} /\ t.price \in Int /\ t.costs \in Parts
    BY DEF Fills
  <2> QED BY <2>1 DEF Parts
<1>1. base \in Accs /\ Comes(m, Accs, MatchedBy(t), base, w, n)
  BY MatchedTraced, Zenon
<1>2. PICK r \in [0 .. n -> Accs] : Traced(r, MatchedBy(t), base, w, n) /\ r[n] = m
  BY <1>1, Zenon DEF Comes
<1>3. n \in Nat /\ \A i \in 1 .. n : w[i] \in Held
  OBVIOUS
<1>4. ASSUME NEW j \in 1 .. n
      PROVE  /\ r[j - 1] \in Accs /\ r[j] \in Accs /\ w[j] \in Held
             /\ r[j] = Match(t, r[j - 1], w[j])
  <2>1. j - 1 \in 0 .. n /\ j \in 0 .. n
    BY <1>3
  <2>2. r[j - 1] \in Accs /\ r[j] \in Accs /\ w[j] \in Held
    BY <1>2, <1>3, <2>1, Zenon
  <2>3. r[j] = MatchedBy(t)[<<r[j - 1], w[j]>>]
    BY <1>2, Zenon DEF Traced
  <2> QED BY <2>2, <2>3, MatchedByIs, Zenon
<1>5. /\ UnitsOf \in [Held -> Int] /\ WorthOf \in [Held -> Int] /\ CostIn(c) \in [Held -> Int]
  BY Measures, Zenon
<1>6. PICK u \in [0 .. n -> Int] : Accrues(u, UnitsOf, w, n)
  <2>1. Accrued(UnitsOf, w, n)
    BY <1>5, SumTraced, Zenon
  <2> QED BY <2>1, Zenon DEF Accrued
<1>7. PICK v \in [0 .. n -> Int] : Accrues(v, WorthOf, w, n)
  <2>1. Accrued(WorthOf, w, n)
    BY <1>5, SumTraced, Zenon
  <2> QED BY <2>1, Zenon DEF Accrued
<1>8. PICK k \in [0 .. n -> Int] : Accrues(k, CostIn(c), w, n)
  <2>1. Accrued(CostIn(c), w, n)
    BY <1>5, SumTraced, Zenon
  <2> QED BY <2>1, Zenon DEF Accrued
<1> DEFINE paid == SumOf(PaidIn(c), closed)
           gross == SumOf(GrossOf, closed)
           mine == t.costs[c]
<1>9. paid \in Int /\ gross \in Int
  BY ClosingSums, Zenon
<1>10. /\ Owed(base) = 0 - t.qty
       /\ CostsAt(base, c) = mine + 0 + paid
       /\ Made(t, base) = IF t.side = "BUY" THEN gross + (0 - start) ELSE gross - (0 - start)
       /\ Spent(base) /\ base.kept = <<>>
  <2>1. /\ base.left = t.qty /\ base.rest = t.costs /\ base.kept = <<>> /\ base.closed = closed
    BY Zenon DEF Unmatched
  <2>2. SumOf(UnitsOf, <<>>) = 0 /\ SumOf(WorthOf, <<>>) = 0 /\ SumOf(CostIn(c), <<>>) = 0
    BY SumEmpty, Zenon
  <2> HIDE DEF base
  <2>3. Open(t, base) = 0 - start
    BY <2>1, <2>2, Zenon DEF Open
  <2>4. Made(t, base) = IF t.side = "BUY" THEN gross + (0 - start) ELSE gross - (0 - start)
    BY <2>1, <2>3, Zenon DEF Made
  <2>5. Owed(base) = 0 - t.qty /\ CostsAt(base, c) = mine + 0 + paid
    BY <2>1, <2>2, Zenon DEF Owed, CostsAt
  <2>6. t.qty # 0
    BY <1>0
  <2>7. Spent(base)
    BY <2>1, <2>6, Zenon DEF Spent
  <2> QED BY <2>1, <2>4, <2>5, <2>7, Zenon
<1> DEFINE Fine(a, x, y, z) ==
             /\ Owed(a) = x - t.qty
             /\ CostsAt(a, c) = mine + paid + z
             /\ Made(t, a) = IF t.side = "BUY" THEN gross + (y - start) ELSE gross - (y - start)
             /\ Spent(a)
           G == {j \in 0 .. n : Fine(r[j], u[j], v[j], k[j])}
<1> HIDE DEF n, base, worth, start, paid, gross, mine
<1>11. 0 \in G
  <2>1. r[0] = base
    BY <1>2, Zenon DEF Traced
  <2>2. CostsAt(base, c) = mine + paid + 0
    BY <1>0, <1>9, <1>10 DEF mine
  <2>3. Fine(base, 0, 0, 0)
    BY <1>10, <2>2, Zenon
  <2>4. 0 \in 0 .. n
    BY <1>3
  <2> HIDE DEF Fine
  <2>5. u[0] = 0 /\ v[0] = 0 /\ k[0] = 0
    BY <1>6, <1>7, <1>8, Zenon DEF Accrues
  <2> QED BY <2>1, <2>3, <2>4, <2>5, Zenon
<1>12. ASSUME NEW j \in 1 .. n, j - 1 \in G PROVE j \in G
  <2> DEFINE a == r[j]
             b == r[j - 1]
             lot == w[j]
             x == u[j - 1]
             y == v[j - 1]
             z == k[j - 1]
             size == lot.qty
             value == lot.qty * lot.price
             cost == lot.costs[c]
  <2>1. Fine(b, x, y, z)
    BY <1>12, Zenon
  <2>2. /\ Owed(a) = Owed(b) + size
        /\ CostsAt(a, c) = CostsAt(b, c) + cost
        /\ Made(t, a) = IF t.side = "BUY" THEN Made(t, b) + value ELSE Made(t, b) - value
        /\ Spent(b) => Spent(a)
    <3>1. b \in Accs /\ lot \in Held /\ a = Match(t, b, lot)
      BY <1>4
    <3> HIDE DEF a, b, lot
    <3> QED BY <3>1, MatchStep
  <2>3. u[j] = x + size /\ v[j] = y + value /\ k[j] = z + cost
    BY <1>4, <1>6, <1>7, <1>8, Measured, Zenon DEF Accrues
  <2>4. size \in Int /\ value \in Int /\ cost \in Int
    <3>1. lot \in Held
      BY <1>4
    <3>2. UnitsOf[lot] \in Int /\ WorthOf[lot] \in Int /\ CostIn(c)[lot] \in Int
      BY <1>5, <3>1, Zenon
    <3> QED BY <3>1, <3>2, Measured, Zenon
  <2>5. j - 1 \in 0 .. n /\ j \in 0 .. n
    BY <1>3
  <2>6. x \in Int /\ y \in Int /\ z \in Int
    BY <1>6, <1>7, <1>8, <2>5, Zenon
  <2>7. start \in Int /\ paid \in Int /\ gross \in Int /\ mine \in Int
    BY <1>0, <1>9 DEF mine
  <2> HIDE DEF a, b, lot, x, y, z, size, value, cost
  <2>8. Owed(a) = (x + size) - t.qty
    BY <1>0, <2>1, <2>2, <2>4, <2>6
  <2>9. CostsAt(a, c) = mine + paid + (z + cost)
    BY <2>1, <2>2, <2>4, <2>6, <2>7
  <2>10. Made(t, a) = IF t.side = "BUY" THEN gross + ((y + value) - start)
                      ELSE gross - ((y + value) - start)
    <3>1. CASE t.side = "BUY"
      BY <2>1, <2>2, <2>4, <2>6, <2>7, <3>1
    <3>2. CASE t.side # "BUY"
      BY <2>1, <2>2, <2>4, <2>6, <2>7, <3>2
    <3> QED BY <3>1, <3>2
  <2>11. Fine(a, x + size, y + value, z + cost)
    BY <2>1, <2>2, <2>8, <2>9, <2>10, Zenon
  <2> HIDE DEF Fine
  <2> QED BY <2>3, <2>5, <2>11, Zenon DEF a
<1>13. n \in G
  <2> HIDE DEF G
  <2>1. Climbs(G, n)
    BY <1>11, <1>12, Zenon DEF Climbs
  <2>2. n \in 0 .. n
    BY <1>3
  <2> QED BY <1>3, <2>1, <2>2, TraceInduction, Zenon
<1>14. Fine(m, SumOf(UnitsOf, w), worth, SumOf(CostIn(c), w))
  <2> HIDE DEF Fine, m
  <2>1. u[n] = SumOf(UnitsOf, w) /\ v[n] = worth /\ k[n] = SumOf(CostIn(c), w)
    BY <1>6, <1>7, <1>8, Zenon DEF Accrues, worth
  <2> QED BY <1>2, <1>13, <2>1, Zenon
<1>15. m \in Accs
  <2>1. n \in 0 .. n
    BY <1>3
  <2> HIDE DEF m
  <2> QED BY <1>2, <2>1, Zenon
<1>16. w = <<>> => m.kept = <<>>
  <2> SUFFICES ASSUME w = <<>> PROVE m.kept = <<>>
    OBVIOUS
  <2>1. n = 0
    BY DEF n
  <2> HIDE DEF m
  <2>2. m = base
    BY <1>2, <2>1, Zenon DEF Traced
  <2> QED BY <1>10, <2>2, Zenon
<1> QED BY <1>14, <1>15, <1>16, Zenon DEF worth, start, paid, gross, mine

-----------------------------------------------------------------------------
(* The ledger a fill leaves, and the ledger of a tape.                     *)

NetUnits(l) == SumOf(UnitsOf, l.long) - SumOf(UnitsOf, l.short)
CostsIn(l, c) ==
  SumOf(PaidIn(c), l.closed) + SumOf(CostIn(c), l.long) + SumOf(CostIn(c), l.short)
Flowed(l) == SumOf(GrossOf, l.closed) - SumOf(WorthOf, l.long) + SumOf(WorthOf, l.short)
OneSided(l) == l.long = <<>> \/ l.short = <<>>

(* The lot that is left of a fill joins the lots of its side. *)
OpenedBy(t, own, m) ==
  IF m.left = 0 THEN own
  ELSE Append(own, [qty |-> m.left, price |-> t.price, costs |-> m.rest])

LEMMA OpenedIs ==
  ASSUME NEW t \in Fills, NEW own \in Seq(Held), NEW m \in Accs, Spent(m), NEW c \in Components
  PROVE  /\ OpenedBy(t, own, m) \in Seq(Held)
         /\ SumOf(UnitsOf, OpenedBy(t, own, m)) = SumOf(UnitsOf, own) + m.left
         /\ SumOf(WorthOf, OpenedBy(t, own, m)) = SumOf(WorthOf, own) + m.left * t.price
         /\ SumOf(CostIn(c), OpenedBy(t, own, m)) = SumOf(CostIn(c), own) + m.rest[c]
         /\ m.left = 0 => OpenedBy(t, own, m) = own
<1>1. m.left \in Nat /\ m.rest \in Parts /\ t.price \in Int
  BY DEF Accs, Fills
<1>2. SumOf(UnitsOf, own) \in Int /\ SumOf(WorthOf, own) \in Int /\ SumOf(CostIn(c), own) \in Int
  BY LotSums, Zenon
<1>3. CASE m.left = 0
  <2>1. OpenedBy(t, own, m) = own
    BY <1>3, Zenon DEF OpenedBy
  <2>2. m.rest[c] = 0
    BY <1>3, Zenon DEF Spent
  <2>3. 0 * t.price = 0
    BY <1>1
  <2> DEFINE a == SumOf(UnitsOf, own)
             b == SumOf(WorthOf, own)
             d == SumOf(CostIn(c), own)
  <2>4. a = a + 0 /\ b = b + 0 /\ d = d + 0
    <3> HIDE DEF a, b, d
    <3>1. a \in Int /\ b \in Int /\ d \in Int
      BY <1>2, Zenon DEF a, b, d
    <3> QED BY <3>1
  <2> QED BY <1>3, <2>1, <2>2, <2>3, <2>4, Zenon
<1>4. CASE m.left # 0
  <2> DEFINE lot == [qty |-> m.left, price |-> t.price, costs |-> m.rest]
  <2>1. OpenedBy(t, own, m) = Append(own, lot)
    BY <1>4, Zenon DEF OpenedBy
  <2>2. lot \in Held /\ lot.qty = m.left /\ lot.price = t.price /\ lot.costs = m.rest
    BY <1>1, <1>4 DEF Held
  <2> HIDE DEF lot
  <2>3. Append(own, lot) \in Seq(Held)
    BY <2>2, AppendProperties
  <2>4. /\ SumOf(UnitsOf, Append(own, lot)) = SumOf(UnitsOf, own) + lot.qty
        /\ SumOf(WorthOf, Append(own, lot)) = SumOf(WorthOf, own) + lot.qty * lot.price
        /\ SumOf(CostIn(c), Append(own, lot)) = SumOf(CostIn(c), own) + lot.costs[c]
    BY <2>2, LotSums, Zenon
  <2> QED BY <1>4, <2>1, <2>2, <2>3, <2>4, Zenon
<1> QED BY <1>3, <1>4

LEMMA LedgerIs ==
  ASSUME NEW l \in Ledgers
  PROVE  l.long \in Seq(Held) /\ l.short \in Seq(Held) /\ l.closed \in Seq(Closings)
BY DEF Ledgers

(* What the books of one side come to, once the fill has matched the other *)
(* side's lots, `w`, into m and what is left of it has joined its own.     *)
Sided(t, closed, w, own, c, m, opened) ==
  /\ opened \in Seq(Held) /\ m.kept \in Seq(Held) /\ m.closed \in Seq(Closings)
  /\ SumOf(UnitsOf, opened) - SumOf(UnitsOf, m.kept)
       = SumOf(UnitsOf, own) - SumOf(UnitsOf, w) + t.qty
  /\ SumOf(PaidIn(c), m.closed) + SumOf(CostIn(c), opened) + SumOf(CostIn(c), m.kept)
       = SumOf(PaidIn(c), closed) + SumOf(CostIn(c), own) + SumOf(CostIn(c), w) + t.costs[c]
  /\ t.side = "BUY"
     => SumOf(GrossOf, m.closed) - SumOf(WorthOf, opened) + SumOf(WorthOf, m.kept)
          = (SumOf(GrossOf, closed) - SumOf(WorthOf, own) + SumOf(WorthOf, w)) - t.qty * t.price
  /\ t.side # "BUY"
     => SumOf(GrossOf, m.closed) - SumOf(WorthOf, m.kept) + SumOf(WorthOf, opened)
          = SumOf(GrossOf, closed) - SumOf(WorthOf, w) + SumOf(WorthOf, own) + t.qty * t.price
  /\ own = <<>> \/ w = <<>> => opened = <<>> \/ m.kept = <<>>

LEMMA BookedSide ==
  ASSUME NEW t \in Fills, NEW closed \in Seq(Closings), NEW w \in Seq(Held), NEW own \in Seq(Held),
         NEW c \in Components
  PROVE  Sided(t, closed, w, own, c, Matched(t, closed, w),
               OpenedBy(t, own, Matched(t, closed, w)))
<1> DEFINE m == Matched(t, closed, w)
           opened == OpenedBy(t, own, m)
           value == t.qty * t.price
           due == m.left * t.price
           worth == SumOf(WorthOf, w)
           dealt == IF t.side = "BUY" THEN SumOf(GrossOf, closed) + (worth - value)
                    ELSE SumOf(GrossOf, closed) - (worth - value)
<1>1. /\ m \in Accs
      /\ Owed(m) = SumOf(UnitsOf, w) - t.qty
      /\ CostsAt(m, c) = t.costs[c] + SumOf(PaidIn(c), closed) + SumOf(CostIn(c), w)
      /\ Made(t, m) = dealt
      /\ Spent(m)
      /\ w = <<>> => m.kept = <<>>
  BY MatchedIs, Zenon
<1> HIDE DEF m
<1>2. /\ opened \in Seq(Held)
      /\ SumOf(UnitsOf, opened) = SumOf(UnitsOf, own) + m.left
      /\ SumOf(WorthOf, opened) = SumOf(WorthOf, own) + m.left * t.price
      /\ SumOf(CostIn(c), opened) = SumOf(CostIn(c), own) + m.rest[c]
      /\ m.left = 0 => opened = own
  BY <1>1, OpenedIs, Zenon
<1>3. /\ m.left \in Nat /\ m.rest \in Parts /\ m.kept \in Seq(Held) /\ m.closed \in Seq(Closings)
      /\ t.qty \in Nat \ {0} /\ t.price \in Int /\ t.costs \in Parts
  BY <1>1 DEF Accs, Fills
<1> HIDE DEF opened
<1>4. own = <<>> \/ w = <<>> => opened = <<>> \/ m.kept = <<>>
  BY <1>1, <1>2, Zenon DEF Spent
<1> DEFINE units == SumOf(UnitsOf, w)
           unitsOwn == SumOf(UnitsOf, own)
           unitsKept == SumOf(UnitsOf, m.kept)
           worthOwn == SumOf(WorthOf, own)
           worthKept == SumOf(WorthOf, m.kept)
           cost == SumOf(CostIn(c), w)
           costOwn == SumOf(CostIn(c), own)
           costKept == SumOf(CostIn(c), m.kept)
           paid == SumOf(PaidIn(c), closed)
           paidNow == SumOf(PaidIn(c), m.closed)
           gross == SumOf(GrossOf, closed)
           grossNow == SumOf(GrossOf, m.closed)
           rest == m.rest[c]
           mine == t.costs[c]
           left == m.left
           size == t.qty
<1>5. /\ units \in Int /\ worth \in Int /\ cost \in Int
      /\ unitsOwn \in Int /\ worthOwn \in Int /\ costOwn \in Int
      /\ unitsKept \in Int /\ worthKept \in Int /\ costKept \in Int
      /\ paid \in Int /\ gross \in Int /\ paidNow \in Int /\ grossNow \in Int
      /\ rest \in Int /\ mine \in Int /\ left \in Int /\ size \in Int
      /\ value \in Int /\ due \in Int
  <2>1. units \in Int /\ worth \in Int /\ cost \in Int
    BY LotSums, Zenon
  <2>2. unitsOwn \in Int /\ worthOwn \in Int /\ costOwn \in Int
    BY LotSums, Zenon
  <2>3. unitsKept \in Int /\ worthKept \in Int /\ costKept \in Int
    BY <1>3, LotSums, Zenon
  <2>4. paid \in Int /\ gross \in Int
    BY ClosingSums, Zenon
  <2>5. paidNow \in Int /\ grossNow \in Int
    BY <1>3, ClosingSums, Zenon
  <2>6. rest \in Int /\ mine \in Int
    BY <1>3, Zenon DEF Parts
  <2>7. left \in Int /\ size \in Int /\ t.price \in Int
    BY <1>3
  <2>8. value \in Int /\ due \in Int
    BY <2>7, Commute, Zenon
  <2> QED BY <2>1, <2>2, <2>3, <2>4, <2>5, <2>6, <2>7, <2>8, Zenon
<1>6. /\ Owed(m) = unitsKept - left
      /\ CostsAt(m, c) = rest + costKept + paidNow
      /\ Open(t, m) = worthKept - due
      /\ Made(t, m) = IF t.side = "BUY" THEN grossNow + Open(t, m) ELSE grossNow - Open(t, m)
  BY Zenon DEF Owed, CostsAt, Open, Made
<1> HIDE DEF units, unitsOwn, unitsKept, worth, worthOwn, worthKept, cost, costOwn, costKept,
             paid, paidNow, gross, grossNow, rest, mine, left, size, value, due
<1>7. SumOf(UnitsOf, opened) - unitsKept = unitsOwn - units + size
  <2>1. SumOf(UnitsOf, opened) = unitsOwn + left /\ Owed(m) = units - size
    BY <1>1, <1>2, Zenon DEF unitsOwn, left, units, size
  <2> QED BY <1>5, <1>6, <2>1
<1>8. paidNow + SumOf(CostIn(c), opened) + costKept = paid + costOwn + cost + mine
  <2>1. /\ SumOf(CostIn(c), opened) = costOwn + rest
        /\ CostsAt(m, c) = mine + paid + cost
    BY <1>1, <1>2, Zenon DEF costOwn, rest, mine, paid, cost
  <2> QED BY <1>5, <1>6, <2>1
<1>9. SumOf(WorthOf, opened) = worthOwn + due
  BY <1>2, Zenon DEF worthOwn, due
<1>10. Made(t, m) = IF t.side = "BUY" THEN gross + (worth - value) ELSE gross - (worth - value)
  BY <1>1, Zenon DEF gross
<1>11. t.side = "BUY"
       => grossNow - SumOf(WorthOf, opened) + worthKept = (gross - worthOwn + worth) - value
  BY <1>5, <1>6, <1>9, <1>10
<1>12. t.side # "BUY"
       => grossNow - worthKept + SumOf(WorthOf, opened) = gross - worth + worthOwn + value
  BY <1>5, <1>6, <1>9, <1>10
<1> QED BY <1>2, <1>3, <1>4, <1>7, <1>8, <1>11, <1>12, Zenon
        DEF Sided, m, opened, units, unitsOwn, unitsKept, worth, worthOwn, worthKept, cost, costOwn,
            costKept, paid, paidNow, gross, grossNow, mine, size, value

LEMMA BookedStep ==
  ASSUME NEW t \in Fills, NEW l \in Ledgers, NEW c \in Components
  PROVE  /\ Booked(l, t) \in Ledgers
         /\ NetUnits(Booked(l, t)) = IF t.side = "BUY" THEN NetUnits(l) + t.qty
                                     ELSE NetUnits(l) - t.qty
         /\ CostsIn(Booked(l, t), c) = CostsIn(l, c) + t.costs[c]
         /\ Flowed(Booked(l, t)) = IF t.side = "BUY" THEN Flowed(l) - t.qty * t.price
                                   ELSE Flowed(l) + t.qty * t.price
         /\ OneSided(l) => OneSided(Booked(l, t))
<1> DEFINE b == Booked(l, t)
<1>1. l.long \in Seq(Held) /\ l.short \in Seq(Held) /\ l.closed \in Seq(Closings)
  BY LedgerIs
<1>2. CASE t.side = "BUY"
  <2> DEFINE m == Matched(t, l.closed, l.short)
             opened == OpenedBy(t, l.long, m)
  <2>1. b = [long |-> opened, short |-> m.kept, closed |-> m.closed]
    BY <1>2, Zenon DEF Booked, OpenedBy
  <2>2. /\ opened \in Seq(Held) /\ m.kept \in Seq(Held) /\ m.closed \in Seq(Closings)
        /\ SumOf(UnitsOf, opened) - SumOf(UnitsOf, m.kept)
             = SumOf(UnitsOf, l.long) - SumOf(UnitsOf, l.short) + t.qty
        /\ SumOf(PaidIn(c), m.closed) + SumOf(CostIn(c), opened) + SumOf(CostIn(c), m.kept)
             = SumOf(PaidIn(c), l.closed) + SumOf(CostIn(c), l.long) + SumOf(CostIn(c), l.short)
                 + t.costs[c]
        /\ SumOf(GrossOf, m.closed) - SumOf(WorthOf, opened) + SumOf(WorthOf, m.kept)
             = (SumOf(GrossOf, l.closed) - SumOf(WorthOf, l.long) + SumOf(WorthOf, l.short))
                 - t.qty * t.price
        /\ l.long = <<>> \/ l.short = <<>> => opened = <<>> \/ m.kept = <<>>
    <3>1. Sided(t, l.closed, l.short, l.long, c, m, opened)
      BY <1>1, BookedSide, Zenon
    <3> HIDE DEF m, opened
    <3> QED BY <1>2, <3>1, Zenon DEF Sided
  <2> HIDE DEF m, opened
  <2>3. b \in Ledgers /\ b.long = opened /\ b.short = m.kept /\ b.closed = m.closed
    <3> DEFINE kept == m.kept
               closed == m.closed
    <3> HIDE DEF b, kept, closed
    <3>1. b = [long |-> opened, short |-> kept, closed |-> closed]
      BY <2>1, Zenon DEF kept, closed
    <3>2. opened \in Seq(Held) /\ kept \in Seq(Held) /\ closed \in Seq(Closings)
      BY <2>2, Zenon DEF kept, closed
    <3>3. b \in Ledgers /\ b.long = opened /\ b.short = kept /\ b.closed = closed
      BY <3>1, <3>2 DEF Ledgers
    <3> QED BY <3>3, Zenon DEF kept, closed
  <2> HIDE DEF b
  <2>4. NetUnits(b) = NetUnits(l) + t.qty
    BY <2>2, <2>3, Zenon DEF NetUnits
  <2>5. CostsIn(b, c) = CostsIn(l, c) + t.costs[c]
    BY <2>2, <2>3, Zenon DEF CostsIn
  <2>6. Flowed(b) = Flowed(l) - t.qty * t.price
    BY <2>2, <2>3, Zenon DEF Flowed
  <2>7. OneSided(l) => OneSided(b)
    BY <2>2, <2>3, Zenon DEF OneSided
  <2> QED BY <1>2, <2>3, <2>4, <2>5, <2>6, <2>7, Zenon DEF b
<1>3. CASE t.side # "BUY"
  <2> DEFINE m == Matched(t, l.closed, l.long)
             opened == OpenedBy(t, l.short, m)
  <2>1. b = [long |-> m.kept, short |-> opened, closed |-> m.closed]
    BY <1>3, Zenon DEF Booked, OpenedBy
  <2>2. /\ opened \in Seq(Held) /\ m.kept \in Seq(Held) /\ m.closed \in Seq(Closings)
        /\ SumOf(UnitsOf, opened) - SumOf(UnitsOf, m.kept)
             = SumOf(UnitsOf, l.short) - SumOf(UnitsOf, l.long) + t.qty
        /\ SumOf(PaidIn(c), m.closed) + SumOf(CostIn(c), opened) + SumOf(CostIn(c), m.kept)
             = SumOf(PaidIn(c), l.closed) + SumOf(CostIn(c), l.short) + SumOf(CostIn(c), l.long)
                 + t.costs[c]
        /\ SumOf(GrossOf, m.closed) - SumOf(WorthOf, m.kept) + SumOf(WorthOf, opened)
             = SumOf(GrossOf, l.closed) - SumOf(WorthOf, l.long) + SumOf(WorthOf, l.short)
                 + t.qty * t.price
        /\ l.short = <<>> \/ l.long = <<>> => opened = <<>> \/ m.kept = <<>>
    <3>1. Sided(t, l.closed, l.long, l.short, c, m, opened)
      BY <1>1, BookedSide, Zenon
    <3> HIDE DEF m, opened
    <3> QED BY <1>3, <3>1, Zenon DEF Sided
  <2> HIDE DEF m, opened
  <2>3. b \in Ledgers /\ b.long = m.kept /\ b.short = opened /\ b.closed = m.closed
    <3> DEFINE kept == m.kept
               closed == m.closed
    <3> HIDE DEF b, kept, closed
    <3>1. b = [long |-> kept, short |-> opened, closed |-> closed]
      BY <2>1, Zenon DEF kept, closed
    <3>2. opened \in Seq(Held) /\ kept \in Seq(Held) /\ closed \in Seq(Closings)
      BY <2>2, Zenon DEF kept, closed
    <3>3. b \in Ledgers /\ b.long = kept /\ b.short = opened /\ b.closed = closed
      BY <3>1, <3>2 DEF Ledgers
    <3> QED BY <3>3, Zenon DEF kept, closed
  <2> HIDE DEF b
  <2> DEFINE kept == m.kept
             closed == m.closed
             ul == SumOf(UnitsOf, l.long)
             us == SumOf(UnitsOf, l.short)
             uk == SumOf(UnitsOf, kept)
             uo == SumOf(UnitsOf, opened)
             cl == SumOf(CostIn(c), l.long)
             cs == SumOf(CostIn(c), l.short)
             ck == SumOf(CostIn(c), kept)
             co == SumOf(CostIn(c), opened)
             pl == SumOf(PaidIn(c), l.closed)
             pm == SumOf(PaidIn(c), closed)
             mine == t.costs[c]
             size == t.qty
  <2>4. /\ ul \in Int /\ us \in Int /\ uk \in Int /\ uo \in Int
        /\ cl \in Int /\ cs \in Int /\ ck \in Int /\ co \in Int
        /\ pl \in Int /\ pm \in Int /\ mine \in Int /\ size \in Int
    <3>1. ul \in Int /\ cl \in Int
      BY <1>1, LotSums, Zenon
    <3>2. us \in Int /\ cs \in Int
      BY <1>1, LotSums, Zenon
    <3>3. uk \in Int /\ ck \in Int
      BY <2>2, LotSums, Zenon
    <3>4. uo \in Int /\ co \in Int
      BY <2>2, LotSums, Zenon
    <3>5. pl \in Int
      BY <1>1, ClosingSums, Zenon
    <3>6. pm \in Int
      BY <2>2, ClosingSums, Zenon
    <3>7. mine \in Int /\ size \in Int
      <4>1. t.costs \in Parts /\ size \in Int
        BY DEF Fills
      <4> QED BY <4>1, Zenon DEF Parts
    <3> QED BY <3>1, <3>2, <3>3, <3>4, <3>5, <3>6, <3>7, Zenon
  <2>5. /\ NetUnits(b) = uk - uo /\ NetUnits(l) = ul - us /\ uo - uk = us - ul + size
        /\ CostsIn(b, c) = pm + ck + co /\ CostsIn(l, c) = pl + cl + cs
        /\ pm + co + ck = pl + cs + cl + mine
    BY <2>2, <2>3, Zenon DEF NetUnits, CostsIn
  <2>6. NetUnits(b) = NetUnits(l) - size /\ CostsIn(b, c) = CostsIn(l, c) + mine
    <3> HIDE DEF ul, us, uk, uo, cl, cs, ck, co, pl, pm, mine, size
    <3> QED BY <2>4, <2>5
  <2>7. Flowed(b) = Flowed(l) + t.qty * t.price
    BY <2>2, <2>3, Zenon DEF Flowed
  <2>8. OneSided(l) => OneSided(b)
    BY <2>2, <2>3, Zenon DEF OneSided
  <2> QED BY <1>3, <2>3, <2>6, <2>7, <2>8, Zenon DEF b
<1> QED BY <1>2, <1>3

BookedBy == [p \in Ledgers \X Fills |-> Booked(p[1], p[2])]

LEMMA BookedByIs ==
  /\ BookedBy \in [Ledgers \X Fills -> Ledgers]
  /\ \A l \in Ledgers, t \in Fills : BookedBy[<<l, t>>] = Booked(l, t)
<1>1. \A l \in Ledgers, t \in Fills : Booked(l, t) \in Ledgers
  <2>1. "charges" \in Components
    BY DEF Components
  <2> QED BY <2>1, BookedStep, Zenon
<1>2. \A p \in Ledgers \X Fills : Booked(p[1], p[2]) \in Ledgers
  <2> TAKE p \in Ledgers \X Fills
  <2>1. p[1] \in Ledgers /\ p[2] \in Fills
    OBVIOUS
  <2> QED BY <1>1, <2>1, Zenon
<1>3. BookedBy \in [Ledgers \X Fills -> Ledgers]
  BY <1>2, Zenon DEF BookedBy
<1>4. ASSUME NEW l \in Ledgers, NEW t \in Fills
      PROVE  BookedBy[<<l, t>>] = Booked(l, t)
  <2>1. <<l, t>> \in Ledgers \X Fills /\ <<l, t>>[1] = l /\ <<l, t>>[2] = t
    OBVIOUS
  <2> QED BY <2>1, Zenon DEF BookedBy
<1> QED BY <1>3, <1>4

LEMMA LedgerTraced ==
  ASSUME NEW w \in Seq(Fills)
  PROVE  Empty \in Ledgers /\ Comes(LedgerOf(w), Ledgers, BookedBy, Empty, w, Len(w))
<1> DEFINE n == Len(w)
           g == CHOOSE iter : iter = [d \in SUBSET (1 .. n) |->
                  IF d = {} THEN Empty ELSE Booked(iter[d \ {Max(d)}], w[Max(d)])]
<1>0. Empty \in Ledgers
  BY EmptySeq DEF Empty, Ledgers
<1>1. DOMAIN w = 1 .. n /\ n \in Nat /\ \A i \in 1 .. n : w[i] \in Fills
  OBVIOUS
<1>2. LedgerOf(w) = g[1 .. n]
  <2>1. LedgerOf(w) = (CHOOSE iter :
          iter = [d \in SUBSET DOMAIN w |->
                    IF d = {} THEN Empty ELSE Booked(iter[d \ {Max(d)}], w[Max(d)])])[DOMAIN w]
    BY Zenon DEF LedgerOf, FoldLeft, MapThenFoldSet
  <2> QED BY <1>1, <2>1, Zenon
<1> HIDE DEF n
<1>3. Fits(Ledgers, Fills, BookedBy, Empty, w, n)
  BY <1>0, <1>1, BookedByIs, Zenon DEF Fits
<1>4. \A d \in SUBSET (1 .. n) : d # {} => w[Max(d)] \in Fills
  BY <1>1, MaxOf
<1>5. PICK h \in [SUBSET (1 .. n) -> Ledgers] : Folded(h, BookedBy, Empty, w, n)
  BY <1>3, FoldExists, Zenon
<1>6. \A d \in SUBSET (1 .. n) : d # {} =>
        BookedBy[<<h[d \ {Max(d)}], w[Max(d)]>>] = Booked(h[d \ {Max(d)}], w[Max(d)])
  <2> TAKE d \in SUBSET (1 .. n)
  <2> HAVE d # {}
  <2>1. d \ {Max(d)} \in SUBSET (1 .. n)
    OBVIOUS
  <2>2. h[d \ {Max(d)}] \in Ledgers /\ w[Max(d)] \in Fills
    BY <1>4, <1>5, <2>1, Zenon
  <2> QED BY <2>2, BookedByIs, Zenon
<1>7. h = [d \in SUBSET (1 .. n) |->
             IF d = {} THEN Empty ELSE Booked(h[d \ {Max(d)}], w[Max(d)])]
  BY <1>5, <1>6, Zenon DEF Folded
<1>8. g = [d \in SUBSET (1 .. n) |->
             IF d = {} THEN Empty ELSE Booked(g[d \ {Max(d)}], w[Max(d)])]
  BY <1>7, Zenon
<1> HIDE DEF g
<1>9. /\ g[{}] = Empty
      /\ \A d \in SUBSET (1 .. n) :
           d # {} => g[d] = Booked(g[d \ {Max(d)}], w[Max(d)])
  <2>1. {} \in SUBSET (1 .. n)
    OBVIOUS
  <2> QED BY <1>8, <2>1, Zenon
<1>10. Follows(g, Ledgers, BookedBy, Empty, w, n)
  <2>1. ASSUME NEW d \in SUBSET (1 .. n), d # {}, g[d \ {Max(d)}] \in Ledgers
        PROVE  g[d] = BookedBy[<<g[d \ {Max(d)}], w[Max(d)]>>]
    <3>1. w[Max(d)] \in Fills /\ g[d] = Booked(g[d \ {Max(d)}], w[Max(d)])
      BY <1>4, <1>9, <2>1, Zenon
    <3> QED BY <2>1, <3>1, BookedByIs, Zenon
  <2> QED BY <1>9, <2>1, Zenon DEF Follows
<1>11. Comes(g[1 .. n], Ledgers, BookedBy, Empty, w, n)
  BY <1>3, <1>10, FoldFollowed, Zenon
<1> QED BY <1>0, <1>2, <1>11, Zenon DEF n

(* What a tape of fills comes to: units, money for them, and costs. *)
SignedQty == [t \in Fills |-> IF t.side = "BUY" THEN t.qty ELSE -t.qty]
FlowOf == [t \in Fills |-> IF t.side = "BUY" THEN -(t.qty * t.price) ELSE t.qty * t.price]
FeeOf(c) == [t \in Fills |-> t.costs[c]]

LEMMA TapeMeasures ==
  /\ SignedQty \in [Fills -> Int] /\ FlowOf \in [Fills -> Int]
  /\ \A c \in Components : FeeOf(c) \in [Fills -> Int]
<1>1. \A t \in Fills : /\ (IF t.side = "BUY" THEN t.qty ELSE -t.qty) \in Int
                       /\ (IF t.side = "BUY" THEN -(t.qty * t.price) ELSE t.qty * t.price) \in Int
                       /\ t.costs \in Parts
  <2> TAKE t \in Fills
  <2>1. t.qty \in Int /\ t.price \in Int /\ t.costs \in Parts
    BY DEF Fills
  <2> DEFINE v == t.qty * t.price
  <2>2. v \in Int
    BY <2>1, Commute, Zenon
  <2> HIDE DEF v
  <2>3. (IF t.side = "BUY" THEN -v ELSE v) \in Int
    BY <2>2
  <2>4. (IF t.side = "BUY" THEN t.qty ELSE -t.qty) \in Int
    BY <2>1
  <2> QED BY <2>1, <2>3, <2>4, Zenon DEF v
<1>2. \A t \in Fills, c \in Components : t.costs[c] \in Int
  BY <1>1, Zenon DEF Parts
<1> QED BY <1>1, <1>2, Zenon DEF SignedQty, FlowOf, FeeOf

(* The ledger of a tape: it holds the same units, has paid and received    *)
(* the same money, and bears the same costs.                               *)
Tallies(l, c, x, y, z) ==
  NetUnits(l) = x /\ Flowed(l) = y /\ CostsIn(l, c) = z /\ OneSided(l)

LEMMA LedgerTallies ==
  ASSUME NEW w \in Seq(Fills), NEW c \in Components
  PROVE  /\ LedgerOf(w) \in Ledgers
         /\ Tallies(LedgerOf(w), c, SumOf(SignedQty, w), SumOf(FlowOf, w), SumOf(FeeOf(c), w))
<1> DEFINE n == Len(w)
           m == LedgerOf(w)
<1>1. Empty \in Ledgers /\ Comes(m, Ledgers, BookedBy, Empty, w, n)
  BY LedgerTraced, Zenon
<1>2. PICK r \in [0 .. n -> Ledgers] : Traced(r, BookedBy, Empty, w, n) /\ r[n] = m
  BY <1>1, Zenon DEF Comes
<1>3. n \in Nat /\ \A i \in 1 .. n : w[i] \in Fills
  OBVIOUS
<1>4. ASSUME NEW j \in 1 .. n
      PROVE  /\ r[j - 1] \in Ledgers /\ r[j] \in Ledgers /\ w[j] \in Fills
             /\ r[j] = Booked(r[j - 1], w[j])
  <2>1. j - 1 \in 0 .. n /\ j \in 0 .. n
    BY <1>3
  <2>2. r[j - 1] \in Ledgers /\ r[j] \in Ledgers /\ w[j] \in Fills
    BY <1>2, <1>3, <2>1, Zenon
  <2>3. r[j] = BookedBy[<<r[j - 1], w[j]>>]
    BY <1>2, Zenon DEF Traced
  <2> QED BY <2>2, <2>3, BookedByIs, Zenon
<1>5. SignedQty \in [Fills -> Int] /\ FlowOf \in [Fills -> Int] /\ FeeOf(c) \in [Fills -> Int]
  BY TapeMeasures, Zenon
<1>6. PICK u \in [0 .. n -> Int] : Accrues(u, SignedQty, w, n)
  <2>1. Accrued(SignedQty, w, n)
    BY <1>5, SumTraced, Zenon
  <2> QED BY <2>1, Zenon DEF Accrued
<1>7. PICK v \in [0 .. n -> Int] : Accrues(v, FlowOf, w, n)
  <2>1. Accrued(FlowOf, w, n)
    BY <1>5, SumTraced, Zenon
  <2> QED BY <2>1, Zenon DEF Accrued
<1>8. PICK k \in [0 .. n -> Int] : Accrues(k, FeeOf(c), w, n)
  <2>1. Accrued(FeeOf(c), w, n)
    BY <1>5, SumTraced, Zenon
  <2> QED BY <2>1, Zenon DEF Accrued
<1>9. Tallies(Empty, c, 0, 0, 0)
  <2>1. /\ SumOf(UnitsOf, <<>>) = 0 /\ SumOf(WorthOf, <<>>) = 0 /\ SumOf(CostIn(c), <<>>) = 0
        /\ SumOf(GrossOf, <<>>) = 0 /\ SumOf(PaidIn(c), <<>>) = 0
    BY SumEmpty, Zenon
  <2>2. Empty.long = <<>> /\ Empty.short = <<>> /\ Empty.closed = <<>>
    BY Zenon DEF Empty
  <2>3. NetUnits(Empty) = 0 - 0 /\ Flowed(Empty) = 0 - 0 + 0 /\ CostsIn(Empty, c) = 0 + 0 + 0
    BY <2>1, <2>2, Zenon DEF NetUnits, Flowed, CostsIn
  <2>4. OneSided(Empty)
    BY <2>2, Zenon DEF OneSided
  <2> QED BY <2>3, <2>4 DEF Tallies
<1> DEFINE G == {j \in 0 .. n : Tallies(r[j], c, u[j], v[j], k[j])}
<1> HIDE DEF n, m
<1>10. 0 \in G
  <2>1. u[0] = 0 /\ v[0] = 0 /\ k[0] = 0 /\ r[0] = Empty
    BY <1>2, <1>6, <1>7, <1>8, Zenon DEF Accrues, Traced
  <2>2. 0 \in 0 .. n
    BY <1>3
  <2> QED BY <1>9, <2>1, <2>2, Zenon
<1>11. ASSUME NEW j \in 1 .. n, j - 1 \in G PROVE j \in G
  <2> DEFINE a == r[j]
             b == r[j - 1]
             t == w[j]
             x == u[j - 1]
             y == v[j - 1]
             z == k[j - 1]
             size == t.qty
             value == t.qty * t.price
             cost == t.costs[c]
             moved == SignedQty[t]
             flow == FlowOf[t]
  <2>1. Tallies(b, c, x, y, z)
    BY <1>11, Zenon
  <2>2. /\ NetUnits(a) = IF t.side = "BUY" THEN NetUnits(b) + size ELSE NetUnits(b) - size
        /\ CostsIn(a, c) = CostsIn(b, c) + cost
        /\ Flowed(a) = IF t.side = "BUY" THEN Flowed(b) - value ELSE Flowed(b) + value
        /\ OneSided(b) => OneSided(a)
    <3>1. b \in Ledgers /\ t \in Fills /\ a = Booked(b, t)
      BY <1>4
    <3> HIDE DEF a, b, t
    <3> QED BY <3>1, BookedStep
  <2>3. u[j] = x + moved /\ v[j] = y + flow /\ k[j] = z + cost
    BY <1>4, <1>6, <1>7, <1>8, Zenon DEF Accrues, FeeOf
  <2>4. /\ moved = (IF t.side = "BUY" THEN size ELSE -size)
        /\ flow = (IF t.side = "BUY" THEN -value ELSE value)
    BY <1>4, Zenon DEF SignedQty, FlowOf
  <2>5. size \in Int /\ value \in Int /\ cost \in Int
    <3>1. t \in Fills
      BY <1>4
    <3>2. size \in Int /\ t.price \in Int /\ t.costs \in Parts
      BY <3>1 DEF Fills
    <3>3. value \in Int
      BY <3>2, Commute, Zenon
    <3> QED BY <3>2, <3>3, Zenon DEF Parts
  <2>6. j - 1 \in 0 .. n /\ j \in 0 .. n
    BY <1>3
  <2>7. x \in Int /\ y \in Int /\ z \in Int
    BY <1>6, <1>7, <1>8, <2>6, Zenon
  <2>8. NetUnits(b) = x /\ Flowed(b) = y /\ CostsIn(b, c) = z /\ OneSided(b)
    BY <2>1, Zenon DEF Tallies
  <2> HIDE DEF a, b, x, y, z, size, value, cost, moved, flow
  <2>9. NetUnits(a) = x + moved /\ Flowed(a) = y + flow
    <3>1. CASE t.side = "BUY"
      <4>1. moved = size /\ flow = -value /\ NetUnits(a) = x + size /\ Flowed(a) = y - value
        BY <2>2, <2>4, <2>8, <3>1, Zenon
      <4> QED BY <2>5, <2>7, <4>1
    <3>2. CASE t.side # "BUY"
      <4>1. moved = -size /\ flow = value /\ NetUnits(a) = x - size /\ Flowed(a) = y + value
        BY <2>2, <2>4, <2>8, <3>2, Zenon
      <4> QED BY <2>5, <2>7, <4>1
    <3> QED BY <3>1, <3>2
  <2>10. Tallies(a, c, x + moved, y + flow, z + cost)
    BY <2>2, <2>8, <2>9, Zenon DEF Tallies
  <2> QED BY <2>3, <2>6, <2>10, Zenon DEF a
<1>12. n \in G
  <2> HIDE DEF G
  <2>1. Climbs(G, n)
    BY <1>10, <1>11, Zenon DEF Climbs
  <2>2. n \in 0 .. n
    BY <1>3
  <2> QED BY <1>3, <2>1, <2>2, TraceInduction, Zenon
<1>13. u[n] = SumOf(SignedQty, w) /\ v[n] = SumOf(FlowOf, w) /\ k[n] = SumOf(FeeOf(c), w)
  BY <1>6, <1>7, <1>8, Zenon DEF Accrues
<1>14. m \in Ledgers
  <2>1. n \in 0 .. n
    BY <1>3
  <2> QED BY <1>2, <2>1, Zenon
<1> QED BY <1>2, <1>12, <1>13, <1>14, Zenon DEF m

-----------------------------------------------------------------------------
(* The runner.                                                             *)

Orders == [side : Sides, bar : Int, date : Int]
Accounts == [cash : Int, qty : Int, mark : Int]

Typed ==
  /\ phase \in {"next", "fill", "mark", "evaluate", "sweep", "done"}
  /\ bars \in Nat /\ date \in Nat /\ candle \in Candles
  /\ pending \in Orders \cup {NoSignal} /\ account \in Accounts
  /\ trades \in Seq(Fills) /\ truncated \in BOOLEAN

(* A signal waits from the sweep of its bar to the fill at the next, and   *)
(* the account it was made for does not change in between.                 *)
PendingFits ==
  pending # NoSignal
  =>
  /\ phase \in {"sweep", "next", "fill"}
  /\ pending.side = IF Active THEN "SELL" ELSE "BUY"
  /\ pending.bar = IF phase = "fill" THEN bars - 1 ELSE bars
  /\ phase # "fill" \/ config.intraday => pending.date = date

(* Past the cutoff the strategy has just been told of the position.        *)
FlagFits == phase = "sweep" /\ Cutoff => (flag => Active)

IInv == Typed /\ PendingFits /\ FlagFits /\ LongUnlessTruncated /\ SessionsSeparate

-----------------------------------------------------------------------------
(* What a fill adds to the tape: a fill of the session it was ordered in.  *)
Timely(s) == \A i \in DOMAIN s : s[i].delay <= 1 /\ (config.intraday => ~s[i].overnight)

LEMMA TimelyAppend ==
  ASSUME NEW s \in Seq(Fills), NEW t \in Fills, Timely(s),
         t.delay <= 1, config.intraday => ~t.overnight
  PROVE  Append(s, t) \in Seq(Fills) /\ Timely(Append(s, t))
<1>1. /\ Append(s, t) \in Seq(Fills)
      /\ Len(Append(s, t)) = Len(s) + 1
      /\ \A i \in 1 .. Len(s) : Append(s, t)[i] = s[i]
      /\ Append(s, t)[Len(s) + 1] = t
  BY AppendProperties
<1>2. /\ DOMAIN s = 1 .. Len(s) /\ Len(s) \in Nat
      /\ DOMAIN Append(s, t) = 1 .. Len(s) + 1
  BY <1>1, LenProperties
<1>3. ASSUME NEW i \in DOMAIN Append(s, t)
      PROVE  Append(s, t)[i].delay <= 1 /\ (config.intraday => ~Append(s, t)[i].overnight)
  <2>1. i \in 1 .. Len(s) \/ i = Len(s) + 1
    BY <1>2, SMT
  <2>2. CASE i \in 1 .. Len(s)
    BY <1>1, <1>2, <2>2, Zenon DEF Timely
  <2>3. CASE i = Len(s) + 1
    BY <1>1, <2>3, Zenon
  <2> QED BY <2>1, <2>2, <2>3
<1> QED BY <1>1, <1>3, Zenon DEF Timely

(* The prices and quantities of a bar are whole numbers. *)
LEMMA CandleTyped ==
  ASSUME Typed
  PROVE  /\ candle.open \in Nat /\ candle.close \in Nat /\ candle.high \in Nat
         /\ candle.low \in Nat /\ candle.allowed \in Nat
         /\ Qty \in Nat \ {0} /\ Spread \in Nat /\ Fee \in Nat /\ Capital \in Nat
BY BacktestAssumption, AccountAssumption DEF Typed

(* What a fill keeps of the order it executes. *)
Records(t, order, n, price) ==
  /\ t \in Fills /\ t.delay = bars - order.bar /\ t.overnight = (date # order.date)
  /\ t.side = order.side /\ t.qty = n /\ t.price = price /\ t.costs["charges"] = Fee

LEMMA TradeTyped ==
  ASSUME Typed, NEW order \in Orders, NEW n \in Nat \ {0}, NEW price \in Int, NEW slip \in Int
  PROVE  Records(Trade(order, n, price, slip), order, n, price)
<1> DEFINE costs == [charges |-> Fee, slippage |-> slip]
<1>1. bars - order.bar \in Int /\ order.side \in Sides /\ Fee \in Int
  BY CandleTyped, SMT DEF Typed, Orders
<1>2. costs \in Parts /\ costs["charges"] = Fee
  BY <1>1, SMT DEF Parts, Components
<1>3. Trade(order, n, price, slip) =
        [side |-> order.side, qty |-> n, price |-> price, costs |-> costs,
         delay |-> bars - order.bar, overnight |-> date # order.date]
  BY Zenon DEF Trade
<1> HIDE DEF costs
<1> QED BY <1>1, <1>2, <1>3, SMT DEF Fills, Records

LEMMA AccountUpdated ==
  ASSUME NEW a \in [cash : Int, qty : Int, mark : Int], NEW q \in Int, NEW c \in Int
  PROVE  /\ [a EXCEPT !.qty = q, !.cash = c] \in [cash : Int, qty : Int, mark : Int]
         /\ [a EXCEPT !.qty = q, !.cash = c].qty = q
         /\ [a EXCEPT !.qty = q, !.cash = c].cash = c
<1> DEFINE b == [a EXCEPT !.qty = q]
<1>1. b \in [cash : Int, qty : Int, mark : Int] /\ b.qty = q
  BY SMT
<1> HIDE DEF b
<1>2. /\ [b EXCEPT !.cash = c] \in [cash : Int, qty : Int, mark : Int]
      /\ [b EXCEPT !.cash = c].qty = q /\ [b EXCEPT !.cash = c].cash = c
  BY <1>1, SMT
<1>3. [a EXCEPT !.qty = q, !.cash = c] = [b EXCEPT !.cash = c]
  BY Zenon DEF b
<1> QED BY <1>2, <1>3, Zenon

LEMMA FilledTyped ==
  ASSUME Typed, NEW side \in Sides, NEW n \in Int, NEW price \in Int
  PROVE  /\ Filled(account, side, n, price) \in Accounts
         /\ Filled(account, side, n, price).qty =
              IF side = "BUY" THEN account.qty + n ELSE account.qty - n
         /\ Filled(account, side, n, price).cash =
              IF side = "BUY" THEN (account.cash - n * price) - Fee
              ELSE (account.cash + n * price) - Fee
<1>1. Sign(side) * n = IF side = "BUY" THEN n ELSE -n
  BY SMT DEF Sign, Sides
<1>2. Sign(side) * n \in Int
  BY <1>1, SMT
<1>3. /\ account.cash - Sign(side) * n * price - Fee \in Int
      /\ account.cash - Sign(side) * n * price - Fee =
           IF side = "BUY" THEN (account.cash - n * price) - Fee
           ELSE (account.cash + n * price) - Fee
  <2>1. /\ Sign(side) * n * price = IF side = "BUY" THEN n * price ELSE -(n * price)
        /\ n * price \in Int
    <3>1. (-n) * price = -(n * price) /\ n * price \in Int
      BY SMT
    <3> QED BY <1>1, <3>1, Zenon
  <2>2. account.cash \in Int /\ Fee \in Int
    BY CandleTyped, SMT DEF Typed, Accounts
  <2> DEFINE v == n * price
             w == Sign(side) * n * price
  <2> HIDE DEF v, w
  <2>3. v \in Int /\ w = (IF side = "BUY" THEN v ELSE -v)
    BY <2>1, Zenon DEF v, w
  <2>4. /\ account.cash - w - Fee \in Int
        /\ account.cash - w - Fee = IF side = "BUY" THEN (account.cash - v) - Fee
                                   ELSE (account.cash + v) - Fee
    BY <2>2, <2>3
  <2> QED BY <2>4, Zenon DEF v, w
<1>4. account.qty + Sign(side) * n =
        IF side = "BUY" THEN account.qty + n ELSE account.qty - n
  BY <1>1, SMT DEF Typed, Accounts
<1> DEFINE quantity == account.qty + Sign(side) * n
           cash == account.cash - Sign(side) * n * price - Fee
<1>5. Filled(account, side, n, price) = [account EXCEPT !.qty = quantity, !.cash = cash]
  BY DEF Filled
<1>6. /\ quantity = (IF side = "BUY" THEN account.qty + n ELSE account.qty - n)
      /\ cash \in Int
      /\ cash = IF side = "BUY" THEN (account.cash - n * price) - Fee
                ELSE (account.cash + n * price) - Fee
  BY <1>3, <1>4, Zenon
<1>7. account \in [cash : Int, qty : Int, mark : Int] /\ quantity \in Int
  BY <1>6, SMT DEF Typed, Accounts
<1> HIDE DEF quantity, cash
<1>8. [account EXCEPT !.qty = quantity, !.cash = cash] \in [cash : Int, qty : Int, mark : Int]
      /\ [account EXCEPT !.qty = quantity, !.cash = cash].qty = quantity
      /\ [account EXCEPT !.qty = quantity, !.cash = cash].cash = cash
  BY <1>6, <1>7, AccountUpdated, Zenon
<1> QED BY <1>5, <1>6, <1>8, Zenon DEF Accounts

(* An order that is not refused is of one unit at least. *)
LEMMA OrderQtyTyped ==
  ASSUME Typed, NEW side, NEW price, ~Refused(side, price)
  PROVE  OrderQty \in Nat \ {0} /\ OrderQty \in Int /\ (OrderQty < Qty \/ OrderQty = Qty)
<1>1. ~Starved
  BY Zenon DEF Refused
<1>2. candle.allowed >= Qty \/ candle.allowed # 0
  BY <1>1, CandleTyped, SMT DEF Starved
<1> QED BY <1>2, CandleTyped, SMT DEF OrderQty, Lesser

-----------------------------------------------------------------------------
(* An order that meets the account it was made for either leaves it as it  *)
(* is or moves it from flat to long or back, by the whole quantity unless  *)
(* it is cut.                                                              *)
LEMMA Executed ==
  ASSUME Typed, LongUnlessTruncated, Timely(trades),
         NEW order \in Orders, NEW price \in Nat, Execute(order, price),
         order.side = IF Active THEN "SELL" ELSE "BUY",
         config' = config, bars - order.bar <= 1, config.intraday => order.date = date
  PROVE  /\ account' \in Accounts /\ trades' \in Seq(Fills) /\ Timely(trades)'
         /\ ~truncated' => account'.qty \in {0, Qty}
<1> DEFINE at == Effective(order.side, price)
<1>1. CASE UNCHANGED <<account, trades, truncated>>
  BY <1>1 DEF Typed, LongUnlessTruncated, Timely
<1>2. CASE /\ ~Refused(order.side, price)
           /\ account' = Filled(account, order.side, OrderQty, at)
           /\ trades' = Append(trades, Trade(order, OrderQty, at, Abs(at - price)))
           /\ truncated' = (truncated \/ OrderQty < Qty)
  <2>1. order.side \in Sides
    BY DEF Orders
  <2>2. OrderQty \in Nat \ {0} /\ OrderQty \in Int /\ (OrderQty < Qty \/ OrderQty = Qty)
    BY <1>2, OrderQtyTyped
  <2>3. at \in Int
    BY <2>1, CandleTyped, SMT DEF Effective, RawPrice, Sign, Sides, Lesser, Greater
  <2> HIDE DEF at
  <2>4. Abs(at - price) \in Int
    BY <2>3, SMT DEF Abs
  <2>5. /\ account' \in Accounts
        /\ account'.qty = IF order.side = "BUY" THEN account.qty + OrderQty
                          ELSE account.qty - OrderQty
    BY <1>2, <2>1, <2>2, <2>3, FilledTyped, Zenon
  <2>6. ASSUME ~truncated'
        PROVE  account'.qty \in {0, Qty}
    <3>1. OrderQty = Qty /\ account.qty \in {0, Qty}
      BY <1>2, <2>2, <2>6, Zenon DEF LongUnlessTruncated
    <3> QED BY <2>5, <3>1, CandleTyped, SMT DEF Active
  <2>7. Append(trades, Trade(order, OrderQty, at, Abs(at - price))) \in Seq(Fills)
        /\ Timely(Append(trades, Trade(order, OrderQty, at, Abs(at - price))))
    <3> DEFINE t == Trade(order, OrderQty, at, Abs(at - price))
    <3>1. Records(t, order, OrderQty, at)
      BY <2>2, <2>3, <2>4, TradeTyped, Zenon
    <3>2. t \in Fills /\ t.delay <= 1 /\ (config.intraday => ~t.overnight)
      BY <3>1 DEF Records
    <3> HIDE DEF t
    <3>3. Append(trades, t) \in Seq(Fills) /\ Timely(Append(trades, t))
      BY <3>1, <3>2, TimelyAppend DEF Typed
    <3> QED BY <3>3 DEF t
  <2>8. config' = config => Timely(trades)'
    BY <1>2, <2>7, Zenon DEF Timely
  <2> QED BY <1>2, <2>5, <2>6, <2>7, <2>8
<1> QED BY <1>1, <1>2 DEF Execute
-----------------------------------------------------------------------------
(* A signal that is pending is an order, made at this bar or, when it is   *)
(* due, at the bar before.                                                 *)
LEMMA PendingIsOrder ==
  ASSUME IInv, phase = "fill", pending # NoSignal
  PROVE  /\ pending \in Orders /\ pending.side = IF Active THEN "SELL" ELSE "BUY"
         /\ bars - pending.bar <= 1 /\ (config.intraday => pending.date = date)
<1>1. pending \in Orders /\ pending.bar = bars - 1 /\ bars \in Nat
  BY DEF IInv, Typed, PendingFits
<1>2. bars - pending.bar <= 1
  BY <1>1, SMT
<1> QED BY <1>1, <1>2, Zenon DEF IInv, PendingFits

LEMMA NewOrder ==
  ASSUME Typed
  PROVE  \A s \in Sides : /\ Order(s) \in Orders /\ Order(s) # NoSignal
                          /\ Order(s).side = s /\ Order(s).bar = bars /\ Order(s).date = date
BY SMT DEF Typed, Order, Orders, NoSignal, Sides

LEMMA InitEstablishes == Init => IInv
<1> SUFFICES ASSUME Init PROVE IInv
  OBVIOUS
<1>1. candle \in Candles
  BY BacktestAssumption DEF Init
<1>2. account \in Accounts /\ account.qty = 0
  BY AccountAssumption, SMT DEF Init, Opening, Accounts
<1>3. trades \in Seq(Fills) /\ DOMAIN trades = {}
  BY EmptySeq, SMT DEF Init
<1>4. Typed
  <2>1. 0 \in Nat
    BY SMT
  <2> QED BY <1>1, <1>2, <1>3, <2>1, Zenon DEF Init, Typed
<1>5. PendingFits /\ FlagFits /\ LongUnlessTruncated
  BY <1>2, SMT DEF Init, PendingFits, FlagFits, LongUnlessTruncated
<1>6. SessionsSeparate
  BY <1>2, <1>3, Zenon DEF Init, SessionsSeparate
<1> QED BY <1>4, <1>5, <1>6 DEF IInv

LEMMA NextBarPreserves ==
  ASSUME IInv, NEW c \in Candles, NEW isLate \in BOOLEAN, NEW newDate \in BOOLEAN,
         NextBar(c, isLate, newDate)
  PROVE  IInv'
<1>1. Typed'
  BY SMT DEF NextBar, Position, IInv, Typed
<1>2. pending' # NoSignal
      => pending' = pending /\ (config.intraday => date' = date)
  BY DEF NextBar, Cancels
<1>3. pending' # NoSignal => pending.bar = bars' - 1
  BY <1>2, SMT DEF NextBar, IInv, Typed, PendingFits
<1>4. PendingFits'
  BY <1>2, <1>3, Zenon DEF NextBar, Position, IInv, PendingFits, Active
<1>5. LongUnlessTruncated' /\ SessionsSeparate' /\ FlagFits'
  BY Zenon DEF NextBar, Position, IInv, LongUnlessTruncated, SessionsSeparate, FlagFits
<1> QED BY <1>1, <1>4, <1>5 DEF IInv

LEMMA FillPendingPreserves ==
  ASSUME IInv, FillPending
  PROVE  IInv'
<1>1. /\ account' \in Accounts /\ trades' \in Seq(Fills) /\ Timely(trades)'
      /\ ~truncated' => account'.qty \in {0, Qty}
      /\ truncated' \in BOOLEAN
  <2>1. Typed /\ LongUnlessTruncated /\ Timely(trades) /\ config' = config
    BY DEF IInv, SessionsSeparate, Timely, FillPending
  <2>2. CASE pending = NoSignal
    BY <2>1, <2>2, Zenon DEF FillPending, Position, Typed, LongUnlessTruncated, Timely
  <2>3. CASE pending # NoSignal
    <3>1. Execute(pending, candle.open) /\ candle.open \in Nat
      BY <2>1, <2>3, CandleTyped DEF FillPending
    <3>2. truncated' \in BOOLEAN
      BY <2>1, <3>1, Zenon DEF Execute, Typed
    <3> QED BY <2>1, <2>3, <3>1, <3>2, PendingIsOrder, Executed DEF FillPending
  <2> QED BY <2>2, <2>3
<1>2. Typed'
  BY <1>1 DEF FillPending, Calendar, IInv, Typed
<1>3. PendingFits' /\ FlagFits'
  BY DEF FillPending, PendingFits, FlagFits
<1>4. LongUnlessTruncated' /\ SessionsSeparate'
  BY <1>1 DEF FillPending, LongUnlessTruncated, SessionsSeparate, Timely
<1> QED BY <1>2, <1>3, <1>4 DEF IInv

LEMMA MarkPreserves ==
  ASSUME IInv, Mark
  PROVE  IInv'
<1>1. account' \in Accounts /\ account'.qty = account.qty
  <2>1. account' = [account EXCEPT !.mark = candle.close]
    BY DEF Mark, Marked
  <2>2. account \in [cash : Int, qty : Int, mark : Int] /\ candle.close \in Int
    BY CandleTyped, SMT DEF IInv, Typed, Accounts
  <2> QED BY <2>1, <2>2, SMT DEF Accounts
<1>2. Typed'
  BY <1>1 DEF Mark, Calendar, IInv, Typed
<1>3. pending = NoSignal
  BY DEF Mark, IInv, PendingFits
<1>4. PendingFits' /\ FlagFits' /\ SessionsSeparate' /\ LongUnlessTruncated'
  BY <1>1, <1>3 DEF Mark, Calendar, IInv, PendingFits, FlagFits, SessionsSeparate,
     LongUnlessTruncated
<1> QED BY <1>2, <1>4 DEF IInv

LEMMA EvaluatePreserves ==
  ASSUME IInv, NEW signals \in BOOLEAN, Evaluate(signals)
  PROVE  IInv'
<1> DEFINE order == Order(IF Active THEN "SELL" ELSE "BUY")
<1>1. /\ order \in Orders /\ order # NoSignal /\ order.side = IF Active THEN "SELL" ELSE "BUY"
      /\ order.bar = bars /\ order.date = date
  BY NewOrder, Zenon DEF IInv, Typed, Sides
<1>2. Typed /\ LongUnlessTruncated /\ Timely(trades) /\ config' = config /\ pending = NoSignal
  BY DEF IInv, SessionsSeparate, PendingFits, Timely, Evaluate
<1> HIDE DEF order
<1>3. CASE UNCHANGED <<account, trades, truncated>> /\ pending' \in {NoSignal, order}
           /\ (Cutoff => flag' = Active)
  <2>1. Typed'
    BY <1>1, <1>2, <1>3, Zenon DEF Evaluate, Calendar, Typed
  <2>2. PendingFits'
    BY <1>1, <1>3, Zenon DEF Evaluate, Calendar, PendingFits, Active
  <2>3. FlagFits' /\ LongUnlessTruncated' /\ SessionsSeparate'
    BY <1>2, <1>3, Zenon DEF Evaluate, Calendar, FlagFits, Active, Cutoff, LongUnlessTruncated,
       SessionsSeparate, Timely
  <2> QED BY <2>1, <2>2, <2>3 DEF IInv
<1>4. CASE signals /\ Execute(order, candle.close) /\ UNCHANGED pending
  <2>1. candle.close \in Nat /\ bars - order.bar <= 1
    BY <1>1, <1>2, CandleTyped, SMT DEF Typed
  <2>2. /\ account' \in Accounts /\ trades' \in Seq(Fills) /\ Timely(trades)'
        /\ ~truncated' => account'.qty \in {0, Qty}
    BY <1>1, <1>2, <1>4, <2>1, Executed
  <2>3. truncated' \in BOOLEAN
    BY <1>2, <1>4, Zenon DEF Execute, Typed
  <2>4. Typed' /\ PendingFits'
    BY <1>2, <1>4, <2>2, <2>3, Zenon DEF Evaluate, Calendar, Typed, PendingFits
  <2>5. FlagFits' /\ LongUnlessTruncated' /\ SessionsSeparate'
    BY <1>4, <2>2, Zenon DEF Evaluate, Calendar, FlagFits, Cutoff, LongUnlessTruncated,
       SessionsSeparate, Timely
  <2> QED BY <2>4, <2>5 DEF IInv
<1> QED BY <1>2, <1>3, <1>4, Zenon DEF Evaluate, order

(* An open position is closed by an order of one unit at least. *)
LEMMA CloseTyped ==
  ASSUME Typed, account.qty # 0
  PROVE  CloseSide(account.qty) \in Sides /\ Abs(account.qty) \in Nat \ {0}
<1>1. account.qty \in Int
  BY DEF Typed, Accounts
<1>2. Abs(account.qty) \in Nat \ {0}
  BY <1>1, SMT DEF Abs
<1>3. CloseSide(account.qty) \in Sides
  BY Zenon DEF CloseSide, Sides
<1> QED BY <1>2, <1>3

(* What is squared off is exactly what is open. *)
LEMMA SquaredOff ==
  ASSUME Typed, Timely(trades), config' = config, account.qty # 0, SquareOff
  PROVE  /\ account' \in Accounts /\ account'.qty = 0 /\ ~flag'
         /\ trades' \in Seq(Fills) /\ Timely(trades)' /\ truncated' = truncated
<1> DEFINE order == Order(CloseSide(account.qty))
           n == Abs(account.qty)
           t == Trade(order, n, candle.close, 0)
<1>1. CloseSide(account.qty) \in Sides /\ n \in Nat \ {0} /\ n \in Int /\ candle.close \in Int
      /\ 0 \in Int
  BY CloseTyped, CandleTyped
<1>2. /\ order \in Orders /\ order.side = CloseSide(account.qty)
      /\ order.bar = bars /\ order.date = date
  BY <1>1, NewOrder, Zenon
<1>3. /\ account' = Filled(account, order.side, n, candle.close)
      /\ trades' = Append(trades, t) /\ flag' = FALSE /\ truncated' = truncated
  BY DEF SquareOff
<1> HIDE DEF order
<1>4. n = IF CloseSide(account.qty) = "BUY" THEN -account.qty ELSE account.qty
  BY SMT DEF CloseSide, Abs, Typed, Accounts
<1> HIDE DEF n
<1>5. t \in Fills /\ t.delay = bars - order.bar /\ t.overnight = (date # order.date)
  <2>1. Records(t, order, n, candle.close)
    BY <1>1, <1>2, TradeTyped
  <2> HIDE DEF t
  <2> QED BY <2>1, Zenon DEF Records
<1> HIDE DEF t
<1>6. t.delay <= 1 /\ ~t.overnight
  <2>1. bars - bars = 0 /\ 0 <= 1
    BY SMT DEF Typed
  <2> QED BY <1>2, <1>5, <2>1, Zenon
<1>7. trades' \in Seq(Fills) /\ Timely(trades')
  BY <1>3, <1>5, <1>6, TimelyAppend DEF Typed
<1>8. /\ account' \in Accounts
      /\ account'.qty = IF CloseSide(account.qty) = "BUY" THEN account.qty + n ELSE account.qty - n
  BY <1>1, <1>2, <1>3, FilledTyped
<1>9. account'.qty = 0
  BY <1>4, <1>8, SMT DEF Typed, Accounts
<1> QED BY <1>3, <1>7, <1>8, <1>9, Zenon DEF Timely

LEMMA SweepPreserves ==
  ASSUME IInv, Sweep
  PROVE  IInv'
<1>1. Typed /\ LongUnlessTruncated /\ Timely(trades) /\ config' = config
  BY DEF IInv, SessionsSeparate, Timely, Sweep
<1>2. CASE Cutoff /\ account.qty # 0
  <2>1. /\ account' \in Accounts /\ account'.qty = 0 /\ ~flag'
        /\ trades' \in Seq(Fills) /\ Timely(trades)' /\ truncated' = truncated
        /\ pending' = NoSignal
    BY <1>1, <1>2, SquaredOff DEF Sweep
  <2>2. Typed' /\ PendingFits' /\ FlagFits'
    BY <1>1, <2>1, Zenon DEF Sweep, Calendar, Typed, PendingFits, FlagFits
  <2>3. LongUnlessTruncated' /\ SessionsSeparate'
    BY <2>1, Zenon DEF LongUnlessTruncated, SessionsSeparate, Timely
  <2> QED BY <2>2, <2>3 DEF IInv
<1>3. CASE ~(Cutoff /\ account.qty # 0)
  <2>1. UNCHANGED Position /\ pending' \in {pending, NoSignal} /\ (Cutoff => pending' = NoSignal)
    BY <1>3 DEF Sweep
  <2>2. Typed' /\ FlagFits' /\ LongUnlessTruncated'
    BY <1>1, <2>1, Zenon DEF Sweep, Calendar, Position, Typed, FlagFits, LongUnlessTruncated
  <2>3. PendingFits'
    BY <2>1, Zenon DEF Sweep, Calendar, Position, IInv, PendingFits, Active
  <2>4. Cutoff => account.qty = 0 /\ ~flag
    BY <1>3, Zenon DEF IInv, FlagFits, Active, Sweep
  <2>5. SessionsSeparate'
    BY <1>1, <2>1, <2>4, Zenon DEF Sweep, Calendar, Position, Cutoff, SessionsSeparate, Timely
  <2> QED BY <2>2, <2>3, <2>5 DEF IInv
<1> QED BY <1>2, <1>3

LEMMA FinishPreserves ==
  ASSUME IInv, Finish
  PROVE  IInv'
<1>1. Typed' /\ PendingFits' /\ FlagFits'
  BY Zenon DEF Finish, Calendar, Position, IInv, Typed, PendingFits, FlagFits
<1>2. LongUnlessTruncated' /\ SessionsSeparate'
  BY Zenon DEF Finish, Calendar, Position, IInv, LongUnlessTruncated, SessionsSeparate
<1> QED BY <1>1, <1>2 DEF IInv

LEMMA StutterPreserves ==
  ASSUME IInv, UNCHANGED vars
  PROVE  IInv'
<1>1. Typed'
  BY Zenon DEF vars, Calendar, Position, IInv, Typed
<1>2. PendingFits' /\ FlagFits'
  BY Zenon DEF vars, Calendar, Position, IInv, PendingFits, FlagFits, Active, Cutoff
<1>3. LongUnlessTruncated' /\ SessionsSeparate'
  BY Zenon DEF vars, Calendar, Position, IInv, LongUnlessTruncated, SessionsSeparate
<1> QED BY <1>1, <1>2, <1>3 DEF IInv

LEMMA StepPreserves == IInv /\ [Next]_vars => IInv'
BY NextBarPreserves, FillPendingPreserves, MarkPreserves, EvaluatePreserves, SweepPreserves,
   FinishPreserves, StutterPreserves DEF Next

-----------------------------------------------------------------------------
(* The backtest keeps what relates a staged signal, the strategy's flag,   *)
(* the account and the tape at every step of its loop.                     *)
THEOREM Inductive == Spec => []IInv
BY InitEstablishes, StepPreserves, PTL DEF Spec

(* _process_signal_execution with a strategy that looks at the broker: long*)
(* or flat, in whole orders, unless the volume of a bar cut one.           *)
THEOREM LongOnly == Spec => []LongUnlessTruncated
<1>1. IInv => LongUnlessTruncated
  BY DEF IInv
<1> QED BY <1>1, Inductive, PTL

(* The session reset and the 15:15 sweep of run(): no fill of an intraday  *)
(* run is of another date than its signal, none is later than the next bar,*)
(* and past the cutoff nothing is left behind.                             *)
THEOREM SessionsAreSeparate == Spec => []SessionsSeparate
<1>1. IInv => SessionsSeparate
  BY DEF IInv
<1> QED BY <1>1, Inductive, PTL

-----------------------------------------------------------------------------
(* The broker's books.  Cash and quantity are what the tape comes to, at   *)
(* every step: the ledger, which is built of nothing but the tape, cannot  *)
(* but agree with them.                                                    *)
Balance(a, s) ==
  /\ a.qty = SumOf(SignedQty, s)
  /\ a.cash = (Capital + SumOf(FlowOf, s)) - SumOf(FeeOf("charges"), s)

Books == Balance(account, trades) /\ (phase = "done" => ledger = LedgerOf(trades))

(* A fill moves the account as it moves the sums of the tape. *)
LEMMA FilledBalances ==
  ASSUME Typed, Balance(account, trades), NEW order \in Orders, NEW n \in Nat \ {0},
         NEW price \in Int, NEW slip \in Int
  PROVE  Balance(Filled(account, order.side, n, price),
                 Append(trades, Trade(order, n, price, slip)))
<1> DEFINE t == Trade(order, n, price, slip)
           a == Filled(account, order.side, n, price)
           value == n * price
           moved == SumOf(SignedQty, trades)
           flow == SumOf(FlowOf, trades)
           fees == SumOf(FeeOf("charges"), trades)
<1>1. /\ order.side \in Sides /\ n \in Int /\ "charges" \in Components
      /\ account.cash \in Int /\ account.qty \in Int /\ Fee \in Int /\ Capital \in Int
      /\ trades \in Seq(Fills)
  BY CandleTyped, SMT DEF Orders, Components, Typed, Accounts
<1>2. /\ t \in Fills /\ t.side = order.side /\ t.qty = n /\ t.price = price
      /\ t.costs["charges"] = Fee
  <2>1. Records(t, order, n, price)
    BY TradeTyped, Zenon
  <2> HIDE DEF t
  <2> QED BY <2>1, Zenon DEF Records
<1>3. /\ a.qty = IF order.side = "BUY" THEN account.qty + n ELSE account.qty - n
      /\ a.cash = IF order.side = "BUY" THEN (account.cash - value) - Fee
                  ELSE (account.cash + value) - Fee
  BY <1>1, FilledTyped
<1> HIDE DEF t, a
<1>4. /\ SignedQty \in [Fills -> Int] /\ FlowOf \in [Fills -> Int]
      /\ FeeOf("charges") \in [Fills -> Int]
  BY <1>1, TapeMeasures, Zenon
<1>5. moved \in Int /\ flow \in Int /\ fees \in Int
  BY <1>1, <1>4, SumInt, Zenon
<1>6. /\ SumOf(SignedQty, Append(trades, t)) = moved + SignedQty[t]
      /\ SumOf(FlowOf, Append(trades, t)) = flow + FlowOf[t]
      /\ SumOf(FeeOf("charges"), Append(trades, t)) = fees + FeeOf("charges")[t]
  <2>1. t \in Fills /\ trades \in Seq(Fills)
    BY <1>1, <1>2
  <2>2. SumOf(SignedQty, Append(trades, t)) = moved + SignedQty[t]
    <3>1. SignedQty \in [Fills -> Int]
      BY <1>4, Zenon
    <3> QED BY <2>1, <3>1, SumAppend, Zenon
  <2>3. SumOf(FlowOf, Append(trades, t)) = flow + FlowOf[t]
    <3>1. FlowOf \in [Fills -> Int]
      BY <1>4, Zenon
    <3> QED BY <2>1, <3>1, SumAppend, Zenon
  <2>4. SumOf(FeeOf("charges"), Append(trades, t)) = fees + FeeOf("charges")[t]
    <3>1. FeeOf("charges") \in [Fills -> Int]
      BY <1>4, Zenon
    <3> QED BY <2>1, <3>1, SumAppend, Zenon
  <2> QED BY <2>2, <2>3, <2>4
<1>7. /\ SignedQty[t] = (IF order.side = "BUY" THEN n ELSE -n)
      /\ FlowOf[t] = (IF order.side = "BUY" THEN -value ELSE value)
      /\ FeeOf("charges")[t] = Fee
  BY <1>2, Zenon DEF SignedQty, FlowOf, FeeOf
<1>8. value \in Int
  BY <1>1, Commute, Zenon
<1>9. account.qty = moved /\ account.cash = (Capital + flow) - fees
  BY Zenon DEF Balance
<1> HIDE DEF value, moved, flow, fees
<1>10. CASE order.side = "BUY"
  <2>1. /\ a.qty = moved + n /\ a.cash = (((Capital + flow) - fees) - value) - Fee
        /\ SumOf(SignedQty, Append(trades, t)) = moved + n
        /\ SumOf(FlowOf, Append(trades, t)) = flow + (-value)
        /\ SumOf(FeeOf("charges"), Append(trades, t)) = fees + Fee
    BY <1>3, <1>6, <1>7, <1>9, <1>10, Zenon
  <2>2. (((Capital + flow) - fees) - value) - Fee = (Capital + (flow + (-value))) - (fees + Fee)
    BY <1>1, <1>5, <1>8
  <2>3. Balance(a, Append(trades, t))
    BY <2>1, <2>2, Zenon DEF Balance
  <2> QED BY <2>3, Zenon DEF a, t
<1>11. CASE order.side # "BUY"
  <2>1. /\ a.qty = moved - n /\ a.cash = (((Capital + flow) - fees) + value) - Fee
        /\ SumOf(SignedQty, Append(trades, t)) = moved + (-n)
        /\ SumOf(FlowOf, Append(trades, t)) = flow + value
        /\ SumOf(FeeOf("charges"), Append(trades, t)) = fees + Fee
    BY <1>3, <1>6, <1>7, <1>9, <1>11, Zenon
  <2>2. /\ (((Capital + flow) - fees) + value) - Fee = (Capital + (flow + value)) - (fees + Fee)
        /\ moved - n = moved + (-n)
    BY <1>1, <1>5, <1>8
  <2>3. Balance(a, Append(trades, t))
    BY <2>1, <2>2, Zenon DEF Balance
  <2> QED BY <2>3, Zenon DEF a, t
<1> QED BY <1>10, <1>11

LEMMA ExecuteBalances ==
  ASSUME Typed, Balance(account, trades), NEW order \in Orders, NEW price \in Nat,
         Execute(order, price)
  PROVE  Balance(account, trades)'
<1> DEFINE at == Effective(order.side, price)
           slip == Abs(at - price)
<1>1. CASE UNCHANGED <<account, trades>>
  BY <1>1, Zenon DEF Balance
<1>2. CASE /\ ~Refused(order.side, price)
           /\ account' = Filled(account, order.side, OrderQty, at)
           /\ trades' = Append(trades, Trade(order, OrderQty, at, slip))
  <2>1. OrderQty \in Nat \ {0}
    BY <1>2, OrderQtyTyped, Zenon
  <2>2. order.side \in Sides
    BY DEF Orders
  <2>3. at \in Int
    BY <2>2, CandleTyped, SMT DEF Effective, RawPrice, Sign, Sides, Lesser, Greater
  <2> HIDE DEF at
  <2>4. slip \in Int
    BY <2>3, SMT DEF Abs
  <2> HIDE DEF slip
  <2>5. Balance(account', trades')
    BY <1>2, <2>1, <2>3, <2>4, FilledBalances, Zenon
  <2> QED BY <2>5, Zenon DEF Balance
<1> QED BY <1>1, <1>2, Zenon DEF Execute

LEMMA SquareOffBalances ==
  ASSUME Typed, Balance(account, trades), account.qty # 0, SquareOff
  PROVE  Balance(account, trades)'
<1> DEFINE order == Order(CloseSide(account.qty))
           n == Abs(account.qty)
<1>1. CloseSide(account.qty) \in Sides /\ n \in Nat \ {0} /\ candle.close \in Int /\ 0 \in Int
  BY CloseTyped, CandleTyped
<1>2. order \in Orders
  BY <1>1, NewOrder, Zenon
<1>3. /\ account' = Filled(account, order.side, n, candle.close)
      /\ trades' = Append(trades, Trade(order, n, candle.close, 0))
  BY DEF SquareOff
<1> HIDE DEF order, n
<1>4. Balance(account', trades')
  BY <1>1, <1>2, <1>3, FilledBalances, Zenon
<1> QED BY <1>4, Zenon DEF Balance

LEMMA BooksInit == Init => Books
<1> SUFFICES ASSUME Init PROVE Books
  OBVIOUS
<1>1. /\ SumOf(SignedQty, <<>>) = 0 /\ SumOf(FlowOf, <<>>) = 0
      /\ SumOf(FeeOf("charges"), <<>>) = 0
  BY SumEmpty, Zenon
<1>2. account.qty = 0 /\ account.cash = Capital /\ trades = <<>> /\ phase = "next"
  BY SMT DEF Init, Opening
<1>3. Capital = (Capital + 0) - 0
  BY AccountAssumption
<1> QED BY <1>1, <1>2, <1>3, Zenon DEF Books, Balance

LEMMA BooksPreserved == IInv /\ Books /\ [Next]_vars => Books'
<1> SUFFICES ASSUME IInv, Books, [Next]_vars PROVE Books'
  OBVIOUS
<1>1. Typed /\ Balance(account, trades)
  BY Zenon DEF IInv, Books
<1>2. ASSUME NEW c \in Candles, NEW isLate \in BOOLEAN, NEW newDate \in BOOLEAN,
             NextBar(c, isLate, newDate)
      PROVE  Books'
  BY <1>1, <1>2, Zenon DEF NextBar, Position, Books, Balance
<1>3. CASE FillPending
  <2>1. Balance(account, trades)'
    <3>1. CASE pending = NoSignal
      BY <1>1, <1>3, <3>1, Zenon DEF FillPending, Position, Balance
    <3>2. CASE pending # NoSignal
      <4>1. Execute(pending, candle.open) /\ pending \in Orders /\ candle.open \in Nat
        BY <1>1, <1>3, <3>2, PendingIsOrder, CandleTyped DEF FillPending
      <4> QED BY <1>1, <4>1, ExecuteBalances, Zenon
    <3> QED BY <3>1, <3>2
  <2> QED BY <1>3, <2>1, Zenon DEF FillPending, Books
<1>4. CASE Mark
  <2>1. account' = [account EXCEPT !.mark = candle.close] /\ account \in Accounts
    BY <1>1, <1>4 DEF Mark, Marked, Typed
  <2>2. account'.qty = account.qty /\ account'.cash = account.cash
    BY <2>1 DEF Accounts
  <2> QED BY <1>1, <1>4, <2>2, Zenon DEF Mark, Books, Balance
<1>5. ASSUME NEW signals \in BOOLEAN, Evaluate(signals) PROVE Books'
  <2> DEFINE order == Order(IF Active THEN "SELL" ELSE "BUY")
  <2>1. order \in Orders
    BY <1>1, NewOrder, Zenon DEF Sides
  <2>2. candle.close \in Nat
    BY <1>1, CandleTyped
  <2> HIDE DEF order
  <2>3. UNCHANGED <<account, trades>> \/ Execute(order, candle.close)
    BY <1>5, Zenon DEF Evaluate, order
  <2>4. Balance(account, trades)'
    <3>1. CASE UNCHANGED <<account, trades>>
      BY <1>1, <3>1, Zenon DEF Balance
    <3>2. CASE Execute(order, candle.close)
      BY <1>1, <2>1, <2>2, <3>2, ExecuteBalances, Zenon
    <3> QED BY <2>3, <3>1, <3>2
  <2> QED BY <1>5, <2>4, Zenon DEF Evaluate, Books
<1>6. CASE Sweep
  <2>1. CASE Cutoff /\ account.qty # 0
    <3>1. SquareOff
      BY <1>6, <2>1, Zenon DEF Sweep
    <3>2. Balance(account, trades)'
      BY <1>1, <2>1, <3>1, SquareOffBalances, Zenon
    <3> QED BY <1>6, <3>2, Zenon DEF Sweep, Books
  <2>2. CASE ~(Cutoff /\ account.qty # 0)
    BY <1>1, <1>6, <2>2, Zenon DEF Sweep, Position, Books, Balance
  <2> QED BY <2>1, <2>2
<1>7. CASE Finish
  BY <1>1, <1>7, Zenon DEF Finish, Position, Books, Balance
<1>8. CASE UNCHANGED vars
  BY <1>1, <1>8, Zenon DEF vars, Position, Books, Balance
<1> QED BY <1>2, <1>3, <1>4, <1>5, <1>6, <1>7, <1>8, Zenon DEF Next

-----------------------------------------------------------------------------
(* What the open lots have gained at a price. *)
ProfitAt(k) == [l \in Held |-> l.qty * (k - l.price)]

LEMMA ProfitIs ==
  ASSUME NEW k \in Int, NEW w \in Seq(Held)
  PROVE  SumOf(ProfitAt(k), w) = k * SumOf(UnitsOf, w) - SumOf(WorthOf, w)
<1> DEFINE n == Len(w)
<1>1. n \in Nat /\ \A i \in 1 .. n : w[i] \in Held
  OBVIOUS
<1>2. ASSUME NEW l \in Held
      PROVE  /\ l.qty * (k - l.price) \in Int
             /\ l.qty * (k - l.price) = k * l.qty - l.qty * l.price
  <2>1. l.qty \in Int /\ l.price \in Int /\ k - l.price \in Int
    BY LotIs
  <2>2. /\ l.qty * (k - l.price) = (k - l.price) * l.qty /\ l.qty * (k - l.price) \in Int
        /\ l.price * l.qty = l.qty * l.price
    BY <2>1, Commute, Zenon
  <2>3. (k - l.price) * l.qty = k * l.qty - l.price * l.qty
    BY <2>1, Distribute
  <2> QED BY <2>2, <2>3, Zenon
<1>3. ProfitAt(k) \in [Held -> Int] /\ UnitsOf \in [Held -> Int] /\ WorthOf \in [Held -> Int]
  BY <1>2, Measures, Zenon DEF ProfitAt
<1>4. PICK p \in [0 .. n -> Int] : Accrues(p, ProfitAt(k), w, n)
  <2>1. Accrued(ProfitAt(k), w, n)
    BY <1>3, SumTraced, Zenon
  <2> QED BY <2>1, Zenon DEF Accrued
<1>5. PICK u \in [0 .. n -> Int] : Accrues(u, UnitsOf, w, n)
  <2>1. Accrued(UnitsOf, w, n)
    BY <1>3, SumTraced, Zenon
  <2> QED BY <2>1, Zenon DEF Accrued
<1>6. PICK v \in [0 .. n -> Int] : Accrues(v, WorthOf, w, n)
  <2>1. Accrued(WorthOf, w, n)
    BY <1>3, SumTraced, Zenon
  <2> QED BY <2>1, Zenon DEF Accrued
<1> HIDE DEF n
<1> DEFINE G == {j \in 0 .. n : p[j] = k * u[j] - v[j]}
<1>7. 0 \in G
  <2>1. p[0] = 0 /\ u[0] = 0 /\ v[0] = 0
    BY <1>4, <1>5, <1>6, Zenon DEF Accrues
  <2>2. 0 \in 0 .. n /\ 0 = k * 0 - 0
    BY <1>1
  <2> QED BY <2>1, <2>2, Zenon
<1>8. ASSUME NEW j \in 1 .. n, j - 1 \in G PROVE j \in G
  <2> DEFINE lot == w[j]
             x == u[j - 1]
             y == v[j - 1]
             q == lot.qty
             value == lot.qty * lot.price
  <2>1. j - 1 \in 0 .. n /\ j \in 0 .. n /\ lot \in Held
    BY <1>1
  <2>2. x \in Int /\ y \in Int /\ q \in Int /\ value \in Int
    <3>1. x \in Int /\ y \in Int
      BY <1>5, <1>6, <2>1, Zenon
    <3>2. UnitsOf[lot] \in Int /\ WorthOf[lot] \in Int
      BY <1>3, <2>1, Zenon
    <3> QED BY <2>1, <3>1, <3>2, Measured, Zenon
  <2>3. p[j - 1] = k * x - y
    BY <1>8, Zenon
  <2>4. ProfitAt(k)[lot] = k * q - value /\ UnitsOf[lot] = q /\ WorthOf[lot] = value
    BY <1>2, <2>1, Measured, Zenon DEF ProfitAt
  <2>5. p[j] = (k * x - y) + (k * q - value) /\ u[j] = x + q /\ v[j] = y + value
    BY <1>4, <1>5, <1>6, <2>3, <2>4, Zenon DEF Accrues
  <2> HIDE DEF x, y, q, value
  <2>6. k * (x + q) = k * x + k * q /\ k * x \in Int /\ k * q \in Int
    BY <2>2
  <2> DEFINE a == k * x
             b == k * q
  <2>7. (a - y) + (b - value) = (a + b) - (y + value)
    <3>1. a \in Int /\ b \in Int
      BY <2>6, Zenon
    <3> HIDE DEF a, b
    <3> QED BY <2>2, <3>1
  <2>8. p[j] = k * u[j] - v[j]
    BY <2>5, <2>6, <2>7, Zenon
  <2> QED BY <2>1, <2>8, Zenon
<1>9. n \in G
  <2> HIDE DEF G
  <2>1. Climbs(G, n)
    BY <1>7, <1>8, Zenon DEF Climbs
  <2>2. n \in 0 .. n
    BY <1>1
  <2> QED BY <1>1, <2>1, <2>2, TraceInduction, Zenon
<1>10. /\ p[n] = SumOf(ProfitAt(k), w) /\ u[n] = SumOf(UnitsOf, w)
       /\ v[n] = SumOf(WorthOf, w)
  BY <1>4, <1>5, <1>6, Zenon DEF Accrues
<1> QED BY <1>9, <1>10, Zenon

(* The sums the property speaks of. *)
LEMMA OpenSums ==
  ASSUME NEW w \in Seq(Held)
  PROVE  /\ Units(w) = SumOf(UnitsOf, w)
         /\ OpenProfit(w) = SumOf(ProfitAt(account.mark), w)
         /\ \A c \in Components : Costs(c, w) = SumOf(CostIn(c), w)
<1>1. \A i \in DOMAIN w : w[i] \in Held
  OBVIOUS
<1>2. /\ \A i \in DOMAIN w : UnitsOf[w[i]] = w[i].qty
      /\ \A i \in DOMAIN w : ProfitAt(account.mark)[w[i]] = w[i].qty * (account.mark - w[i].price)
      /\ \A c \in Components, i \in DOMAIN w : CostIn(c)[w[i]] = w[i].costs[c]
  BY <1>1, Zenon DEF UnitsOf, ProfitAt, CostIn
<1>3. Units(w) = SumOf(UnitsOf, w)
  BY <1>2, Zenon DEF Units, Sum, SumOf
<1>4. OpenProfit(w) = SumOf(ProfitAt(account.mark), w)
  BY <1>2, Zenon DEF OpenProfit, Sum, SumOf
<1>5. ASSUME NEW c \in Components PROVE Costs(c, w) = SumOf(CostIn(c), w)
  BY <1>2, Zenon DEF Costs, Sum, SumOf
<1> QED BY <1>3, <1>4, <1>5

LEMMA ClosedSums ==
  ASSUME NEW w \in Seq(Closings)
  PROVE  /\ Sum(LAMBDA rt : rt.gross, w) = SumOf(GrossOf, w)
         /\ \A c \in Components : Costs(c, w) = SumOf(PaidIn(c), w)
<1>1. \A i \in DOMAIN w : w[i] \in Closings
  OBVIOUS
<1>2. /\ \A i \in DOMAIN w : GrossOf[w[i]] = w[i].gross
      /\ \A c \in Components, i \in DOMAIN w : PaidIn(c)[w[i]] = w[i].costs[c]
  BY <1>1, Zenon DEF GrossOf, PaidIn
<1>3. Sum(LAMBDA rt : rt.gross, w) = SumOf(GrossOf, w)
  BY <1>2, Zenon DEF Sum, SumOf
<1>4. ASSUME NEW c \in Components PROVE Costs(c, w) = SumOf(PaidIn(c), w)
  BY <1>2, Zenon DEF Costs, Sum, SumOf
<1> QED BY <1>3, <1>4

LEMMA TapeSums ==
  ASSUME NEW w \in Seq(Fills), NEW c \in Components
  PROVE  Costs(c, w) = SumOf(FeeOf(c), w)
<1>1. \A i \in DOMAIN w : w[i] \in Fills
  OBVIOUS
<1>2. \A i \in DOMAIN w : FeeOf(c)[w[i]] = w[i].costs[c]
  BY <1>1, Zenon DEF FeeOf
<1> QED BY <1>2, Zenon DEF Costs, Sum, SumOf

LEMMA Reconciled == IInv /\ Books => LedgerReconciles
<1> SUFFICES ASSUME IInv, Books, phase = "done"
             PROVE  /\ Units(ledger.long) - Units(ledger.short) = account.qty
                    /\ ledger.long = <<>> \/ ledger.short = <<>>
                    /\ Attributed("slippage") = Costs("slippage", trades)
                    /\ Gross - Attributed("charges") = NetProfit
  BY Zenon DEF LedgerReconciles
<1>1. /\ Balance(account, trades) /\ ledger = LedgerOf(trades) /\ trades \in Seq(Fills)
      /\ account \in Accounts /\ Capital \in Int
  BY CandleTyped DEF IInv, Typed, Books
<1>2. "charges" \in Components /\ "slippage" \in Components
  BY DEF Components
<1>3. /\ ledger \in Ledgers
      /\ \A c \in Components :
           Tallies(ledger, c, SumOf(SignedQty, trades), SumOf(FlowOf, trades), SumOf(FeeOf(c), trades))
  <2>1. trades \in Seq(Fills) /\ ledger = LedgerOf(trades)
    BY <1>1
  <2>2. LedgerOf(trades) \in Ledgers
    BY <1>2, <2>1, LedgerTallies, Zenon
  <2>3. ASSUME NEW c \in Components
        PROVE  Tallies(ledger, c, SumOf(SignedQty, trades), SumOf(FlowOf, trades),
                       SumOf(FeeOf(c), trades))
    BY <2>1, <2>3, LedgerTallies, Zenon
  <2> QED BY <2>1, <2>2, <2>3
<1>4. /\ ledger.long \in Seq(Held) /\ ledger.short \in Seq(Held)
      /\ ledger.closed \in Seq(Closings)
  BY <1>3, LedgerIs, Zenon
<1> DEFINE ul == SumOf(UnitsOf, ledger.long)
           us == SumOf(UnitsOf, ledger.short)
           wl == SumOf(WorthOf, ledger.long)
           ws == SumOf(WorthOf, ledger.short)
           gross == SumOf(GrossOf, ledger.closed)
           moved == SumOf(SignedQty, trades)
           flow == SumOf(FlowOf, trades)
           fees == SumOf(FeeOf("charges"), trades)
           mark == account.mark
<1>5. ul - us = moved /\ (gross - wl) + ws = flow /\ OneSided(ledger)
  BY <1>2, <1>3, Zenon DEF Tallies, NetUnits, Flowed
<1>6. /\ Units(ledger.long) - Units(ledger.short) = account.qty
      /\ ledger.long = <<>> \/ ledger.short = <<>>
  BY <1>1, <1>4, <1>5, OpenSums, Zenon DEF Balance, OneSided
<1>7. ASSUME NEW c \in Components PROVE Attributed(c) = SumOf(FeeOf(c), trades)
  <2>1. CostsIn(ledger, c) = SumOf(FeeOf(c), trades)
    BY <1>3, <1>7, Zenon DEF Tallies
  <2>2. /\ Costs(c, ledger.closed) = SumOf(PaidIn(c), ledger.closed)
        /\ Costs(c, ledger.long) = SumOf(CostIn(c), ledger.long)
        /\ Costs(c, ledger.short) = SumOf(CostIn(c), ledger.short)
    BY <1>4, <1>7, OpenSums, ClosedSums, Zenon
  <2> QED BY <2>1, <2>2, Zenon DEF Attributed, CostsIn
<1>8. Attributed("slippage") = Costs("slippage", trades)
  BY <1>1, <1>2, <1>7, TapeSums, Zenon
<1>9. /\ ul \in Int /\ us \in Int /\ wl \in Int /\ ws \in Int /\ gross \in Int
      /\ flow \in Int /\ fees \in Int /\ mark \in Int
  <2>1. ul \in Int /\ wl \in Int
    BY <1>2, <1>4, LotSums, Zenon
  <2>2. us \in Int /\ ws \in Int
    BY <1>2, <1>4, LotSums, Zenon
  <2>3. gross \in Int
    BY <1>2, <1>4, ClosingSums, Zenon
  <2>4. FlowOf \in [Fills -> Int] /\ FeeOf("charges") \in [Fills -> Int]
    BY <1>2, TapeMeasures, Zenon
  <2>5. flow \in Int /\ fees \in Int
    BY <1>1, <2>4, SumInt, Zenon
  <2>6. mark \in Int
    BY <1>1 DEF Accounts
  <2> QED BY <2>1, <2>2, <2>3, <2>5, <2>6, Zenon
<1>10. /\ OpenProfit(ledger.long) = mark * ul - wl
       /\ OpenProfit(ledger.short) = mark * us - ws
  BY <1>4, <1>9, OpenSums, ProfitIs, Zenon
<1>11. Gross = gross + ((mark * ul - wl) - (mark * us - ws))
  <2>1. Gross = Sum(LAMBDA rt : rt.gross, ledger.closed)
                  + (OpenProfit(ledger.long) - OpenProfit(ledger.short))
    BY Zenon DEF Gross
  <2> QED BY <1>4, <1>10, <2>1, ClosedSums, Zenon
<1>12. NetProfit = (((Capital + flow) - fees) + moved * mark) - Capital
  BY <1>1, Zenon DEF NetProfit, TotalCapital, Balance
<1>13. Attributed("charges") = fees
  BY <1>2, <1>7, Zenon
<1> HIDE DEF ul, us, wl, ws, gross, moved, flow, fees, mark
<1> DEFINE a == mark * ul
           b == mark * us
<1>14. moved * mark = a - b /\ a \in Int /\ b \in Int
  <2>1. (ul - us) * mark = ul * mark - us * mark
    <3>1. ul \in Int /\ us \in Int /\ mark \in Int
      BY <1>9
    <3> QED BY <3>1, Distribute
  <2>2. ul * mark = a /\ us * mark = b /\ a \in Int /\ b \in Int
    BY <1>9, Commute, Zenon
  <2> QED BY <1>5, <2>1, <2>2, Zenon
<1>15. Gross - Attributed("charges") = NetProfit
  <2>1. /\ Gross = gross + ((a - wl) - (b - ws))
        /\ NetProfit = (((Capital + flow) - fees) + (a - b)) - Capital
    BY <1>11, <1>12, <1>14, Zenon
  <2> HIDE DEF a, b
  <2>2. (gross + ((a - wl) - (b - ws))) - fees = (((Capital + flow) - fees) + (a - b)) - Capital
    BY <1>1, <1>5, <1>9, <1>14
  <2> QED BY <1>13, <2>1, <2>2, Zenon
<1> QED BY <1>6, <1>8, <1>15, Zenon

(* _build_roundtrip_trades against the broker's own books, at the end of   *)
(* every run: the lots left open are the position, the profit is the same, *)
(* and every unit of charges and slippage is borne by one roundtrip or lot.*)
THEOREM LedgerIsReconciled == Spec => []LedgerReconciles
<1>1. Spec => []Books
  BY Inductive, BooksInit, BooksPreserved, PTL DEF Spec
<1> QED BY <1>1, Inductive, Reconciled, PTL
=============================================================================
