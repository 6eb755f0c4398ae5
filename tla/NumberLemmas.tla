---------------------------- MODULE NumberLemmas ----------------------------
(***************************************************************************)
(* Facts about sets of naturals the other proofs use: least and greatest   *)
(* elements, what Min and Max of FiniteSetsExt return, sizes, sums,        *)
(* quotients and remainders.                                               *)
(***************************************************************************)
EXTENDS Integers, FiniteSetsExt, FiniteSetTheorems, TLAPS

(* A set of naturals has a least element: among the intervals from 0 to    *)
(* its elements, one is minimal with respect to inclusion.                 *)
LEMMA Least == ASSUME NEW S \in SUBSET Nat, S # {} PROVE \E m \in S : \A k \in S : m <= k
<1> PICK b \in S : TRUE
  OBVIOUS
<1> DEFINE T == {0 .. k : k \in S \cap (0 .. b)}
<1>1. IsFiniteSet(0 .. b)
  BY FS_Interval
<1>2. IsWellFoundedOn(StrictSubsetOrdering(0 .. b), SUBSET (0 .. b))
  BY <1>1, FS_StrictSubsetOrderingWellFounded, FS_FiniteSubsetsOfFinite
<1>3. T \subseteq SUBSET (0 .. b) /\ T # {}
  <2>1. b \in S \cap (0 .. b)
    OBVIOUS
  <2>2. \A k \in S \cap (0 .. b) : 0 .. k \subseteq 0 .. b
    OBVIOUS
  <2> QED
    BY <2>1, <2>2
<1>4. PICK x \in T : \A y \in T : ~(<<y, x>> \in StrictSubsetOrdering(0 .. b))
  <2> HIDE DEF T
  <2> QED
    BY <1>2, <1>3, WFMin
<1>5. PICK m \in S \cap (0 .. b) : x = 0 .. m
  OBVIOUS
<1>6. ASSUME NEW k \in S, k < m PROVE FALSE
  <2>1. k \in S \cap (0 .. b) /\ 0 .. k \subseteq 0 .. m /\ m \in 0 .. m /\ m \notin 0 .. k
    BY <1>6
  <2>2. 0 .. k \in T
    BY <2>1
  <2>3. 0 .. k \in SUBSET (0 .. b) /\ 0 .. m \in SUBSET (0 .. b) /\ 0 .. k # 0 .. m
    BY <2>1
  <2>4. <<0 .. k, 0 .. m>> \in StrictSubsetOrdering(0 .. b)
    BY <2>1, <2>3 DEF StrictSubsetOrdering
  <2> QED
    BY <1>4, <1>5, <2>2, <2>4
<1> QED
  BY <1>6

(* A finite set of naturals has a greatest element: among the sets of the  *)
(* elements above one of them, one is minimal, and so empty.               *)
LEMMA Greatest ==
  ASSUME NEW S \in SUBSET Nat, S # {}, IsFiniteSet(S)
  PROVE  \E m \in S : \A k \in S : k <= m
<1> DEFINE Above(m) == {k \in S : k > m}
           T == {Above(m) : m \in S}
<1>1. IsWellFoundedOn(StrictSubsetOrdering(S), SUBSET S)
  BY FS_StrictSubsetOrderingWellFounded, FS_FiniteSubsetsOfFinite
<1>2. T \subseteq SUBSET S /\ T # {}
  OBVIOUS
<1>3. PICK x \in T : \A y \in T : ~(<<y, x>> \in StrictSubsetOrdering(S))
  <2> HIDE DEF T
  <2> QED
    BY <1>1, <1>2, WFMin
<1>4. PICK m \in S : x = Above(m)
  OBVIOUS
<1>5. ASSUME NEW k \in S, k > m PROVE FALSE
  <2> k \in Nat /\ m \in Nat
    OBVIOUS
  <2>1. Above(k) \subseteq Above(m) /\ k \in Above(m) /\ k \notin Above(k)
    <3>1. k \in Above(m) /\ k \notin Above(k)
      BY <1>5
    <3>2. \A j \in S : j \in Nat /\ (j > k => j > m)
      BY <1>5
    <3> QED
      BY <3>1, <3>2
  <2>2. Above(k) \in T /\ Above(k) \in SUBSET S /\ Above(m) \in SUBSET S /\ Above(k) # Above(m)
    BY <2>1
  <2> HIDE DEF T, Above
  <2>3. <<Above(k), Above(m)>> \in StrictSubsetOrdering(S)
    BY <2>1, <2>2 DEF StrictSubsetOrdering
  <2> QED
    BY <1>3, <1>4, <2>2, <2>3
<1> QED
  BY <1>5

(* Min and Max of two numbers. *)
LEMMA MinOfTwo ==
  ASSUME NEW a \in Int, NEW b \in Int
  PROVE  Min({a, b}) \in Int /\ Min({a, b}) = IF a <= b THEN a ELSE b
<1> DEFINE P(x) == x \in {a, b} /\ \A y \in {a, b} : x =< y
<1>1. \E x : P(x)
  <2>1. CASE a <= b
    BY <2>1
  <2>2. CASE b <= a
    BY <2>2
  <2> QED BY <2>1, <2>2
<1>2. P(CHOOSE x \in {a, b} : \A y \in {a, b} : x =< y)
  BY <1>1
<1> QED BY <1>2 DEF Min

LEMMA MaxOfTwo ==
  ASSUME NEW a \in Int, NEW b \in Int
  PROVE  Max({a, b}) \in Int /\ Max({a, b}) = IF a <= b THEN b ELSE a
<1> DEFINE P(x) == x \in {a, b} /\ \A y \in {a, b} : x >= y
<1>1. \E x : P(x)
  <2>1. CASE a <= b
    BY <2>1
  <2>2. CASE b <= a
    BY <2>2
  <2> QED BY <2>1, <2>2
<1>2. P(CHOOSE x \in {a, b} : \A y \in {a, b} : x >= y)
  BY <1>1
<1> QED BY <1>2 DEF Max

(* Max of a set of naturals that some number bounds. *)
LEMMA MaxOfBounded ==
  ASSUME NEW n \in Nat, NEW S \in SUBSET (0 .. n), S # {}
  PROVE  Max(S) \in S /\ \A k \in S : k <= Max(S)
<1>1. IsFiniteSet(S) /\ S \in SUBSET Nat
  <2>1. IsFiniteSet(0 .. n)
    BY FS_Interval
  <2>2. IsFiniteSet(S)
    BY <2>1, FS_Subset
  <2> QED BY <2>2
<1>2. \E m \in S : \A k \in S : k <= m
  BY <1>1, Greatest
<1>3. \E m \in S : \A k \in S : m >= k
  BY <1>1, <1>2
<1>4. Max(S) \in S /\ \A k \in S : Max(S) >= k
  BY <1>3 DEF Max
<1> QED BY <1>1, <1>4

(* A set of numbers from 1 that has what is below its elements.            *)
LEMMA InitialSegment ==
  ASSUME NEW n \in Nat, NEW X \in SUBSET (1 .. n), \A a \in X : \A b \in 1 .. n : b < a => b \in X
  PROVE  Cardinality(X) \in 0 .. n /\ X = 1 .. Cardinality(X)
<1>1. CASE X = {}
  <2>1. Cardinality({}) = 0
    BY FS_EmptySet
  <2>2. 1 .. 0 = {} /\ 0 \in 0 .. n
    OBVIOUS
  <2> QED BY <1>1, <2>1, <2>2
<1>2. CASE X # {}
  <2>0. IsFiniteSet(X) /\ X \in SUBSET Nat
    <3>1. IsFiniteSet(1 .. n)
      BY FS_Interval
    <3>2. IsFiniteSet(X)
      BY <3>1, FS_Subset
    <3> QED BY <3>2
  <2>1. PICK g \in X : \A k \in X : k <= g
    BY <1>2, <2>0, Greatest
  <2>2. X = 1 .. g /\ g \in 1 .. n
    <3>1. g \in 1 .. n
      OBVIOUS
    <3>2. \A k \in 1 .. g : k = g \/ (k < g /\ k \in 1 .. n)
      BY <3>1
    <3>3. \A k \in X : k \in 1 .. g
      BY <2>1
    <3>4. \A k \in 1 .. g : k \in X
      BY <3>2
    <3> QED BY <3>1, <3>3, <3>4
  <2>3. Cardinality(1 .. g) = g
    BY <2>2, FS_Interval
  <2> QED BY <2>2, <2>3
<1> QED BY <1>1, <1>2

(* Sets whose elements correspond one to one are of one size.              *)
LEMMA OneToOne ==
  ASSUME NEW S, NEW T, IsFiniteSet(T), NEW f, \A x \in S : f[x] \in T,
         \A x, y \in S : f[x] = f[y] => x = y, \A t \in T : \E x \in S : f[x] = t
  PROVE  Cardinality(S) = Cardinality(T)
<1> PICK g : g = [x \in S |-> f[x]]
  OBVIOUS
<1>1. g \in Injection(S, T) /\ g \in Surjection(S, T)
  BY DEF Injection, Surjection, IsInjective
<1> QED BY <1>1, FS_Injection

-----------------------------------------------------------------------------
(* A recursive function of n steps: there is one, as a least bound up to   *)
(* which there is none cannot be.                                          *)
Recurs(g, n, a, step) ==
  g[0] = a /\ \A i \in 1 .. n : g[i] = step[i][g[i - 1]]

LEMMA StepsExist ==
  ASSUME NEW n \in Nat, NEW S, NEW a \in S, NEW step, step \in [1 .. n -> [S -> S]]
  PROVE  \E g \in [0 .. n -> S] : Recurs(g, n, a, step)
<1> DEFINE Bad == {k \in 0 .. n : ~(\E g \in [0 .. k -> S] : Recurs(g, k, a, step))}
<1> SUFFICES ASSUME Bad # {} PROVE FALSE
  <2>1. n \in 0 .. n /\ n \notin Bad => \E g \in [0 .. n -> S] : Recurs(g, n, a, step)
    OBVIOUS
  <2>2. n \in 0 .. n
    OBVIOUS
  <2> QED BY <2>1, <2>2
<1>1. PICK m \in Bad : \A k \in Bad : m <= k
  <2>1. Bad \in SUBSET Nat
    OBVIOUS
  <2> HIDE DEF Bad
  <2> QED BY <2>1, Least
<1>2. m # 0
  <2>1. ASSUME m = 0 PROVE FALSE
    <3>1. PICK h : h = [i \in 0 .. 0 |-> a]
      OBVIOUS
    <3>2. h \in [0 .. 0 -> S] /\ Recurs(h, 0, a, step)
      BY <3>1 DEF Recurs
    <3> QED BY <1>1, <2>1, <3>2
  <2> QED BY <2>1
<1>3. m \in Nat /\ m <= n /\ m - 1 \in 0 .. n /\ m - 1 \notin Bad /\ m - 1 \in Nat
  <2>1. m \in 0 .. n
    BY <1>1
  <2>2. m \in Nat /\ m <= n /\ m - 1 \in 0 .. n /\ m - 1 \in Nat /\ ~(m <= m - 1)
    BY <1>2, <2>1
  <2> HIDE DEF Bad
  <2> QED BY <1>1, <2>2
<1>4. PICK g \in [0 .. m - 1 -> S] : Recurs(g, m - 1, a, step)
  BY <1>3
<1>5. PICK h : h = [i \in 0 .. m |-> IF i = m THEN step[m][g[m - 1]] ELSE g[i]]
  OBVIOUS
<1>6. step[m][g[m - 1]] \in S
  <2>1. m - 1 \in 0 .. m - 1 /\ m \in 1 .. n
    BY <1>2, <1>3
  <2>2. g[m - 1] \in S
    BY <2>1
  <2> QED BY <2>1, <2>2
<1>7. h \in [0 .. m -> S]
  <2> SUFFICES ASSUME NEW i \in 0 .. m
               PROVE (IF i = m THEN step[m][g[m - 1]] ELSE g[i]) \in S
    BY <1>5
  <2>1. CASE i = m
    BY <1>6, <2>1
  <2>2. CASE i # m
    <3>1. i \in 0 .. m - 1
      BY <1>3, <2>2
    <3> QED BY <2>2, <3>1
  <2> QED BY <2>1, <2>2
<1>8. Recurs(h, m, a, step)
  <2>1. h[0] = a
    BY <1>2, <1>3, <1>4, <1>5 DEF Recurs
  <2>2. ASSUME NEW i \in 1 .. m PROVE h[i] = step[i][h[i - 1]]
    <3>1. i - 1 \in 0 .. m - 1 /\ h[i - 1] = g[i - 1]
      BY <1>3, <1>5
    <3>2. CASE i = m
      BY <1>5, <3>1, <3>2
    <3>3. CASE i # m
      <4>1. i \in 1 .. m - 1 /\ h[i] = g[i]
        BY <1>3, <1>5, <3>3
      <4> QED BY <1>4, <3>1, <4>1 DEF Recurs
    <3> QED BY <3>2, <3>3
  <2> QED BY <2>1, <2>2 DEF Recurs
<1> QED BY <1>1, <1>7, <1>8

(* Partial sums. *)
LEMMA SumsExist ==
  ASSUME NEW n \in Nat, NEW r, \A i \in 1 .. n : r[i] \in Nat
  PROVE  \E g : g = [i \in 0 .. n |-> IF i = 0 THEN 0 ELSE g[i - 1] + r[i]]
<1> PICK step : step = [i \in 1 .. n |-> [k \in Nat |-> k + r[i]]]
  OBVIOUS
<1>1. step \in [1 .. n -> [Nat -> Nat]]
  <2> SUFFICES ASSUME NEW i \in 1 .. n PROVE [k \in Nat |-> k + r[i]] \in [Nat -> Nat]
    OBVIOUS
  <2>1. PICK d \in Nat : d = r[i]
    OBVIOUS
  <2>2. [k \in Nat |-> k + d] \in [Nat -> Nat]
    OBVIOUS
  <2> QED BY <2>1, <2>2
<1>2. PICK g \in [0 .. n -> Nat] : g[0] = 0 /\ \A i \in 1 .. n : g[i] = step[i][g[i - 1]]
  <2> PICK S, a : S = Nat /\ a = 0
    OBVIOUS
  <2>1. a \in S /\ step \in [1 .. n -> [S -> S]]
    BY <1>1
  <2>2. \E g \in [0 .. n -> S] : Recurs(g, n, a, step)
    BY <2>1, StepsExist
  <2> QED BY <2>2 DEF Recurs
<1>3. ASSUME NEW i \in 1 .. n PROVE g[i] = g[i - 1] + r[i]
  <2>1. g[i - 1] \in Nat
    BY <1>2
  <2> QED BY <1>2, <2>1
<1>4. ASSUME NEW i \in 0 .. n PROVE g[i] = IF i = 0 THEN 0 ELSE g[i - 1] + r[i]
  BY <1>2, <1>3
<1>5. g = [i \in 0 .. n |-> g[i]]
  BY <1>2
<1>6. g = [i \in 0 .. n |-> IF i = 0 THEN 0 ELSE g[i - 1] + r[i]]
  BY <1>4, <1>5
<1> QED BY <1>6

LEMMA SumsValue ==
  ASSUME NEW n \in Nat, NEW r, \A i \in 1 .. n : r[i] \in Nat, NEW s,
         s = [i \in 0 .. n |-> IF i = 0 THEN 0 ELSE s[i - 1] + r[i]]
  PROVE  /\ s \in [0 .. n -> Nat]
         /\ \A i \in 1 .. n : s[i] = s[i - 1] + r[i]
         /\ \A i \in 0 .. n : \A k \in 0 .. i : s[k] <= s[i]
<1>1. /\ s[0] = 0
      /\ \A i \in 1 .. n : s[i] = s[i - 1] + r[i]
  <2>1. \A i \in 0 .. n : s[i] = IF i = 0 THEN 0 ELSE s[i - 1] + r[i]
    OBVIOUS
  <2>2. 0 \in 0 .. n /\ \A i \in 1 .. n : i \in 0 .. n /\ i # 0
    OBVIOUS
  <2> QED BY <2>1, <2>2, Zenon
<1>2. \A i \in 0 .. n : s[i] \in Nat
  <2> DEFINE S == {k \in 0 .. n : s[k] \notin Nat}
  <2> SUFFICES ASSUME S # {} PROVE FALSE
    OBVIOUS
  <2>1. PICK m \in S : \A k \in S : m <= k
    <3>1. S \in SUBSET Nat
      OBVIOUS
    <3> HIDE DEF S
    <3> QED BY <3>1, Least
  <2>2. m # 0
    BY <1>1, <2>1
  <2>3. m - 1 \in 0 .. n /\ m \in 1 .. n /\ m - 1 \notin S
    BY <2>1, <2>2
  <2> QED BY <1>1, <2>1, <2>3
<1>3. ASSUME NEW i \in 0 .. n, NEW k \in 0 .. i PROVE s[k] <= s[i]
  <2> DEFINE S == {j \in k .. n : s[j] < s[k]}
  <2> SUFFICES S = {}
    <3>1. i \in k .. n /\ k \in 0 .. n /\ s[i] \in Nat /\ s[k] \in Nat
      BY <1>2
    <3>2. ~(s[i] < s[k])
      BY <3>1
    <3> QED BY <3>1, <3>2
  <2> SUFFICES ASSUME S # {} PROVE FALSE
    OBVIOUS
  <2>1. PICK m \in S : \A j \in S : m <= j
    <3>1. S \in SUBSET Nat
      OBVIOUS
    <3> HIDE DEF S
    <3> QED BY <3>1, Least
  <2>2. k \in 0 .. n /\ s[k] \in Nat
    BY <1>2
  <2>3. m # k
    BY <2>1, <2>2
  <2>4. m - 1 \in k .. n /\ m \in 1 .. n /\ m - 1 \notin S /\ m - 1 \in 0 .. n
    <3>1. m \in k .. n
      BY <2>1
    <3>2. m - 1 \in k .. n /\ m \in 1 .. n /\ m - 1 \in 0 .. n /\ ~(m <= m - 1)
      BY <2>3, <3>1
    <3> HIDE DEF S
    <3> QED BY <2>1, <3>2
  <2> QED BY <1>1, <1>2, <2>1, <2>2, <2>4
<1>4. s \in [0 .. n -> Nat]
  BY <1>2
<1> QED BY <1>1, <1>3, <1>4

-----------------------------------------------------------------------------
(* Quotients and remainders. *)

LEMMA DivMod ==
  ASSUME NEW a \in Nat, NEW b \in Nat \ {0}
  PROVE  a \div b \in Nat /\ a % b \in 0 .. b - 1 /\ a = (a \div b) * b + (a % b)
BY SMT

LEMMA DivOrder ==
  ASSUME NEW b \in Nat \ {0}, NEW q \in Nat, NEW r \in 0 .. b - 1, NEW p \in Nat, NEW s \in 0 .. b - 1
  PROVE  q * b + r < p * b + s <=> (q < p \/ (q = p /\ r < s))
<1>1. ASSUME NEW x \in Nat, NEW y \in Nat, NEW u \in 0 .. b - 1, NEW w \in 0 .. b - 1, x < y
      PROVE x * b + u < y * b + w
  <2>1. PICK d \in Nat : y = x + 1 + d
    <3>1. y = x + 1 + (y - x - 1) /\ y - x - 1 \in Nat
      BY <1>1
    <3> QED BY <3>1
  <2>2. y * b = x * b + b + d * b
    BY <2>1
  <2>3. d * b \in Nat /\ x * b \in Nat
    OBVIOUS
  <2> QED BY <2>2, <2>3
<1>2. q * b \in Nat /\ p * b \in Nat
  OBVIOUS
<1>3. CASE q < p
  BY <1>1, <1>3
<1>4. CASE q = p
  BY <1>2, <1>4
<1>5. CASE p < q
  <2>1. p * b + s < q * b + r
    BY <1>1, <1>5
  <2> QED BY <1>2, <1>5, <2>1
<1> QED BY <1>3, <1>4, <1>5

LEMMA DivUnique ==
  ASSUME NEW b \in Nat \ {0}, NEW q \in Nat, NEW r \in 0 .. b - 1
  PROVE  (q * b + r) \div b = q /\ (q * b + r) % b = r
<1>1. PICK a \in Nat : a = q * b + r
  OBVIOUS
<1>2. PICK p, s : p = a \div b /\ s = a % b
  OBVIOUS
<1>3. p \in Nat /\ s \in 0 .. b - 1 /\ a = p * b + s
  BY <1>2, DivMod
<1>4. ~(q < p) /\ ~(p < q)
  BY <1>1, <1>3, DivOrder
<1>5. q = p
  BY <1>3, <1>4
<1>6. q * b \in Nat
  OBVIOUS
<1> QED BY <1>1, <1>2, <1>3, <1>5, <1>6

(* Multiplication keeps order, and division cuts at multiples. *)
LEMMA TimesOrder ==
  ASSUME NEW a \in Nat, NEW b \in Nat, NEW c \in Nat, a <= b
  PROVE  a * c <= b * c /\ a * c \in Nat /\ b * c \in Nat
<1>1. PICK d \in Nat : b = a + d
  <2>1. b = a + (b - a) /\ b - a \in Nat
    OBVIOUS
  <2> QED BY <2>1
<1>2. b * c = a * c + d * c
  BY <1>1
<1>3. d * c \in Nat /\ a * c \in Nat /\ b * c \in Nat
  OBVIOUS
<1> QED BY <1>2, <1>3

LEMMA DivLimit ==
  ASSUME NEW L \in Nat \ {0}, NEW q \in Nat, NEW n \in Nat
  PROVE  /\ n <= q * L => n \div L <= q
         /\ q * L <= n => q <= n \div L
<1>1. PICK p \in Nat, r \in 0 .. L - 1 : p = n \div L /\ n = p * L + r
  BY DivMod
<1>2. 0 \in 0 .. L - 1 /\ q * L + 0 = q * L /\ q * L \in Nat /\ p * L + 0 = p * L
  OBVIOUS
<1>3. (q * L + 0 < p * L + r <=> (q < p \/ (q = p /\ 0 < r)))
  BY <1>2, DivOrder
<1>4. (p * L + r < q * L + 0 <=> (p < q \/ (p = q /\ r < 0)))
  BY <1>2, DivOrder
<1>5. n <= q * L => ~(q < p)
  BY <1>1, <1>2, <1>3
<1>6. q * L <= n => ~(p < q)
  BY <1>1, <1>2, <1>4
<1> QED BY <1>1, <1>5, <1>6

(* Division keeps order. *)
LEMMA DivMonotone ==
  ASSUME NEW h \in Nat \ {0}, NEW a \in Nat, NEW b \in Nat, a <= b
  PROVE  a \div h <= b \div h
<1>1. a \div h \in Nat /\ a % h \in 0 .. h - 1 /\ a = (a \div h) * h + (a % h)
  BY DivMod
<1>2. b \div h \in Nat /\ b % h \in 0 .. h - 1 /\ b = (b \div h) * h + (b % h)
  BY DivMod
<1>3. PICK p \in Nat, q \in Nat : p = a \div h /\ q = b \div h
  BY <1>1, <1>2
<1>4. PICK r \in 0 .. h - 1, s \in 0 .. h - 1 : r = a % h /\ s = b % h
  BY <1>1, <1>2
<1>5. a = p * h + r /\ b = q * h + s
  BY <1>1, <1>2, <1>3, <1>4
<1>6. ASSUME q < p PROVE FALSE
  <2>1. q * h + s < p * h + r
    BY <1>6, DivOrder
  <2> QED BY <1>5, <2>1
<1>7. ~(q < p)
  BY <1>6
<1> QED BY <1>3, <1>7

(* m times h numbers: q h + l, by q and l.                                 *)
LEMMA PairRange ==
  ASSUME NEW m \in Nat, NEW h \in Nat \ {0}, NEW q \in 0 .. m - 1, NEW l \in 0 .. h - 1
  PROVE  q * h + l \in 0 .. m * h - 1
<1>1. (q + 1) * h <= m * h /\ m * h \in Nat /\ (q + 1) * h \in Nat
  BY TimesOrder
<1>2. (q + 1) * h = q * h + h
  OBVIOUS
<1>3. PICK x \in Nat : x = q * h
  OBVIOUS
<1>4. PICK y \in Nat : y = m * h
  BY <1>1
<1>5. x + h <= y
  BY <1>1, <1>2, <1>3, <1>4
<1>6. x + l \in 0 .. y - 1
  BY <1>5
<1> QED BY <1>3, <1>4, <1>6

LEMMA PairOf ==
  ASSUME NEW m \in Nat, NEW h \in Nat \ {0}, NEW g \in 0 .. m * h - 1
  PROVE  g \div h \in 0 .. m - 1 /\ g % h \in 0 .. h - 1 /\ g = (g \div h) * h + (g % h)
<1>1. PICK y \in Nat : y = m * h
  BY TimesOrder
<1>2. g \in Nat /\ g < y
  BY <1>1
<1>3. g \div h \in Nat /\ g % h \in 0 .. h - 1 /\ g = (g \div h) * h + (g % h)
  BY <1>2, DivMod
<1>4. PICK x \in Nat : x = g \div h
  BY <1>3
<1>5. x < m
  <2> SUFFICES ASSUME m <= x PROVE FALSE
    OBVIOUS
  <2>1. m * h <= x * h /\ x * h \in Nat
    BY TimesOrder
  <2>2. g >= x * h
    BY <1>3, <1>4, <2>1
  <2> QED BY <1>1, <1>2, <2>1, <2>2
<1> QED BY <1>3, <1>4, <1>5
=============================================================================
