------------------------ MODULE MetricSamplingProofs ------------------------
(***************************************************************************)
(* Theorems about MetricSampling, for any series, tables, budgets and row   *)
(* limit.                                                                   *)
(***************************************************************************)
EXTENDS MetricSampling, FiniteSetTheorems, TLAPS

-----------------------------------------------------------------------------
\* Integer division, as the code's rounding relies on it.

LEMMA Quotient ==
    ASSUME NEW a \in Nat, NEW d \in Nat \ {0}
    PROVE  a \div d \in Nat /\ d * (a \div d) <= a /\ a < d * (a \div d) + d
  OBVIOUS

LEMMA Product ==
    ASSUME NEW m \in Nat, NEW n \in Nat, NEW a \in Nat, m <= n
    PROVE  a * m \in Nat /\ a * n \in Nat /\ a * m <= a * n /\ m * a = a * m /\ n * a = a * n
  OBVIOUS

LEMMA Cancel ==
    ASSUME NEW m \in Int, NEW n \in Int, NEW a \in Nat \ {0}, a * m < a * n
    PROVE  m < n
  OBVIOUS

LEMMA QuotientIs ==
    ASSUME NEW a \in Nat, NEW d \in Nat \ {0}, NEW q \in Nat, d * q <= a, a < d * q + d
    PROVE  a \div d = q
<1> DEFINE p == a \div d
<1>1. p \in Nat /\ d * p <= a /\ a < d * p + d
  BY Quotient
<1> HIDE DEF p
<1>2. d * (q + 1) = d * q + d /\ d * (p + 1) = d * p + d
  BY <1>1
<1>3. d * p < d * (q + 1) /\ d * q < d * (p + 1)
  BY <1>1, <1>2
<1>4. p < q + 1 /\ q < p + 1
  BY <1>1, <1>3, Cancel
<1>5. p = q
  BY <1>1, <1>4
<1> QED
  BY <1>5 DEF p

LEMMA Remainder ==
    ASSUME NEW a \in Nat, NEW k \in Nat, k >= 2
    PROVE  /\ (a * k + 1) % k = 1
           /\ a % k = 1 => a = k * (a \div k) + 1
  OBVIOUS

\* A stride is long enough to leave no more points than asked for, and short
\* enough to leave half of them.
LEMMA StrideBounds ==
    ASSUME NEW c \in Nat, NEW b \in Nat \ {0}, b < c, NEW k, k = c \div b + 1
    PROVE  k \in Nat /\ k >= 2 /\ c < b * k /\ b * k <= 2 * c
<1>1. c \div b \in Nat /\ b * (c \div b) <= c /\ c < b * (c \div b) + b
  BY Quotient
<1> DEFINE q == c \div b
<1> HIDE DEF q
<1>2. k = q + 1 /\ q \in Nat /\ b * q <= c /\ c < b * q + b
  BY <1>1 DEF q
<1>3. b * k = b * q + b
  BY <1>2
<1>4. q # 0
  <2> SUFFICES ASSUME q = 0 PROVE FALSE
    OBVIOUS
  <2>1. b * q = 0
    BY <1>2
  <2> QED
    BY <1>2, <2>1
<1>5. b * k \in Nat
  BY <1>2
<1> QED
  BY <1>2, <1>3, <1>4, <1>5

\* The indices `downsample` takes: of len places, b with both ends, in order.
LEMMA Spread ==
    ASSUME NEW len \in Nat, NEW b \in Nat, b >= 2, b < len,
           NEW t \in 0..(b - 1)
    PROVE  /\ (t * (len - 1)) \div (b - 1) + 1 \in 1..len
           /\ t = 0 => (t * (len - 1)) \div (b - 1) + 1 = 1
           /\ t = b - 1 => (t * (len - 1)) \div (b - 1) + 1 = len
           /\ \A u \in 0..(b - 1) : t < u =>
                 (t * (len - 1)) \div (b - 1) < (u * (len - 1)) \div (b - 1)
           /\ t + 1 \in 0..(b - 1) /\ len = b + 1 =>
                 ((t + 1) * (len - 1)) \div (b - 1) <= (t * (len - 1)) \div (b - 1) + 2
<1> DEFINE m == len - 1
           d == b - 1
           P(u) == (u * m) \div d
<1>1. m \in Nat /\ d \in Nat \ {0} /\ d <= m /\ t \in Nat /\ t <= d
  OBVIOUS
<1> HIDE DEF m, d
<1>2. ASSUME NEW u \in Nat
      PROVE  /\ u * m \in Nat /\ P(u) \in Nat
             /\ d * P(u) <= u * m /\ u * m < d * P(u) + d
  <2>1. u * m \in Nat
    BY <1>1
  <2> QED
    BY <1>1, <2>1, Quotient
<1>3. P(t) <= m
  <2>1. t * m <= d * m
    BY <1>1, Product
  <2>2. d * P(t) <= d * m /\ d * (m + 1) = d * m + d /\ d * m \in Nat
    BY <1>1, <1>2, <2>1
  <2>3. d * P(t) < d * (m + 1)
    BY <1>1, <1>2, <2>2
  <2>4. P(t) < m + 1
    <3> HIDE DEF P
    <3> QED
      BY <1>1, <1>2, <2>3, Cancel
  <2> QED
    BY <1>1, <1>2, <2>4
<1>4. ASSUME t = 0 PROVE P(t) = 0
  <2>1. t * m = 0 /\ d * 0 = 0
    BY <1>1, <1>4
  <2> QED
    BY <1>1, <2>1, QuotientIs
<1>5. ASSUME t = d PROVE P(t) = m
  <2>1. t * m = d * m /\ d * m \in Nat
    BY <1>1, <1>5
  <2>2. d * m <= t * m /\ t * m < d * m + d /\ t * m \in Nat
    BY <1>1, <2>1
  <2> QED
    BY <1>1, <2>2, QuotientIs
<1>6. ASSUME NEW u \in Nat, t < u PROVE P(t) < P(u)
  <2>1. (t + 1) * m <= u * m /\ (t + 1) * m = t * m + m
    <3>1. t + 1 \in Nat /\ t + 1 <= u
      BY <1>1, <1>6
    <3> QED
      BY <1>1, <3>1, Product
  <2>2. d * P(t) + d < d * P(u) + d
    BY <1>1, <1>2, <2>1
  <2>3. d * P(t) < d * P(u)
    <3> HIDE DEF P
    <3> QED
      BY <1>1, <1>2, <2>2
  <2>4. P(t) \in Int /\ P(u) \in Int
    BY <1>1, <1>2
  <2> HIDE DEF P
  <2> QED
    BY <1>1, <2>3, <2>4, Cancel
<1>7. ASSUME m = d + 1 PROVE P(t + 1) <= P(t) + 2
  <2>1. t + 1 \in Nat /\ (t + 1) * m = t * m + m
    BY <1>1
  <2>2. m <= d + d
    BY <1>1, <1>7
  <2>3. d * P(t + 1) < d * P(t) + d + d + d
    BY <1>1, <1>2, <2>1, <2>2
  <2>4. d * (P(t) + 3) = d * P(t) + d + d + d
    <3> HIDE DEF P
    <3> QED
      BY <1>1, <1>2
  <2>5. P(t + 1) < P(t) + 3
    <3> HIDE DEF P
    <3> QED
      BY <1>1, <1>2, <2>1, <2>3, <2>4, Cancel
  <2> HIDE DEF P
  <2> QED
    BY <1>1, <1>2, <2>1, <2>5
<1>8. P(t) + 1 \in 1..len
  <2> HIDE DEF P
  <2> QED
    BY <1>1, <1>2, <1>3 DEF m
<1>9. t = 0 => P(t) + 1 = 1
  BY <1>4
<1>10. t = b - 1 => P(t) + 1 = len
  <2> HIDE DEF P
  <2> QED
    BY <1>1, <1>5 DEF m, d
<1>11. t + 1 \in 0..(b - 1) /\ len = b + 1 => P(t + 1) <= P(t) + 2
  <2> HIDE DEF P
  <2> QED
    BY <1>1, <1>7 DEF m, d
<1> QED
  BY <1>6, <1>8, <1>9, <1>10, <1>11 DEF m, d

-----------------------------------------------------------------------------
\* Places.

\* Rows in time order have the places from one to their number.
LEMMA Places ==
    ASSUME NEW rows \in SUBSET Nat, IsFiniteSet(rows)
    PROVE  /\ Cardinality(rows) \in Nat
           /\ \A i \in rows : Place(rows, i) \in 1..Cardinality(rows)
           /\ \A i, j \in rows : i < j <=> Place(rows, i) < Place(rows, j)
           /\ \A i, j \in rows : Place(rows, i) = Place(rows, j) => i = j
<1> DEFINE upTo(i) == {j \in rows : j <= i}
<1>1. Cardinality(rows) \in Nat
  BY FS_CardinalityType
<1>2. ASSUME NEW i \in rows
      PROVE  /\ IsFiniteSet(upTo(i)) /\ Cardinality(upTo(i)) \in Nat
             /\ Cardinality(upTo(i)) <= Cardinality(rows) /\ Cardinality(upTo(i)) # 0
  <2>1. upTo(i) \in SUBSET rows /\ i \in upTo(i)
    OBVIOUS
  <2> HIDE DEF upTo
  <2>2. IsFiniteSet(upTo(i)) /\ Cardinality(upTo(i)) <= Cardinality(rows)
    BY <2>1, FS_Subset
  <2> QED
    BY <2>1, <2>2, FS_CardinalityType, FS_EmptySet
<1>3. ASSUME NEW i \in rows, NEW j \in rows, i < j
      PROVE  Cardinality(upTo(i)) < Cardinality(upTo(j))
  <2>1. upTo(i) \in SUBSET upTo(j) /\ j \in upTo(j) /\ j \notin upTo(i)
    <3>1. i \in Nat /\ j \in Nat /\ \A x \in rows : x \in Nat
      OBVIOUS
    <3>2. j <= j /\ ~ (j <= i)
      BY <1>3, <3>1
    <3>3. \A x \in rows : x <= i => x <= j
      BY <1>3, <3>1
    <3> QED
      BY <3>2, <3>3
  <2> HIDE DEF upTo
  <2>2. Cardinality(upTo(i)) <= Cardinality(upTo(j)) /\ Cardinality(upTo(i)) # Cardinality(upTo(j))
    BY <1>2, <2>1, FS_Subset
  <2> QED
    BY <1>2, <2>2
<1>4. \A i \in rows : Place(rows, i) = Cardinality(upTo(i))
  BY DEF Place
<1> HIDE DEF upTo
<1>5. \A i \in rows : Place(rows, i) \in Nat /\ Place(rows, i) \in 1..Cardinality(rows)
  BY <1>1, <1>2, <1>4
<1>6. \A i, j \in rows : i < j => Place(rows, i) < Place(rows, j)
  BY <1>3, <1>4
<1>7. \A i, j \in rows : i \in Nat /\ j \in Nat /\ (i < j \/ i = j \/ j < i)
  OBVIOUS
<1> QED
  BY <1>1, <1>5, <1>6, <1>7

\* Every place has a row.
LEMMA NthPlace ==
    ASSUME NEW rows \in SUBSET Nat, IsFiniteSet(rows), NEW n \in 1..Cardinality(rows)
    PROVE  Nth(rows, n) \in rows /\ Place(rows, Nth(rows, n)) = n
<1> DEFINE T == 1..Cardinality(rows)
           f == [i \in rows |-> Place(rows, i)]
<1>1. Cardinality(rows) \in Nat
  BY FS_CardinalityType
<1>2. IsFiniteSet(T) /\ Cardinality(T) = Cardinality(rows)
  BY <1>1, FS_Interval
<1>3. f \in Injection(rows, T)
  BY Places DEF Injection, IsInjective
<1>4. f \in Surjection(rows, T)
  <2> HIDE DEF f, T
  <2> QED
    BY <1>2, <1>3, FS_Injection
<1>5. \E i \in rows : f[i] = n
  BY <1>4 DEF Surjection
<1>6. \E i \in rows : Place(rows, i) = n
  BY <1>5
<1> QED
  BY <1>6 DEF Nth

\* The first row and the last.
LEMMA Ends ==
    ASSUME NEW rows \in SUBSET Nat, IsFiniteSet(rows), rows # {}
    PROVE  /\ Cardinality(rows) \in Nat \ {0}
           /\ Min(rows) = Nth(rows, 1) /\ Min(rows) \in rows /\ Place(rows, Min(rows)) = 1
           /\ \A j \in rows : Min(rows) <= j
           /\ Max(rows) = Nth(rows, Cardinality(rows)) /\ Max(rows) \in rows
           /\ Place(rows, Max(rows)) = Cardinality(rows)
           /\ \A j \in rows : j <= Max(rows)
<1> DEFINE n == Cardinality(rows)
<1>1. n \in Nat \ {0}
  BY FS_CardinalityType, FS_EmptySet
<1> HIDE DEF n
<1> DEFINE lo == Nth(rows, 1)
           hi == Nth(rows, n)
<1>2. lo \in rows /\ Place(rows, lo) = 1 /\ hi \in rows /\ Place(rows, hi) = n
  BY <1>1, NthPlace DEF n
<1>3. \A j \in rows : Place(rows, j) \in 1..n
  BY Places DEF n
<1>4. \A i, j \in rows : i \in Nat /\ j \in Nat /\ (i < j <=> Place(rows, i) < Place(rows, j))
  BY Places
<1> HIDE DEF lo, hi
<1>5. ASSUME NEW j \in rows PROVE lo <= j /\ j <= hi
  <2>1. ~ (Place(rows, j) < Place(rows, lo)) /\ ~ (Place(rows, hi) < Place(rows, j))
    BY <1>1, <1>2, <1>3
  <2> QED
    BY <1>2, <1>4, <2>1
<1>6. Min(rows) \in rows /\ \A j \in rows : Min(rows) <= j
  BY <1>2, <1>5 DEF Min
<1>7. Max(rows) \in rows /\ \A j \in rows : Max(rows) >= j
  <2>1. \A j \in rows : hi >= j
    BY <1>2, <1>4, <1>5
  <2> QED
    BY <1>2, <2>1 DEF Max
<1>8. Min(rows) = lo
  <2>1. Min(rows) \in Nat /\ lo \in Nat /\ Min(rows) <= lo /\ lo <= Min(rows)
    BY <1>2, <1>4, <1>5, <1>6
  <2> QED
    BY <2>1
<1>9. Max(rows) = hi
  <2>1. Max(rows) \in Nat /\ hi \in Nat /\ Max(rows) <= hi /\ Max(rows) >= hi
    BY <1>2, <1>4, <1>5, <1>7
  <2> QED
    BY <2>1
<1> QED
  BY <1>1, <1>2, <1>5, <1>8, <1>9 DEF n, lo, hi

-----------------------------------------------------------------------------
\* Thinning a set of rows.

\* `downsample` answers no more rows than asked for, all of them if that is
\* enough, and exactly as many otherwise.
LEMMA DownsampleSize ==
    ASSUME NEW rows \in SUBSET Nat, IsFiniteSet(rows), NEW b \in Nat \ {0}
    PROVE  /\ Downsample(rows, b) \subseteq rows
           /\ Cardinality(rows) <= b => Downsample(rows, b) = rows
           /\ b < Cardinality(rows) => Cardinality(Downsample(rows, b)) = b
<1> DEFINE len == Cardinality(rows)
<1>1. len \in Nat
  BY FS_CardinalityType
<1>2. CASE len <= b
  BY <1>1, <1>2 DEF Downsample
<1>3. CASE b < len /\ b = 1
  <2>1. Downsample(rows, b) = {Max(rows)}
    BY <1>1, <1>3 DEF Downsample
  <2>2. rows # {}
    BY <1>3, FS_EmptySet
  <2>3. Max(rows) \in rows
    BY <2>2, Ends
  <2>4. Cardinality({Max(rows)}) = 1
    BY FS_Singleton
  <2> QED
    BY <1>1, <1>3, <2>1, <2>3, <2>4
<1>4. CASE b < len /\ b # 1
  <2> DEFINE P(t) == (t * (len - 1)) \div (b - 1) + 1
             D == {Nth(rows, P(t)) : t \in 0..(b - 1)}
             f == [t \in 0..(b - 1) |-> Nth(rows, P(t))]
  <2>1. Downsample(rows, b) = D
    BY <1>1, <1>4 DEF Downsample
  <2>2. ASSUME NEW t \in 0..(b - 1)
        PROVE  P(t) \in 1..len /\ \A u \in 0..(b - 1) : t < u => P(t) < P(u)
    <3>1. /\ P(t) \in 1..len
          /\ \A u \in 0..(b - 1) : t < u =>
                (t * (len - 1)) \div (b - 1) < (u * (len - 1)) \div (b - 1)
      BY <1>1, <1>4, Spread
    <3>2. \A u \in 0..(b - 1) : P(u) \in 1..len
      BY <1>1, <1>4, Spread
    <3> QED
      BY <1>1, <3>1, <3>2
  <2> HIDE DEF P, len
  <2>3. \A t \in 0..(b - 1) : Nth(rows, P(t)) \in rows /\ Place(rows, Nth(rows, P(t))) = P(t)
    BY <2>2, NthPlace DEF len
  <2>4. \A t, u \in 0..(b - 1) : f[t] = f[u] => t = u
    <3> SUFFICES ASSUME NEW t \in 0..(b - 1), NEW u \in 0..(b - 1), f[t] = f[u], t # u
                 PROVE  FALSE
      OBVIOUS
    <3>1. P(t) = P(u)
      BY <2>3
    <3>2. P(t) \in Int /\ P(u) \in Int /\ (t < u \/ u < t)
      BY <2>2
    <3> QED
      BY <2>2, <3>1, <3>2
  <2>5. f \in Surjection(0..(b - 1), D) /\ f \in Injection(0..(b - 1), D)
    <3>1. f \in [0..(b - 1) -> D] /\ \A y \in D : \E t \in 0..(b - 1) : f[t] = y
      OBVIOUS
    <3> QED
      BY <2>4, <3>1 DEF Surjection, Injection, IsInjective
  <2>6. IsFiniteSet(0..(b - 1)) /\ Cardinality(0..(b - 1)) = b
    BY FS_Interval
  <2>7. Cardinality(D) = b
    <3> HIDE DEF D, f
    <3> QED
      BY <2>5, <2>6, FS_Surjection
  <2>8. D \subseteq rows
    BY <2>3
  <2> HIDE DEF D
  <2> QED
    BY <1>1, <1>4, <2>1, <2>7, <2>8 DEF len
<1> QED
  BY <1>1, <1>2, <1>3, <1>4

\* It keeps the last row, and the first one for a budget of at least two.
LEMMA DownsampleEnds ==
    ASSUME NEW rows \in SUBSET Nat, IsFiniteSet(rows), rows # {}, NEW b \in Nat \ {0}
    PROVE  /\ Max(rows) \in Downsample(rows, b)
           /\ b > 1 => Min(rows) \in Downsample(rows, b)
<1> DEFINE len == Cardinality(rows)
<1>1. len \in Nat
  BY FS_CardinalityType
<1>2. CASE len <= b
  BY <1>1, <1>2, Ends, DownsampleSize
<1>3. CASE b < len /\ b = 1
  BY <1>1, <1>3 DEF Downsample
<1>4. CASE b < len /\ b # 1
  <2> DEFINE P(t) == (t * (len - 1)) \div (b - 1) + 1
  <2>1. Downsample(rows, b) = {Nth(rows, P(t)) : t \in 0..(b - 1)}
    BY <1>1, <1>4 DEF Downsample
  <2>2. 0 \in 0..(b - 1) /\ b - 1 \in 0..(b - 1) /\ b >= 2
    BY <1>4
  <2>3. P(0) = 1 /\ P(b - 1) = len
    BY <1>1, <1>4, <2>2, Spread
  <2>4. Nth(rows, P(0)) \in Downsample(rows, b) /\ Nth(rows, P(b - 1)) \in Downsample(rows, b)
    BY <2>1, <2>2
  <2> HIDE DEF P
  <2> QED
    BY <2>3, <2>4, Ends
<1> QED
  BY <1>1, <1>2, <1>3, <1>4

\* With one row too many it leaves out no two in succession.
LEMMA DownsampleGaps ==
    ASSUME NEW rows \in SUBSET Nat, IsFiniteSet(rows), NEW b \in Nat, b >= 2,
           Cardinality(rows) <= b + 1,
           NEW i \in Downsample(rows, b), i # Max(rows)
    PROVE  \E j \in Downsample(rows, b) :
              Place(rows, j) \in (Place(rows, i) + 1)..(Place(rows, i) + 2)
<1> DEFINE len == Cardinality(rows)
<1>1. len \in Nat /\ i \in rows
  BY FS_CardinalityType, DownsampleSize
<1>2. Place(rows, i) \in 1..len
  BY <1>1, Places
<1>3. Max(rows) \in rows /\ Place(rows, Max(rows)) = len
  BY <1>1, Ends
<1>4. Place(rows, i) # len
  BY <1>1, <1>3, Places
<1>5. CASE len <= b
  <2>1. Downsample(rows, b) = rows
    BY <1>1, <1>5, DownsampleSize
  <2>2. Place(rows, i) + 1 \in 1..len
    BY <1>1, <1>2, <1>4
  <2>3. Nth(rows, Place(rows, i) + 1) \in rows /\ Place(rows, Nth(rows, Place(rows, i) + 1)) = Place(rows, i) + 1
    BY <2>2, NthPlace
  <2> QED
    BY <1>2, <2>1, <2>3
<1>6. CASE len = b + 1
  <2> DEFINE P(t) == (t * (len - 1)) \div (b - 1) + 1
  <2>1. Downsample(rows, b) = {Nth(rows, P(t)) : t \in 0..(b - 1)}
    <3>1. ~ (len <= b) /\ b # 1
      BY <1>1, <1>6
    <3> QED
      BY <3>1 DEF Downsample
  <2>2. PICK t \in 0..(b - 1) : i = Nth(rows, P(t))
    BY <2>1
  <2>3. b < len /\ \A u \in 0..(b - 1) : P(u) \in 1..len
    <3>1. b < len
      BY <1>1, <1>6
    <3> QED
      BY <1>1, <3>1, Spread
  <2>4. \A u \in 0..(b - 1) : Nth(rows, P(u)) \in rows /\ Place(rows, Nth(rows, P(u))) = P(u)
    <3> HIDE DEF P
    <3> QED
      BY <2>3, NthPlace
  <2>5. P(t) = Place(rows, i) /\ P(t) # len
    BY <1>4, <2>2, <2>4
  <2>6. t # b - 1
    BY <1>1, <2>3, <2>5, Spread
  <2>7. t + 1 \in 0..(b - 1) /\ t < t + 1
    BY <2>6
  <2>8. P(t + 1) \in (P(t) + 1)..(P(t) + 2)
    <3>1. /\ (t * (len - 1)) \div (b - 1) < ((t + 1) * (len - 1)) \div (b - 1)
          /\ ((t + 1) * (len - 1)) \div (b - 1) <= (t * (len - 1)) \div (b - 1) + 2
      BY <1>1, <1>6, <2>3, <2>7, Spread
    <3> DEFINE Q(u) == (u * (len - 1)) \div (b - 1)
    <3>2. Q(t) \in Int /\ Q(t + 1) \in Int
      <4>1. /\ t \in Nat /\ t * (len - 1) \in Nat /\ (t + 1) * (len - 1) \in Nat
            /\ b - 1 \in Nat \ {0}
        BY <1>1, <1>6
      <4> QED
        BY <4>1, Quotient
    <3>3. P(t) = Q(t) + 1 /\ P(t + 1) = Q(t + 1) + 1
      OBVIOUS
    <3>4. Q(t) < Q(t + 1) /\ Q(t + 1) <= Q(t) + 2
      BY <3>1
    <3> HIDE DEF P, Q
    <3> QED
      BY <3>2, <3>3, <3>4
  <2> HIDE DEF P
  <2>9. Nth(rows, P(t + 1)) \in Downsample(rows, b)
    BY <2>1, <2>7
  <2> QED
    BY <2>4, <2>5, <2>7, <2>8, <2>9
<1> QED
  BY <1>1, <1>5, <1>6

-----------------------------------------------------------------------------
\* The table and the rows of a series that survive the SQL.

TableOK == points \in Seq(Series)

LEMMA Table == Spec => []TableOK
<1>1. Init => TableOK
  BY DEF Init, TableOK
<1>2. TableOK /\ [Next]_points => TableOK'
  BY DEF TableOK, Next, AppendPoint
<1> QED
  BY <1>1, <1>2, PTL DEF Spec

LEMMA BudgetPositive == \A m \in Requests : Budget(m) \in Nat \ {0}
  BY SamplingAssumption DEF Budget

LEMMA SeriesRows ==
    ASSUME TableOK, NEW s
    PROVE  /\ Rows(s) \in SUBSET Nat /\ IsFiniteSet(Rows(s)) /\ Count(s) \in Nat
           /\ \A i \in Rows(s) : points[i] = s /\ Rank(i) = Place(Rows(s), i)
<1>1. Len(points) \in Nat /\ DOMAIN points = 1..Len(points)
  BY DEF TableOK
<1>2. IsFiniteSet(1..Len(points)) /\ Rows(s) \in SUBSET (1..Len(points))
  BY <1>1, FS_Interval DEF Rows
<1>3. IsFiniteSet(Rows(s))
  BY <1>2, FS_Subset
<1>4. \A i \in Rows(s) : points[i] = s /\ Rank(i) = Place(Rows(s), i)
  BY DEF Rank, Rows
<1> QED
  BY <1>2, <1>3, <1>4, FS_CardinalityType DEF Count

Survivors(s, b) == {i \in Rows(s) : Survives(i, b)}

\* By rank, every stride-th row and the last.
LEMMA SurvivorsAre ==
    ASSUME TableOK, NEW s, NEW b \in Nat \ {0}
    PROVE  /\ Survivors(s, b) \in SUBSET Rows(s) /\ IsFiniteSet(Survivors(s, b))
           /\ Count(s) <= b => Survivors(s, b) = Rows(s)
           /\ b < Count(s) => Survivors(s, b) = {i \in Rows(s) :
                 Rank(i) % Stride(s, b) = 1 \/ Rank(i) = Count(s)}
<1>1. IsFiniteSet(Survivors(s, b)) /\ Survivors(s, b) \in SUBSET Rows(s)
  BY SeriesRows, FS_Subset DEF Survivors
<1>2. Count(s) \in Nat /\ \A i \in Rows(s) : points[i] = s
  BY SeriesRows
<1>3. Count(s) <= b => Survivors(s, b) = Rows(s)
  BY <1>2 DEF Survivors, Survives
<1>4. ASSUME b < Count(s)
      PROVE  \A i \in Rows(s) : Survives(i, b) <=> Rank(i) % Stride(s, b) = 1 \/ Rank(i) = Count(s)
  <2>1. ~ (Count(s) <= b)
    BY <1>2, <1>4
  <2> QED
    BY <1>2, <2>1 DEF Survives
<1> QED
  BY <1>1, <1>3, <1>4 DEF Survivors

\* Both ends survive.
LEMMA SurvivorsEnds ==
    ASSUME TableOK, NEW s, NEW b \in Nat \ {0}, Count(s) > 0
    PROVE  /\ Survivors(s, b) # {}
           /\ Max(Survivors(s, b)) = Max(Rows(s)) /\ Min(Survivors(s, b)) = Min(Rows(s))
<1> DEFINE R == Rows(s)
           S == Survivors(s, b)
<1>1. R \in SUBSET Nat /\ IsFiniteSet(R) /\ Cardinality(R) = Count(s) /\ Count(s) \in Nat
  BY SeriesRows DEF Count
<1>2. R # {}
  BY <1>1, FS_EmptySet
<1>3. /\ Min(R) \in R /\ Place(R, Min(R)) = 1 /\ \A j \in R : Min(R) <= j
      /\ Max(R) \in R /\ Place(R, Max(R)) = Count(s) /\ \A j \in R : j <= Max(R)
  BY <1>1, <1>2, Ends
<1>4. Rank(Min(R)) = 1 /\ Rank(Max(R)) = Count(s)
  BY <1>3, SeriesRows
<1>5. Min(R) \in S /\ Max(R) \in S
  <2>1. CASE Count(s) <= b
    BY <1>3, <2>1, SurvivorsAre
  <2>2. CASE b < Count(s)
    <3>1. Stride(s, b) \in Nat /\ Stride(s, b) >= 2
      BY <1>1, <2>2, StrideBounds DEF Stride
    <3>2. 1 % Stride(s, b) = 1
      BY <3>1
    <3> QED
      BY <1>3, <1>4, <2>2, <3>2, SurvivorsAre
  <2> QED
    BY <1>1, <2>1, <2>2
<1>6. S \in SUBSET R /\ S \in SUBSET Nat /\ IsFiniteSet(S) /\ S # {}
  BY <1>1, <1>5, SurvivorsAre
<1> HIDE DEF S, R
<1>7. /\ Min(S) \in S /\ \A j \in S : Min(S) <= j
      /\ Max(S) \in S /\ \A j \in S : j <= Max(S)
  BY <1>6, Ends
<1>8. Min(S) = Min(R)
  <2>1. Min(S) \in Nat /\ Min(R) \in Nat /\ Min(S) <= Min(R) /\ Min(R) <= Min(S)
    BY <1>3, <1>5, <1>6, <1>7
  <2> QED
    BY <2>1
<1>9. Max(S) = Max(R)
  <2>1. Max(S) \in Nat /\ Max(R) \in Nat /\ Max(S) <= Max(R) /\ Max(R) <= Max(S)
    BY <1>3, <1>5, <1>6, <1>7
  <2> QED
    BY <2>1
<1> QED
  BY <1>6, <1>8, <1>9 DEF S, R

\* At most one more than the budget survives, and at least half of it.
LEMMA SurvivorsCount ==
    ASSUME TableOK, NEW s, NEW b \in Nat \ {0}, b < Count(s)
    PROVE  Cardinality(Survivors(s, b)) <= b + 1 /\ b <= 2 * Cardinality(Survivors(s, b))
<1> DEFINE R == Rows(s)
           S == Survivors(s, b)
           c == Count(s)
           k == Stride(s, b)
           q == (c - 1) \div k
<1>1. R \in SUBSET Nat /\ IsFiniteSet(R) /\ Cardinality(R) = c /\ c \in Nat \ {0}
  BY SeriesRows DEF Count
<1>2. k \in Nat /\ k >= 2 /\ c < b * k /\ b * k <= 2 * c
  BY <1>1, StrideBounds DEF Stride
<1>3. S = {i \in R : Rank(i) % k = 1 \/ Rank(i) = c} /\ S \in SUBSET R /\ IsFiniteSet(S)
  BY SurvivorsAre
<1>4. \A i \in R : Rank(i) = Place(R, i) /\ Rank(i) \in 1..c
  BY <1>1, SeriesRows, Places
<1> HIDE DEF R, S, c, k
<1>5. q \in Nat /\ k * q <= c - 1 /\ c - 1 < k * q + k
  <2>1. c - 1 \in Nat /\ k \in Nat \ {0}
    BY <1>1, <1>2
  <2> QED
    BY <2>1, Quotient
<1> HIDE DEF q
<1>6. IsFiniteSet(0..q) /\ Cardinality(0..q) = q + 1
  BY <1>5, FS_Interval
<1>7. Cardinality(S) \in Nat
  BY <1>3, FS_CardinalityType
<1>8. q + 1 <= Cardinality(S)
  <2> DEFINE f == [t \in 0..q |-> Nth(R, t * k + 1)]
  <2>1. ASSUME NEW t \in 0..q
        PROVE  t * k + 1 \in 1..c /\ (t * k + 1) % k = 1
    <3>1. t \in Nat /\ k * t <= k * q /\ t * k = k * t /\ k * t \in Nat /\ k * q \in Nat
      BY <1>2, <1>5, Product
    <3>2. t * k + 1 \in 1..c
      BY <1>1, <1>5, <3>1
    <3> QED
      BY <1>2, <3>1, <3>2, Remainder
  <2>2. ASSUME NEW t \in 0..q
        PROVE  Nth(R, t * k + 1) \in S /\ Place(R, Nth(R, t * k + 1)) = t * k + 1
    <3>1. Nth(R, t * k + 1) \in R /\ Place(R, Nth(R, t * k + 1)) = t * k + 1
      BY <1>1, <2>1, NthPlace
    <3>2. Rank(Nth(R, t * k + 1)) % k = 1
      BY <1>4, <2>1, <3>1
    <3> QED
      BY <1>3, <3>1, <3>2
  <2>3. \A t, u \in 0..q : t * k + 1 = u * k + 1 => t = u
    <3> SUFFICES ASSUME NEW t \in 0..q, NEW u \in 0..q, t * k + 1 = u * k + 1
                 PROVE  t = u
      OBVIOUS
    <3>1. t \in Nat /\ u \in Nat /\ t * k = u * k
      BY <1>2, <1>5
    <3> QED
      BY <1>2, <3>1
  <2>4. f \in [0..q -> S] /\ \A t, u \in 0..q : f[t] = f[u] => t = u
    <3>1. f \in [0..q -> S]
      BY <2>2
    <3>2. \A t \in 0..q : Place(R, f[t]) = t * k + 1
      BY <2>2
    <3> HIDE DEF f
    <3> QED
      BY <2>3, <3>1, <3>2
  <2>5. f \in Injection(0..q, S)
    BY <2>4 DEF Injection, IsInjective
  <2> HIDE DEF f
  <2> QED
    BY <1>3, <1>6, <2>5, FS_Injection
<1>9. Cardinality(S) <= q + 2
  <2> DEFINE last == Max(R)
             T == S \ {last}
             f == [i \in T |-> Rank(i) \div k]
  <2>1. last \in R /\ Place(R, last) = c
    <3>1. R # {}
      BY <1>1, FS_EmptySet
    <3> QED
      BY <1>1, <3>1, Ends
  <2> HIDE DEF last
  <2>2. \A i \in T : i \in R /\ Rank(i) # c
    BY <1>1, <1>3, <1>4, <2>1, Places
  <2>3. ASSUME NEW i \in T
        PROVE  Rank(i) \div k \in 0..q /\ Rank(i) = k * (Rank(i) \div k) + 1
    <3>1. Rank(i) % k = 1 /\ Rank(i) \in Nat /\ Rank(i) <= c
      BY <1>1, <1>3, <1>4, <2>2
    <3> DEFINE r == Rank(i)
               p == r \div k
    <3> HIDE DEF r
    <3>2. r % k = 1 /\ r \in Nat /\ r <= c
      BY <3>1 DEF r
    <3>3. r = k * p + 1
      BY <1>2, <3>2, Remainder
    <3>4. p \in Nat
      BY <1>2, <3>2, Quotient
    <3> HIDE DEF p
    <3>5. k * p < k * (q + 1)
      <4>1. k * (q + 1) = k * q + k /\ k * q \in Nat /\ k * p \in Nat
        BY <1>2, <1>5, <3>4
      <4> QED
        BY <1>1, <1>2, <1>5, <3>2, <3>3, <4>1
    <3>6. p < q + 1
      <4>1. p \in Int /\ q + 1 \in Int /\ k \in Nat \ {0}
        BY <1>2, <1>5, <3>4
      <4> QED
        BY <3>5, <4>1, Cancel
    <3>7. p \in 0..q
      BY <1>5, <3>4, <3>6
    <3> QED
      BY <3>3, <3>7 DEF p, r
  <2>4. \A i, j \in T : Rank(i) = Rank(j) => i = j
    BY <1>1, <1>4, <2>2, Places
  <2>5. f \in Injection(T, 0..q)
    <3>1. f \in [T -> 0..q]
      BY <2>3
    <3>2. \A i, j \in T : f[i] = f[j] => i = j
      BY <2>3, <2>4
    <3> QED
      BY <3>1, <3>2 DEF Injection, IsInjective
  <2>6. Cardinality(T) <= q + 1
    <3> HIDE DEF f, T
    <3> QED
      BY <1>6, <2>5, FS_Injection
  <2>7. Cardinality(S) <= Cardinality(T) + 1 /\ Cardinality(T) \in Nat
    <3>1. Cardinality(T) = IF last \in S THEN Cardinality(S) - 1 ELSE Cardinality(S)
      BY <1>3, FS_RemoveElement
    <3>2. IsFiniteSet(T)
      BY <1>3, FS_RemoveElement
    <3> QED
      BY <1>7, <3>1, <3>2, FS_CardinalityType
  <2> HIDE DEF T
  <2> QED
    BY <1>5, <1>7, <2>6, <2>7
<1>10. q < b
  <2>1. b * k = k * b /\ k * b \in Nat /\ k * q \in Nat
    BY <1>2, <1>5
  <2>2. k * q < k * b
    BY <1>1, <1>2, <1>5, <2>1
  <2>3. k \in Nat \ {0} /\ q \in Int /\ b \in Int
    BY <1>2, <1>5
  <2> QED
    BY <2>2, <2>3, Cancel
<1>11. b <= 2 * (q + 1)
  <2>1. c <= k * (q + 1)
    <3>1. k * (q + 1) = k * q + k /\ k * q \in Nat
      BY <1>2, <1>5
    <3> QED
      BY <1>1, <1>2, <1>5, <3>1
  <2>2. k * b <= k * (2 * (q + 1))
    <3>1. k * (2 * (q + 1)) = 2 * (k * (q + 1)) /\ k * (q + 1) \in Nat /\ b * k = k * b /\ k * b \in Nat
      BY <1>2, <1>5
    <3> QED
      BY <1>1, <1>2, <2>1, <3>1
  <2> SUFFICES ASSUME 2 * (q + 1) < b PROVE FALSE
    BY <1>5
  <2>3. 2 * (q + 1) \in Nat /\ 2 * (q + 1) + 1 <= b /\ 2 * (q + 1) + 1 \in Nat
    BY <1>5
  <2>4. k * (2 * (q + 1) + 1) <= k * b
    BY <1>2, <2>3, Product
  <2>5. k * (2 * (q + 1) + 1) = k * (2 * (q + 1)) + k /\ k * (2 * (q + 1)) \in Nat /\ k * b \in Nat
    BY <1>2, <2>3
  <2> QED
    BY <1>2, <2>2, <2>4, <2>5
<1>12. Cardinality(S) <= b + 1 /\ b <= 2 * Cardinality(S)
  BY <1>5, <1>7, <1>8, <1>9, <1>10, <1>11
<1> QED
  BY <1>12 DEF S

\* After a survivor comes another within a stride.
LEMMA SurvivorsNear ==
    ASSUME TableOK, NEW s, NEW b \in Nat \ {0},
           NEW i \in Survivors(s, b), i # Max(Rows(s))
    PROVE  \E j \in Survivors(s, b) : Rank(j) \in (Rank(i) + 1)..(Rank(i) + Stride(s, b))
<1> DEFINE R == Rows(s)
           c == Count(s)
           k == Stride(s, b)
           r == Rank(i)
<1>1. R \in SUBSET Nat /\ IsFiniteSet(R) /\ Cardinality(R) = c /\ c \in Nat
  BY SeriesRows DEF Count
<1>2. i \in R
  BY SurvivorsAre
<1>3. \A j \in R : Rank(j) = Place(R, j) /\ Rank(j) \in 1..c
  BY <1>1, SeriesRows, Places
<1>4. Max(R) \in R /\ Rank(Max(R)) = c
  BY <1>1, <1>2, <1>3, Ends
<1>5. r \in 1..c /\ r # c
  BY <1>1, <1>2, <1>3, <1>4, Places
<1>6. k \in Nat \ {0}
  BY <1>1, Quotient DEF Stride
<1>7. ASSUME NEW n \in 1..c PROVE \E j \in R : Rank(j) = n
  <2>1. Nth(R, n) \in R /\ Place(R, Nth(R, n)) = n
    BY <1>1, NthPlace
  <2> QED
    BY <1>3, <2>1
<1>8. CASE c <= b
  <2>1. r + 1 \in 1..c /\ r + 1 \in (r + 1)..(r + k)
    BY <1>1, <1>5, <1>6
  <2>2. PICK j \in R : Rank(j) = r + 1
    BY <1>7, <2>1
  <2>3. j \in Survivors(s, b)
    BY <1>8, SurvivorsAre
  <2> QED
    BY <2>1, <2>2, <2>3
<1>9. CASE b < c
  <2>1. Survivors(s, b) = {j \in R : Rank(j) % k = 1 \/ Rank(j) = c}
    BY <1>9, SurvivorsAre
  <2>2. k >= 2
    BY <1>1, <1>9, StrideBounds DEF Stride
  <2> HIDE DEF R, c, k, r
  <2>3. CASE r + k <= c
    <3>1. r + k \in 1..c /\ r + k \in (r + 1)..(r + k)
      BY <1>1, <1>5, <1>6, <2>3
    <3>2. PICK j \in R : Rank(j) = r + k
      BY <1>7, <3>1
    <3>3. r % k = 1
      BY <1>5, <2>1 DEF r
    <3>4. (r + k) % k = 1
      <4>1. r = k * (r \div k) + 1 /\ r \div k \in Nat
        BY <1>5, <1>6, <2>2, <3>3, Remainder, Quotient
      <4>2. r + k = (r \div k + 1) * k + 1
        <5> DEFINE t == r \div k
        <5> HIDE DEF t
        <5>1. r = k * t + 1 /\ t \in Nat
          BY <4>1 DEF t
        <5>2. (t + 1) * k = k * t + k
          BY <1>6, <5>1
        <5>3. r + k = (t + 1) * k + 1
          BY <1>6, <5>1, <5>2
        <5> QED
          BY <5>3 DEF t
      <4> QED
        BY <1>6, <2>2, <4>1, <4>2, Remainder
    <3> QED
      BY <2>1, <3>1, <3>2, <3>4 DEF r, k
  <2>4. CASE c < r + k
    <3>1. c \in (r + 1)..(r + k)
      BY <1>1, <1>5, <1>6, <2>4
    <3> QED
      BY <1>4, <2>1, <3>1 DEF r, k
  <2> QED
    BY <1>1, <1>5, <1>6, <2>3, <2>4
<1> QED
  BY <1>1, <1>8, <1>9

\* Two survivors further on lie at most two strides.
LEMMA TwoStrides ==
    ASSUME TableOK, NEW s, NEW b \in Nat \ {0},
           NEW i \in Survivors(s, b), NEW j \in Survivors(s, b),
           Place(Survivors(s, b), j) \in (Place(Survivors(s, b), i) + 1)..(Place(Survivors(s, b), i) + 2)
    PROVE  Rank(j) \in (Rank(i) + 1)..(Rank(i) + 2 * Stride(s, b))
<1> DEFINE R == Rows(s)
           S == Survivors(s, b)
           k == Stride(s, b)
<1>1. R \in SUBSET Nat /\ IsFiniteSet(R) /\ Count(s) \in Nat
  BY SeriesRows
<1>2. S \in SUBSET R /\ IsFiniteSet(S) /\ S \in SUBSET Nat
  BY <1>1, SurvivorsAre
<1>3. \A x \in S : Rank(x) = Place(R, x) /\ Rank(x) \in Nat /\ Place(S, x) \in Nat
  BY <1>1, <1>2, SeriesRows, Places
<1>4. \A x, y \in S : (x < y <=> Rank(x) < Rank(y)) /\ (x < y <=> Place(S, x) < Place(S, y))
  BY <1>1, <1>2, <1>3, Places
<1>5. k \in Nat
  BY <1>1, Quotient DEF Stride
<1>6. \A x \in S : x # Max(R) => \E y \in S : Rank(y) \in (Rank(x) + 1)..(Rank(x) + k)
  BY SurvivorsNear
<1>7. \A x \in S : ~ (Max(R) < x)
  <2>1. \A x \in R : x <= Max(R) /\ x \in Nat /\ Max(R) \in Nat
    BY <1>1, Ends
  <2> QED
    BY <1>2, <2>1
<1>8. i \in S /\ j \in S /\ Place(S, j) \in (Place(S, i) + 1)..(Place(S, i) + 2)
  OBVIOUS
<1> HIDE DEF R, S, k
<1>9. i < j /\ Rank(i) < Rank(j)
  BY <1>3, <1>4, <1>8
<1>10. PICK y \in S : Rank(y) \in (Rank(i) + 1)..(Rank(i) + k)
  BY <1>6, <1>7, <1>8, <1>9
<1>11. CASE Rank(j) <= Rank(y)
  BY <1>3, <1>5, <1>8, <1>9, <1>10, <1>11 DEF k
<1>12. CASE Rank(y) < Rank(j)
  <2>1. y < j /\ i < y /\ y # Max(R)
    BY <1>3, <1>4, <1>7, <1>8, <1>10, <1>12
  <2>2. PICK z \in S : Rank(z) \in (Rank(y) + 1)..(Rank(y) + k)
    BY <1>6, <2>1
  <2>3. Place(S, i) < Place(S, y) /\ Place(S, y) < Place(S, z)
    BY <1>3, <1>4, <1>5, <1>8, <1>10, <2>1, <2>2
  <2>4. ~ (Rank(z) < Rank(j))
    BY <1>3, <1>4, <1>8, <2>3
  <2> QED
    BY <1>3, <1>5, <1>8, <1>9, <1>10, <2>2, <2>4 DEF k
<1> QED
  BY <1>3, <1>8, <1>10, <1>11, <1>12

-----------------------------------------------------------------------------
\* The answer.

\* Without the row limit the answer thins the survivors.
LEMMA ShownIs ==
    ASSUME TableOK, NEW s, NEW b
    PROVE  /\ Rows(s) \cap Fetched(b) \in SUBSET Survivors(s, b)
           /\ ~ Truncated(b) => Shown(s, b) = Downsample(Survivors(s, b), b)
<1>1. \A i \in Rows(s) \cap Fetched(b) : Survives(i, b)
  BY DEF Fetched
<1>2. ASSUME ~ Truncated(b) PROVE Rows(s) \cap Fetched(b) = Survivors(s, b)
  BY <1>1, <1>2 DEF Truncated, Survivors, Rows
<1> QED
  BY <1>1, <1>2 DEF Survivors, Shown

\* FindMetrics keeps to the number of points asked for and, unless the row
\* limit cuts it, comes up to half of that.
THEOREM BudgetIsUsed == Spec => []BudgetUsed
<1> SUFFICES ASSUME TableOK PROVE BudgetUsed
  BY Table, PTL
<1> SUFFICES ASSUME NEW s \in Series, NEW m \in Requests, Count(s) > 0,
                    NEW b, b = Budget(m)
             PROVE  /\ Cardinality(Shown(s, b)) <= b
                    /\ Truncated(b) \/ 2 * Cardinality(Shown(s, b)) >= Min({b, Count(s)})
  BY DEF BudgetUsed, AnySeries
<1>1. b \in Nat \ {0}
  BY BudgetPositive
<1>2. Rows(s) \in SUBSET Nat /\ IsFiniteSet(Rows(s)) /\ Count(s) \in Nat
  BY SeriesRows
<1> DEFINE F == Rows(s) \cap Fetched(b)
<1>3. F \in SUBSET Nat /\ IsFiniteSet(F)
  BY <1>2, FS_Subset
<1>4. Cardinality(F) \in Nat
  BY <1>3, FS_CardinalityType
<1>5. Cardinality(Shown(s, b)) <= b
  <2>1. Cardinality(Downsample(F, b)) <= b
    <3> HIDE DEF F
    <3> QED
      BY <1>1, <1>3, <1>4, DownsampleSize
  <2> QED
    BY <2>1 DEF Shown
<1>6. ASSUME ~ Truncated(b) PROVE 2 * Cardinality(Shown(s, b)) >= Min({b, Count(s)})
  <2> DEFINE S == Survivors(s, b)
             low == Min({b, Count(s)})
  <2>1. Shown(s, b) = Downsample(S, b)
    BY <1>6, ShownIs
  <2>2. S \in SUBSET Nat /\ IsFiniteSet(S)
    BY <1>1, <1>2, SurvivorsAre
  <2>3. Cardinality(S) \in Nat
    BY <2>2, FS_CardinalityType
  <2>4. low \in Nat /\ low <= b /\ low <= Count(s)
    <3>1. b <= Count(s) \/ Count(s) <= b
      BY <1>1, <1>2
    <3>2. \E x \in {b, Count(s)} : \A y \in {b, Count(s)} : x <= y
      BY <1>1, <1>2, <3>1
    <3>3. low \in {b, Count(s)} /\ \A y \in {b, Count(s)} : low <= y
      BY <3>2 DEF Min
    <3> QED
      BY <1>1, <1>2, <3>3
  <2> HIDE DEF low
  <2>5. CASE Count(s) <= b
    <3>1. S = Rows(s) /\ Cardinality(S) = Count(s)
      BY <1>1, <2>5, SurvivorsAre DEF Count
    <3>2. Shown(s, b) = S
      BY <1>1, <2>1, <2>2, <2>5, <3>1, DownsampleSize
    <3>3. 2 * Count(s) >= low
      BY <1>2, <2>4
    <3> QED
      BY <3>1, <3>2, <3>3 DEF low
  <2>6. CASE b < Count(s)
    <3>1. b <= 2 * Cardinality(S)
      BY <1>1, <2>6, SurvivorsCount
    <3>2. Cardinality(Shown(s, b)) = Cardinality(S) \/ Cardinality(Shown(s, b)) = b
      <4>1. Cardinality(S) <= b \/ b < Cardinality(S)
        BY <1>1, <2>3
      <4> QED
        BY <1>1, <2>1, <2>2, <4>1, DownsampleSize
    <3>3. 2 * Cardinality(Shown(s, b)) >= low
      <4> HIDE DEF S
      <4> QED
        BY <1>1, <2>3, <2>4, <3>1, <3>2
    <3> QED
      BY <3>3 DEF low
  <2> QED
    BY <1>1, <1>2, <2>5, <2>6
<1> QED
  BY <1>5, <1>6

\* Unless the row limit cuts it, FindMetrics shows the newest point of every
\* series, and the oldest one too if two points are asked for.
THEOREM EndsAreShown == Spec => []EndsShown
<1> SUFFICES ASSUME TableOK PROVE EndsShown
  BY Table, PTL
<1> SUFFICES ASSUME NEW s \in Series, NEW m \in Requests, Count(s) > 0,
                    NEW b, b = Budget(m), ~ Truncated(b)
             PROVE  /\ Max(Rows(s)) \in Shown(s, b)
                    /\ b > 1 => Min(Rows(s)) \in Shown(s, b)
  BY DEF EndsShown, AnySeries
<1>1. b \in Nat \ {0}
  BY BudgetPositive
<1> DEFINE S == Survivors(s, b)
<1>2. S \in SUBSET Nat /\ IsFiniteSet(S)
  BY <1>1, SeriesRows, SurvivorsAre
<1>3. S # {} /\ Max(S) = Max(Rows(s)) /\ Min(S) = Min(Rows(s))
  BY <1>1, SurvivorsEnds
<1>4. Shown(s, b) = Downsample(S, b)
  BY ShownIs
<1> QED
  BY <1>1, <1>2, <1>3, <1>4, DownsampleEnds

\* Unless the row limit cuts it, FindMetrics leaves no hole of two strides in
\* a series of which two points are asked for.
THEOREM LeavesNoHole == Spec => []NoHole
<1> SUFFICES ASSUME TableOK PROVE NoHole
  BY Table, PTL
<1> SUFFICES ASSUME NEW s \in Series, NEW m \in Requests, Count(s) > 0,
                    NEW b, b = Budget(m), ~ Truncated(b), b # 1,
                    NEW i \in Shown(s, b), i # Max(Rows(s))
             PROVE  \E j \in Shown(s, b) :
                       Rank(j) \in (Rank(i) + 1)..(Rank(i) + 2 * Stride(s, b))
  BY DEF NoHole, AnySeries
<1>1. b \in Nat \ {0} /\ b \in Nat /\ b >= 2
  BY BudgetPositive
<1> DEFINE S == Survivors(s, b)
<1>2. S \in SUBSET Nat /\ IsFiniteSet(S)
  BY <1>1, SeriesRows, SurvivorsAre
<1>3. Cardinality(S) <= b + 1
  <2>1. CASE Count(s) <= b
    <3>1. Cardinality(S) = Count(s)
      BY <1>1, <2>1, SurvivorsAre DEF Count
    <3> QED
      BY <1>1, <2>1, <3>1, SeriesRows
  <2>2. CASE b < Count(s)
    BY <1>1, <2>2, SurvivorsCount
  <2> QED
    BY <1>1, <2>1, <2>2, SeriesRows
<1>4. Shown(s, b) = Downsample(S, b) /\ Downsample(S, b) \subseteq S
  BY <1>1, <1>2, ShownIs, DownsampleSize
<1>5. i # Max(S)
  BY <1>1, SurvivorsEnds
<1>6. PICK j \in Downsample(S, b) : Place(S, j) \in (Place(S, i) + 1)..(Place(S, i) + 2)
  BY <1>1, <1>2, <1>3, <1>4, <1>5, DownsampleGaps
<1>7. Rank(j) \in (Rank(i) + 1)..(Rank(i) + 2 * Stride(s, b))
  BY <1>1, <1>4, <1>6, TwoStrides
<1> QED
  BY <1>4, <1>6, <1>7
=============================================================================
