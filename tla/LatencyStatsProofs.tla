--------------------------- MODULE LatencyStatsProofs ---------------------------
(* The lock-free latency counters, for every number of workers, loaders    *)
(* and buckets and every order of their atomic operations: no sample and   *)
(* no maximum is lost, a torn snapshot lies between what was recorded when *)
(* it began and what was begun when it ended, and the percentiles of a     *)
(* torn report are still ordered.                                          *)
EXTENDS LatencyStats, FiniteSetTheorems, WellFoundedInduction, TLAPS

-----------------------------------------------------------------------------
(* Cumulated counts.  Below is a recursive function: what it computes is   *)
(* shown by looking at the least bucket where it would not.                *)

\* Every set of naturals that is not empty has a least element.
LEMMA LeastNat ==
    ASSUME NEW T \in SUBSET Nat, T # {}
    PROVE  \E m \in T : \A n \in T : m <= n
<1>1. PICK m \in T : \A n \in T : ~(<<n, m>> \in OpToRel(<, Nat))
  BY WFMin, NatLessThanWellFounded, Zenon
<1>2. \A n \in T : ~(n < m)
  BY <1>1 DEF OpToRel
<1> QED
  BY <1>2

\* A prefix sum: what the recursive function of Below is a choice of.
Prefix(f, h, n) ==
    /\ f \in [0 .. n -> Nat] /\ f[0] = 0
    /\ \A i \in 1 .. n : f[i] = f[i - 1] + h[i]

\* There is a function of partial sums: otherwise the least length without one
\* follows a length that has one.
LEMMA PrefixExists ==
    ASSUME NEW h \in [Buckets -> Nat]
    PROVE  \E f : Prefix(f, h, NumBuckets)
<1> DEFINE T == {n \in 0 .. NumBuckets : ~\E f : Prefix(f, h, n)}
<1>0. NumBuckets \in Nat
  BY StatsAssumption
<1> SUFFICES ASSUME T # {}
             PROVE  FALSE
  BY <1>0
<1>1. T \in SUBSET Nat
  BY <1>0
<1> HIDE DEF T
<1>2. PICK m \in T : \A n \in T : m <= n
  BY <1>1, LeastNat
<1>3. m \in 0 .. NumBuckets /\ ~\E f : Prefix(f, h, m)
  BY <1>2 DEF T
<1>4. m # 0
  <2>1. Prefix([i \in 0 .. 0 |-> 0], h, 0)
    BY DEF Prefix
  <2> QED
    BY <1>3, <2>1
<1>5. m - 1 \in 0 .. NumBuckets /\ m - 1 \notin T
  BY <1>0, <1>2, <1>3, <1>4
<1>6. PICK f : Prefix(f, h, m - 1)
  BY <1>5 DEF T
<1> DEFINE g == [i \in 0 .. m |-> IF i = m THEN f[m - 1] + h[m] ELSE f[i]]
<1>7. h[m] \in Nat /\ f[m - 1] \in Nat /\ m \in Nat
  BY <1>0, <1>3, <1>4, <1>6 DEF Prefix, Buckets
<1>8. g \in [0 .. m -> Nat] /\ g[0] = 0
  BY <1>4, <1>6, <1>7 DEF Prefix
<1>9. ASSUME NEW i \in 1 .. m
      PROVE  g[i] = g[i - 1] + h[i]
  <2>1. CASE i = m
    BY <1>4, <1>7, <2>1
  <2>2. CASE i # m
    <3>1. i \in 1 .. m - 1 /\ i - 1 \in 0 .. m /\ i \in 0 .. m /\ i - 1 # m
      BY <1>7, <2>2
    <3>2. f[i] = f[i - 1] + h[i]
      BY <1>6, <3>1 DEF Prefix
    <3> QED
      BY <2>2, <3>1, <3>2
  <2> QED
    BY <2>1, <2>2
<1>10. Prefix(g, h, m)
  BY <1>8, <1>9 DEF Prefix
<1> QED
  BY <1>3, <1>10

\* What the recursive definition of Below computes, step by step.
LEMMA BelowUnfolds ==
    ASSUME NEW h \in [Buckets -> Nat]
    PROVE  /\ Below(h, 0) = 0
           /\ \A b \in Buckets : Below(h, b) = Below(h, b - 1) + h[b]
           /\ \A b \in 0 .. NumBuckets : Below(h, b) \in Nat
<1>0. NumBuckets \in Nat
  BY StatsAssumption
<1> DEFINE Eq(g) == g = [i \in 0 .. NumBuckets |-> IF i = 0 THEN 0 ELSE g[i - 1] + h[i]]
           G == CHOOSE g : Eq(g)
<1>1. PICK f : Prefix(f, h, NumBuckets)
  BY PrefixExists
<1>2. Eq(f)
  BY <1>0, <1>1 DEF Prefix
<1>3. Eq(G)
  BY <1>2
<1>4. \A b : Below(h, b) = G[b]
  BY DEF Below
<1> HIDE DEF G
<1>5. G[0] = 0 /\ \A b \in Buckets : G[b] = G[b - 1] + h[b]
  BY <1>0, <1>3 DEF Buckets
<1> HIDE DEF Eq
<1>6. \A b \in 0 .. NumBuckets : G[b] \in Nat
  <2> DEFINE T == {b \in 0 .. NumBuckets : G[b] \notin Nat}
  <2> SUFFICES ASSUME T # {}
               PROVE  FALSE
    OBVIOUS
  <2>1. T \in SUBSET Nat
    BY <1>0
  <2> HIDE DEF T
  <2>2. PICK m \in T : \A n \in T : m <= n
    BY <2>1, LeastNat
  <2>3. m \in 0 .. NumBuckets /\ G[m] \notin Nat
    BY <2>2 DEF T
  <2>4. m \in Buckets /\ m - 1 \in 0 .. NumBuckets /\ m - 1 \notin T
    BY <1>0, <1>5, <2>2, <2>3 DEF Buckets
  <2>5. G[m - 1] \in Nat /\ h[m] \in Nat
    BY <2>4 DEF T
  <2> QED
    BY <1>5, <2>3, <2>4, <2>5
<1> QED
  BY <1>4, <1>5, <1>6

\* One more sample in bucket c is one more in every count from c on.
LEMMA BelowCounts ==
    ASSUME NEW h \in [Buckets -> Nat], NEW c \in Buckets
    PROVE  Below([h EXCEPT ![c] = @ + 1], NumBuckets) = Below(h, NumBuckets) + 1
<1>0. NumBuckets \in Nat /\ c \in Nat
  BY StatsAssumption DEF Buckets
<1> DEFINE k == [h EXCEPT ![c] = @ + 1]
           More(b) == IF b < c THEN 0 ELSE 1
           T == {b \in 0 .. NumBuckets : Below(k, b) # Below(h, b) + More(b)}
<1>1. k \in [Buckets -> Nat]
  OBVIOUS
<1>2. \A b \in Buckets : k[b] = IF b = c THEN h[b] + 1 ELSE h[b]
  OBVIOUS
<1>3. T = {}
  <2> SUFFICES ASSUME T # {}
               PROVE  FALSE
    OBVIOUS
  <2>1. T \in SUBSET Nat
    BY <1>0
  <2> HIDE DEF T
  <2>2. PICK m \in T : \A n \in T : m <= n
    BY <2>1, LeastNat
  <2> HIDE DEF k
  <2>3. m \in 0 .. NumBuckets /\ Below(k, m) # Below(h, m) + More(m)
    BY <2>2 DEF T
  <2>4. Below(k, 0) = 0 /\ Below(h, 0) = 0
    BY <1>1, BelowUnfolds
  <2>5. m \in Buckets /\ m - 1 \in 0 .. NumBuckets
    BY <1>0, <2>3, <2>4 DEF Buckets
  <2>6. Below(k, m - 1) = Below(h, m - 1) + More(m - 1)
    <3>1. m - 1 \notin T
      BY <1>0, <2>2, <2>5
    <3> QED
      BY <2>5, <3>1 DEF T
  <2>7. Below(k, m) = Below(k, m - 1) + k[m] /\ Below(h, m) = Below(h, m - 1) + h[m]
    BY <1>1, <2>5, BelowUnfolds
  <2>8. Below(h, m - 1) \in Nat /\ h[m] \in Nat /\ m \in Nat
    BY <1>0, <2>5, BelowUnfolds DEF Buckets
  <2>9. k[m] = IF m = c THEN h[m] + 1 ELSE h[m]
    BY <1>2, <2>5
  <2> QED
    BY <1>0, <2>3, <2>6, <2>7, <2>8, <2>9
<1>4. NumBuckets \notin T
  BY <1>3
<1>5. Below(k, NumBuckets) = Below(h, NumBuckets) + More(NumBuckets)
  BY <1>0, <1>4
<1> QED
  BY <1>0, <1>5 DEF Buckets

\* An empty histogram adds up to zero.
LEMMA BelowEmpty == Below(ZeroSnap.hist, NumBuckets) = 0
<1>0. NumBuckets \in Nat
  BY StatsAssumption
<1> DEFINE z == [b \in Buckets |-> 0]
           T == {b \in 0 .. NumBuckets : Below(z, b) # 0}
<1>1. z \in [Buckets -> Nat]
  OBVIOUS
<1>2. \A b \in Buckets : z[b] = 0
  OBVIOUS
<1>3. T = {}
  <2> SUFFICES ASSUME T # {}
               PROVE  FALSE
    OBVIOUS
  <2>1. T \in SUBSET Nat
    BY <1>0
  <2> HIDE DEF T
  <2>2. PICK m \in T : \A n \in T : m <= n
    BY <2>1, LeastNat
  <2> HIDE DEF z
  <2>3. m \in 0 .. NumBuckets /\ Below(z, m) # 0
    BY <2>2 DEF T
  <2>4. m \in Buckets /\ m - 1 \in 0 .. NumBuckets
    BY <1>0, <1>1, <2>3, BelowUnfolds DEF Buckets
  <2>5. Below(z, m - 1) = 0
    <3>1. m - 1 \notin T
      BY <1>0, <2>2, <2>3, <2>4
    <3> QED
      BY <2>4, <3>1 DEF T
  <2> QED
    BY <1>1, <1>2, <2>3, <2>4, <2>5, BelowUnfolds
<1> QED
  BY <1>0, <1>3 DEF ZeroSnap

\* A histogram that is nowhere behind another counts no less.
LEMMA BelowMonotone ==
    ASSUME NEW h \in [Buckets -> Nat], NEW k \in [Buckets -> Nat], \A b \in Buckets : h[b] <= k[b]
    PROVE  Below(h, NumBuckets) <= Below(k, NumBuckets)
<1>0. NumBuckets \in Nat
  BY StatsAssumption
<1> DEFINE T == {b \in 0 .. NumBuckets : ~(Below(h, b) <= Below(k, b))}
<1>1. T = {}
  <2> SUFFICES ASSUME T # {}
               PROVE  FALSE
    OBVIOUS
  <2>1. T \in SUBSET Nat
    BY <1>0
  <2> HIDE DEF T
  <2>2. PICK m \in T : \A n \in T : m <= n
    BY <2>1, LeastNat
  <2>3. m \in 0 .. NumBuckets /\ ~(Below(h, m) <= Below(k, m))
    BY <2>2 DEF T
  <2>4. Below(h, 0) = 0 /\ Below(k, 0) = 0
    BY BelowUnfolds
  <2>5. m \in Buckets /\ m - 1 \in 0 .. NumBuckets
    BY <1>0, <2>3, <2>4 DEF Buckets
  <2>6. Below(h, m - 1) <= Below(k, m - 1)
    <3>1. m - 1 \notin T
      BY <1>0, <2>2, <2>5 DEF Buckets
    <3> QED
      BY <2>5, <3>1 DEF T
  <2>7. Below(h, m) = Below(h, m - 1) + h[m] /\ Below(k, m) = Below(k, m - 1) + k[m]
    BY <2>5, BelowUnfolds
  <2>8. Below(h, m - 1) \in Nat /\ Below(k, m - 1) \in Nat /\ h[m] \in Nat /\ k[m] \in Nat /\ h[m] <= k[m]
    BY <2>5, BelowUnfolds
  <2> QED
    BY <2>3, <2>6, <2>7, <2>8
<1> QED
  BY <1>0, <1>1

\* Every latency has a bucket.
LEMMA BucketOfTyped ==
    ASSUME NEW ms \in Nat
    PROVE  BucketOf(ms) \in Buckets
<1>0. NumBuckets \in Nat /\ NumBuckets >= 2 /\ Bounds \in [1 .. NumBuckets - 1 -> Nat \ {0}]
  BY StatsAssumption
<1> DEFINE T == {b \in Buckets : b = NumBuckets \/ ms < Bounds[b]}
<1>1. T \in SUBSET Nat /\ T # {}
  BY <1>0 DEF Buckets
<1> HIDE DEF T
<1>2. PICK m \in T : \A n \in T : m <= n
  BY <1>1, LeastNat
<1>3. m \in Buckets /\ (m = NumBuckets \/ ms < Bounds[m])
  BY <1>2 DEF T
<1>4. ASSUME NEW c \in 1 .. m - 1
      PROVE  ms >= Bounds[c]
  <2>1. c \in Buckets /\ c # NumBuckets /\ c \notin T /\ Bounds[c] \in Nat
    BY <1>0, <1>2, <1>3, <1>4 DEF Buckets
  <2> QED
    BY <2>1 DEF T
<1> QED
  BY <1>3, <1>4 DEF BucketOf

-----------------------------------------------------------------------------
(* percentileMs does not decrease in its percentage.                       *)

\* Multiplication of naturals is monotone.
LEMMA TimesMonotone ==
    ASSUME NEW a \in Nat, NEW b \in Nat, NEW c \in Nat, a <= b
    PROVE  a * c <= b * c /\ c * a <= c * b /\ a * c \in Nat /\ b * c \in Nat
<1>1. b * c = a * c + (b - a) * c /\ (b - a) * c \in Nat /\ a * c \in Nat
  OBVIOUS
<1>2. c * a = a * c /\ c * b = b * c
  OBVIOUS
<1> QED
  BY <1>1, <1>2

\* Two values in one bucket, and two values in different ones.
LEMMA SameBucket ==
    ASSUME NEW lo \in Nat, NEW w \in Nat, NEW d \in Nat, NEW m \in Nat, NEW n \in Nat, m <= n
    PROVE  (lo * d + m * w) * d <= (lo * d + n * w) * d
<1>1. m * w <= n * w /\ m * w \in Nat /\ n * w \in Nat
  BY TimesMonotone
<1>2. lo * d \in Nat
  OBVIOUS
<1>3. lo * d + m * w \in Nat /\ lo * d + n * w \in Nat /\ lo * d + m * w <= lo * d + n * w
  BY <1>1, <1>2
<1> QED
  BY <1>3, TimesMonotone

\* A point of one bucket is at most a point of a later one, in fractions with
\* different denominators.
LEMMA OtherBucket ==
    ASSUME NEW lo \in Nat, NEW hi \in Nat, NEW lo2 \in Nat, NEW hi2 \in Nat,
           lo <= hi, hi <= lo2, lo2 <= hi2,
           NEW d \in Nat, NEW f \in Nat, NEW d2 \in Nat, NEW f2 \in Nat, f <= d
    PROVE  (lo * d + f * (hi - lo)) * d2 <= (lo2 * d2 + f2 * (hi2 - lo2)) * d
<1>1. hi - lo \in Nat /\ hi2 - lo2 \in Nat
  OBVIOUS
<1>2. f * (hi - lo) <= d * (hi - lo) /\ f * (hi - lo) \in Nat /\ d * (hi - lo) \in Nat
  BY <1>1, TimesMonotone
<1>3. lo * d \in Nat /\ lo * d + d * (hi - lo) = hi * d /\ hi * d \in Nat
  OBVIOUS
<1>4. lo * d + f * (hi - lo) <= hi * d /\ lo * d + f * (hi - lo) \in Nat
  BY <1>2, <1>3
<1>5. (lo * d + f * (hi - lo)) * d2 <= (hi * d) * d2 /\ (hi * d) * d2 \in Nat
      /\ (lo * d + f * (hi - lo)) * d2 \in Nat
  BY <1>3, <1>4, TimesMonotone
<1>6. hi * d <= lo2 * d /\ lo2 * d \in Nat
  BY TimesMonotone
<1>7. (hi * d) * d2 <= (lo2 * d) * d2 /\ (lo2 * d) * d2 \in Nat
  BY <1>3, <1>6, TimesMonotone
<1>8. (lo2 * d) * d2 = (lo2 * d2) * d
  OBVIOUS
<1>9. f2 * (hi2 - lo2) \in Nat /\ lo2 * d2 \in Nat
  BY <1>1, TimesMonotone
<1>10. (lo2 * d2) * d <= (lo2 * d2 + f2 * (hi2 - lo2)) * d /\ (lo2 * d2 + f2 * (hi2 - lo2)) * d \in Nat
  <2>1. lo2 * d2 <= lo2 * d2 + f2 * (hi2 - lo2) /\ lo2 * d2 + f2 * (hi2 - lo2) \in Nat
    BY <1>9
  <2> QED
    BY <1>9, <2>1, TimesMonotone
<1> QED
  BY <1>5, <1>7, <1>8, <1>10

\* A higher percentage asks for a higher rank.
LEMMA TargetMonotone ==
    ASSUME NEW s \in Snap, NEW p \in Nat, NEW q \in Nat, p <= q
    PROVE  Target(s, p) \in Nat /\ Target(s, q) \in Nat /\ Target(s, p) <= Target(s, q)
<1>1. s.samples \in Nat
  BY DEF Snap
<1>2. p * s.samples <= q * s.samples /\ p * s.samples \in Nat /\ q * s.samples \in Nat
  BY <1>1, TimesMonotone
<1> QED
  BY <1>2 DEF Target, Max2

\* The bucket of a percentile is the first that reaches its rank, or the last.
LEMMA PercentileBucketFound ==
    ASSUME NEW s \in Snap, NEW p \in Nat
    PROVE  LET b == PercentileBucket(s, p)
           IN  /\ b \in Buckets
               /\ b = NumBuckets \/ 100 * Below(s.hist, b) >= Target(s, p)
               /\ \A c \in 1 .. b - 1 : 100 * Below(s.hist, c) < Target(s, p)
<1>0. NumBuckets \in Nat /\ NumBuckets >= 2
  BY StatsAssumption
<1>1. s.hist \in [Buckets -> Nat] /\ Target(s, p) \in Nat
  BY TargetMonotone DEF Snap
<1> DEFINE T == {b \in Buckets : b = NumBuckets \/ 100 * Below(s.hist, b) >= Target(s, p)}
<1>2. T \in SUBSET Nat /\ T # {}
  BY <1>0 DEF Buckets
<1> HIDE DEF T
<1>3. PICK m \in T : \A n \in T : m <= n
  BY <1>2, LeastNat
<1>4. m \in Buckets /\ (m = NumBuckets \/ 100 * Below(s.hist, m) >= Target(s, p))
  BY <1>3 DEF T
<1>5. ASSUME NEW c \in 1 .. m - 1
      PROVE  100 * Below(s.hist, c) < Target(s, p)
  <2>1. c \in Buckets /\ c \in 0 .. NumBuckets /\ c \notin T
    BY <1>0, <1>3, <1>4 DEF Buckets
  <2>2. Below(s.hist, c) \in Nat
    BY <1>1, <2>1, BelowUnfolds
  <2> QED
    BY <1>1, <2>1, <2>2 DEF T
<1> QED
  BY <1>4, <1>5 DEF PercentileBucket

\* A higher percentage is not in an earlier bucket.
LEMMA PercentileBucketMonotone ==
    ASSUME NEW s \in Snap, NEW p \in Nat, NEW q \in Nat, p <= q
    PROVE  PercentileBucket(s, p) <= PercentileBucket(s, q)
<1>0. NumBuckets \in Nat
  BY StatsAssumption
<1> DEFINE b == PercentileBucket(s, p)
           c == PercentileBucket(s, q)
<1>1. b \in Buckets /\ c \in Buckets
  BY PercentileBucketFound
<1> SUFFICES ASSUME c < b
             PROVE  FALSE
  BY <1>0, <1>1 DEF Buckets
<1>2. c \in 1 .. b - 1 /\ c # NumBuckets
  BY <1>0, <1>1 DEF Buckets
<1>3. 100 * Below(s.hist, c) < Target(s, p)
  BY <1>2, PercentileBucketFound
<1>4. 100 * Below(s.hist, c) >= Target(s, q)
  BY <1>2, PercentileBucketFound
<1>5. Below(s.hist, c) \in Nat
  <2>1. s.hist \in [Buckets -> Nat] /\ c \in 0 .. NumBuckets
    BY <1>0, <1>1 DEF Snap, Buckets
  <2> QED
    BY <2>1, BelowUnfolds
<1> HIDE DEF b, c
<1> QED
  BY <1>3, <1>4, <1>5, TargetMonotone

\* Buckets do not overlap.
LEMMA BucketEdges ==
    ASSUME NEW b \in Buckets, NEW c \in Buckets
    PROVE  /\ Lo(b) \in Nat /\ Hi(b) \in Nat /\ Lo(b) <= Hi(b)
           /\ b < c => Hi(b) <= Lo(c)
<1>0. /\ NumBuckets \in Nat /\ NumBuckets >= 2 /\ Bounds \in [1 .. NumBuckets - 1 -> Nat \ {0}]
      /\ \A i, j \in 1 .. NumBuckets - 1 : i < j => Bounds[i] < Bounds[j]
  BY StatsAssumption
<1>1. \A d \in Buckets : Hi(d) \in Nat
  BY <1>0 DEF Hi, Buckets
<1>2. \A d, e \in Buckets : d < e => Hi(d) <= Hi(e)
  <2> SUFFICES ASSUME NEW d \in Buckets, NEW e \in Buckets, d < e
               PROVE  Hi(d) <= Hi(e)
    OBVIOUS
  <2>1. d \in 1 .. NumBuckets - 1 /\ Hi(d) = Bounds[d]
    BY <1>0 DEF Hi, Buckets
  <2>2. CASE e < NumBuckets
    BY <1>0, <2>1, <2>2 DEF Hi, Buckets
  <2>3. CASE e = NumBuckets
    <3>1. NumBuckets - 1 \in 1 .. NumBuckets - 1 /\ Hi(e) = 2 * Bounds[NumBuckets - 1]
      BY <1>0, <2>3 DEF Hi
    <3>2. Bounds[d] <= Bounds[NumBuckets - 1] /\ Bounds[NumBuckets - 1] \in Nat
      BY <1>0, <2>1, <3>1
    <3> QED
      BY <1>0, <2>1, <3>1, <3>2
  <2> QED
    BY <1>0, <2>2, <2>3 DEF Buckets
<1>3. Lo(b) \in Nat /\ Lo(b) <= Hi(b)
  <2>1. CASE b = 1
    BY <1>1, <2>1 DEF Lo
  <2>2. CASE b # 1
    <3>1. b - 1 \in Buckets /\ b - 1 < b
      BY <1>0, <2>2 DEF Buckets
    <3> QED
      BY <1>1, <1>2, <2>2, <3>1 DEF Lo
  <2> QED
    BY <2>1, <2>2
<1>4. ASSUME b < c
      PROVE  Hi(b) <= Lo(c)
  <2>1. c # 1 /\ c - 1 \in Buckets /\ (b = c - 1 \/ b < c - 1)
    BY <1>0, <1>4 DEF Buckets
  <2> QED
    BY <1>1, <1>2, <2>1 DEF Lo
<1> QED
  BY <1>1, <1>3, <1>4

\* The place inside a bucket is a fraction that grows with the percentage.
LEMMA FractionProper ==
    ASSUME NEW s \in Snap, NEW p \in Nat, NEW q \in Nat, p <= q, NEW b \in Buckets
    PROVE  /\ Fraction(s, p, b).num \in Nat /\ Fraction(s, p, b).den \in Nat
           /\ Fraction(s, p, b).num <= Fraction(s, p, b).den
           /\ Fraction(s, q, b).den = Fraction(s, p, b).den
           /\ Fraction(s, p, b).num <= Fraction(s, q, b).num
<1>1. s.hist[b] \in Nat
  BY DEF Snap
<1>2. Target(s, p) \in Nat /\ Target(s, q) \in Nat /\ Target(s, p) <= Target(s, q)
  BY TargetMonotone
<1>3. Below(s.hist, b - 1) \in Nat
  <2>1. s.hist \in [Buckets -> Nat] /\ b - 1 \in 0 .. NumBuckets
    BY StatsAssumption DEF Snap, Buckets
  <2> QED
    BY <2>1, BelowUnfolds
<1> QED
  BY <1>1, <1>2, <1>3 DEF Fraction

\* percentileMs does not decrease with the percentage, on any snapshot.
LEMMA PercentileMonotone ==
    ASSUME NEW s \in Snap, NEW p \in Nat, NEW q \in Nat, p <= q
    PROVE  AtMost(Percentile(s, p), Percentile(s, q))
<1>1. CASE s.samples = 0
  BY <1>1 DEF Percentile, AtMost
<1>2. CASE s.samples # 0
  <2> DEFINE b == PercentileBucket(s, p)
             c == PercentileBucket(s, q)
             f == Fraction(s, p, b)
             g == Fraction(s, q, c)
  <2>1. b \in Buckets /\ c \in Buckets /\ b <= c
    BY PercentileBucketFound, PercentileBucketMonotone
  <2>2. /\ Percentile(s, p).num = Lo(b) * f.den + f.num * (Hi(b) - Lo(b)) /\ Percentile(s, p).den = f.den
        /\ Percentile(s, q).num = Lo(c) * g.den + g.num * (Hi(c) - Lo(c)) /\ Percentile(s, q).den = g.den
    BY <1>2 DEF Percentile
  <2>3. f.num \in Nat /\ f.den \in Nat /\ f.num <= f.den
    BY <2>1, FractionProper
  <2>4. g.num \in Nat /\ g.den \in Nat /\ (b = c => f.den = g.den /\ f.num <= g.num)
    BY <2>1, FractionProper
  <2> HIDE DEF b, c, f, g
  <2>5. /\ Lo(b) \in Nat /\ Hi(b) \in Nat /\ Lo(b) <= Hi(b) /\ Hi(b) - Lo(b) \in Nat
        /\ Lo(c) \in Nat /\ Hi(c) \in Nat /\ Lo(c) <= Hi(c)
    BY <2>1, BucketEdges
  <2>6. CASE b = c
    <3>1. (Lo(b) * f.den + f.num * (Hi(b) - Lo(b))) * f.den <= (Lo(b) * f.den + g.num * (Hi(b) - Lo(b))) * f.den
      BY <2>3, <2>4, <2>5, <2>6, SameBucket
    <3> QED
      BY <2>2, <2>4, <2>6, <3>1 DEF AtMost
  <2>7. CASE b # c
    <3>1. Hi(b) <= Lo(c)
      <4>1. b < c
        BY <2>1, <2>7, StatsAssumption DEF Buckets
      <4> QED
        BY <2>1, <4>1, BucketEdges
    <3>2. (Lo(b) * f.den + f.num * (Hi(b) - Lo(b))) * g.den <= (Lo(c) * g.den + g.num * (Hi(c) - Lo(c))) * f.den
      BY <2>3, <2>4, <2>5, <3>1, OtherBucket
    <3> QED
      BY <2>2, <3>2 DEF AtMost
  <2> QED
    BY <2>6, <2>7
<1> QED
  BY <1>1, <1>2

-----------------------------------------------------------------------------
(* The inductive invariant.  A worker is at rest or has a latency in hand; *)
(* the maximum it has read is never above the maximum there is; what a     *)
(* loader has loaded is never ahead of the counters nor behind what they   *)
(* were when it began, and what the reporter has loaded is never behind    *)
(* the snapshot before.                                                    *)

RecType == [pc : {"idle", "sum", "readMax", "casMax", "readWindow", "casWindow", "hist"},
            ms : Nat, prev : Nat]
LoadType == [pc : 0 .. Loaded, for : {"none", "mark", "report", "interval"}, snap : Snap,
             start : [Buckets -> Nat]]

CountersTyped == /\ samples \in Nat /\ sum \in Nat /\ hist \in [Buckets -> Nat]
                 /\ maxMs \in Nat /\ windowMax \in Nat
RecTyped == rec \in [Recorder -> RecType] /\ bumped \in SUBSET Latencies
                /\ recorded \in 0 .. MaxSamples
LoadTyped == load \in [Loader -> LoadType] /\ loads \in 0 .. MaxLoads
ReportTyped == /\ origin \in Snap /\ report \in Snap
               /\ prev \in [samples : Nat, sum : Nat] /\ shown \in [samples : Nat, sum : Nat]

RecSane == \A r \in Recorder :
    rec[r] = Quiescent \/ (rec[r].pc # "idle" /\ rec[r].ms \in Latencies)
CasBehind == \A r \in Recorder : rec[r].pc = "casMax" => rec[r].prev <= maxMs

Behind(snap) == /\ snap.samples <= samples /\ snap.sum <= sum
                /\ \A b \in Buckets : snap.hist[b] <= hist[b]
LoadsBehind == \A l \in Loader : Behind(load[l].snap)

\* What was recorded when a load began is in the buckets it has loaded and in
\* the buckets still to be loaded.
Ahead(d) == /\ \A b \in Buckets : d.start[b] <= hist[b] /\ (b < d.pc => d.start[b] <= d.snap.hist[b])
            /\ Below(d.start, NumBuckets) <= d.snap.samples
LoadsAhead == \A l \in Loader : Ahead(load[l])

OneInterval == \A k, l \in Loader :
    load[k].for = "interval" /\ load[l].for = "interval" => k = l
IntervalAhead == \A l \in Loader : load[l].for = "interval" =>
    /\ prev.samples <= load[l].snap.samples
    /\ load[l].pc >= 1 => prev.sum <= load[l].snap.sum

MaxInv == RecSane /\ CasBehind /\ MaxIsLargest
CountInv == IsFiniteSet(Busy) /\ SamplesConserved
LoadInv == LoadsBehind /\ LoadsAhead /\ OneInterval /\ IntervalAhead /\ IntervalsAddUp
StatsInv == TypeOK /\ MaxInv /\ CountInv /\ LoadInv

\* The type invariant is the conjunction of its groups, before and after a step.
LEMMA TypeGroups ==
    /\ TypeOK <=> CountersTyped /\ RecTyped /\ LoadTyped /\ ReportTyped
    /\ TypeOK' <=> CountersTyped' /\ RecTyped' /\ LoadTyped' /\ ReportTyped'
BY DEF TypeOK, CountersTyped, RecTyped, LoadTyped, ReportTyped, RecType, LoadType

\* The constants of the module have their types.
LEMMA Constant ==
    /\ Loaded \in Nat /\ Loaded = NumBuckets + 1 /\ NumBuckets \in Nat /\ NumBuckets >= 2
    /\ ZeroSnap \in Snap /\ Quiescent \in RecType /\ NotLoading \in LoadType
    /\ \A b \in Buckets : b \in Nat /\ ZeroSnap.hist[b] = 0
    /\ Latencies \subseteq Nat /\ MaxSamples \in Nat /\ MaxLoads \in Nat
<1>1. NumBuckets \in Nat /\ NumBuckets >= 2 /\ Loaded = NumBuckets + 1 /\ Loaded \in Nat
  BY StatsAssumption DEF Loaded
<1>2. ZeroSnap \in Snap /\ \A b \in Buckets : b \in Nat /\ ZeroSnap.hist[b] = 0
  BY <1>1 DEF ZeroSnap, Snap, Buckets
<1>3. Quiescent \in RecType
  BY DEF Quiescent, RecType
<1>4. NotLoading \in LoadType
  <2>1. ZeroSnap.hist \in [Buckets -> Nat] /\ 0 \in 0 .. Loaded
    BY <1>1, <1>2 DEF Snap
  <2> QED
    BY <1>2, <2>1 DEF NotLoading, LoadType
<1> QED
  BY <1>1, <1>2, <1>3, <1>4, StatsAssumption

-----------------------------------------------------------------------------
(* A worker's step.                                                        *)

\* A worker that records touches neither windows nor reports.
LEMMA RecordFrame ==
    ASSUME NEW r \in Recorder, RecordStep(r)
    PROVE  origin' = origin /\ load' = load /\ report' = report /\ prev' = prev
           /\ shown' = shown /\ loads' = loads
BY DEF RecordStep, BeginRecord, AddSum, ReadMax, CasMax, ReadWindowMax, CasWindowMax, AddHist,
       Step, reporter

\* It touches no worker but its own.
LEMMA RecordOwn ==
    ASSUME TypeOK, RecSane, NEW r \in Recorder, RecordStep(r)
    PROVE  /\ rec'[r] \in RecType /\ rec' = [rec EXCEPT ![r] = rec'[r]]
           /\ rec'[r] = Quiescent \/ (rec'[r].pc # "idle" /\ rec'[r].ms \in Latencies)
           /\ CountersTyped'
           /\ bumped' \in SUBSET Latencies /\ recorded' \in 0 .. MaxSamples
<1>1. rec \in [Recorder -> RecType] /\ bumped \in SUBSET Latencies /\ recorded \in 0 .. MaxSamples
  BY TypeGroups DEF RecTyped
<1>2. CountersTyped
  BY TypeGroups
<1>3. rec[r] \in RecType
  BY <1>1
<1>4. rec[r].ms \in Nat /\ rec[r].prev \in Nat
  BY <1>3 DEF RecType
<1>5. rec[r].pc # "idle" => rec[r].ms \in Latencies
  BY DEF RecSane, Quiescent
<1>6. \A pc \in {"readMax", "readWindow", "hist"} :
          [rec[r] EXCEPT !.pc = pc] \in RecType
  BY <1>3 DEF RecType
<1>7. CASE \E ms \in Latencies : BeginRecord(r, ms)
  <2>1. PICK ms \in Latencies : BeginRecord(r, ms)
    BY <1>7
  <2>2. [pc |-> "sum", ms |-> ms, prev |-> 0] \in RecType
    BY Constant DEF RecType
  <2> QED
    BY <1>1, <1>2, <2>1, <2>2, Constant DEF BeginRecord, CountersTyped
<1>8. CASE AddSum(r)
  <2>1. rec' = [rec EXCEPT ![r] = [rec[r] EXCEPT !.pc = "readMax"]]
    BY <1>1, <1>8 DEF AddSum, Step
  <2> QED
    BY <1>1, <1>2, <1>3, <1>4, <1>5, <1>6, <1>8, <2>1 DEF AddSum, CountersTyped, RecType
<1>9. CASE ReadMax(r)
  <2>1. rec' = [rec EXCEPT ![r] = [rec[r] EXCEPT !.pc = "casMax", !.prev = maxMs]]
    BY <1>1, <1>9 DEF ReadMax
  <2>2. [rec[r] EXCEPT !.pc = "casMax", !.prev = maxMs] \in RecType
    BY <1>2, <1>3 DEF RecType, CountersTyped
  <2> QED
    BY <1>1, <1>2, <1>3, <1>5, <1>9, <2>1, <2>2 DEF ReadMax, CountersTyped, counters, RecType
<1>10. CASE CasMax(r)
  <2>1. rec' = [rec EXCEPT ![r] = [rec[r] EXCEPT !.pc = "readWindow"]]
        \/ rec' = [rec EXCEPT ![r] = [rec[r] EXCEPT !.prev = maxMs]]
    BY <1>1, <1>10 DEF CasMax, Step
  <2>2. [rec[r] EXCEPT !.prev = maxMs] \in RecType
    BY <1>2, <1>3 DEF RecType, CountersTyped
  <2>3. rec[r].pc = "casMax"
    BY <1>10 DEF CasMax
  <2>4. CountersTyped' /\ bumped' \in SUBSET Latencies /\ recorded' \in 0 .. MaxSamples
    BY <1>1, <1>2, <1>4, <1>5, <1>10 DEF CasMax, CountersTyped
  <2> QED
    BY <1>1, <1>3, <1>5, <1>6, <2>1, <2>2, <2>3, <2>4 DEF RecType
<1>11. CASE ReadWindowMax(r)
  <2>1. rec' = [rec EXCEPT ![r] = [rec[r] EXCEPT !.pc = "casWindow", !.prev = windowMax]]
    BY <1>1, <1>11 DEF ReadWindowMax
  <2>2. [rec[r] EXCEPT !.pc = "casWindow", !.prev = windowMax] \in RecType
    BY <1>2, <1>3 DEF RecType, CountersTyped
  <2> QED
    BY <1>1, <1>2, <1>3, <1>5, <1>11, <2>1, <2>2 DEF ReadWindowMax, CountersTyped, counters, RecType
<1>12. CASE CasWindowMax(r)
  <2>1. rec' = [rec EXCEPT ![r] = [rec[r] EXCEPT !.pc = "hist"]]
        \/ rec' = [rec EXCEPT ![r] = [rec[r] EXCEPT !.prev = windowMax]]
    BY <1>1, <1>12 DEF CasWindowMax, Step
  <2>2. [rec[r] EXCEPT !.prev = windowMax] \in RecType
    BY <1>2, <1>3 DEF RecType, CountersTyped
  <2>3. rec[r].pc = "casWindow"
    BY <1>12 DEF CasWindowMax
  <2>4. CountersTyped' /\ bumped' \in SUBSET Latencies /\ recorded' \in 0 .. MaxSamples
    BY <1>1, <1>2, <1>4, <1>12 DEF CasWindowMax, CountersTyped
  <2> QED
    BY <1>1, <1>3, <1>5, <1>6, <2>1, <2>2, <2>3, <2>4 DEF RecType
<1>13. CASE AddHist(r)
  <2>1. hist' \in [Buckets -> Nat]
    <3>1. hist \in [Buckets -> Nat] /\ BucketOf(rec[r].ms) \in Buckets
      BY <1>2, <1>4, BucketOfTyped DEF CountersTyped
    <3> QED
      BY <1>13, <3>1 DEF AddHist, Counted
  <2>2. rec' = [rec EXCEPT ![r] = Quiescent]
    BY <1>13 DEF AddHist
  <2>3. CountersTyped'
    BY <1>2, <1>13, <2>1 DEF AddHist, CountersTyped
  <2> QED
    BY <1>1, <1>13, <2>2, <2>3, Constant DEF AddHist
<1> QED
  BY <1>7, <1>8, <1>9, <1>10, <1>11, <1>12, <1>13 DEF RecordStep

\* A worker that records keeps the types and its own state sane.
LEMMA RecordTyped ==
    ASSUME TypeOK, RecSane, NEW r \in Recorder, RecordStep(r)
    PROVE  TypeOK' /\ RecSane'
<1>1. rec \in [Recorder -> RecType] /\ LoadTyped /\ ReportTyped
  BY TypeGroups DEF RecTyped
<1>2. /\ rec'[r] \in RecType /\ rec' = [rec EXCEPT ![r] = rec'[r]]
      /\ rec'[r] = Quiescent \/ (rec'[r].pc # "idle" /\ rec'[r].ms \in Latencies)
      /\ CountersTyped' /\ bumped' \in SUBSET Latencies /\ recorded' \in 0 .. MaxSamples
  BY RecordOwn
<1>3. rec' \in [Recorder -> RecType] /\ \A k \in Recorder \ {r} : rec'[k] = rec[k]
  BY <1>1, <1>2
<1>4. RecSane'
  BY <1>2, <1>3 DEF RecSane, Quiescent
<1>5. LoadTyped' /\ ReportTyped'
  BY <1>1, RecordFrame DEF LoadTyped, ReportTyped
<1> QED
  BY <1>2, <1>3, <1>4, <1>5, TypeGroups DEF RecTyped

\* The compare-and-exchange loop loses no latency.
LEMMA RecordMax ==
    ASSUME TypeOK, MaxInv, NEW r \in Recorder, RecordStep(r)
    PROVE  CasBehind' /\ MaxIsLargest'
<1>1. /\ rec \in [Recorder -> RecType] /\ maxMs \in Nat /\ bumped \in SUBSET Latencies
      /\ Latencies \subseteq Nat
  BY TypeGroups, Constant DEF RecTyped, CountersTyped
<1>2. rec[r] \in RecType /\ rec[r].ms \in Nat /\ rec[r].prev \in Nat
  BY <1>1 DEF RecType
<1>3. CASE CasMax(r)
  <2>0. rec[r].ms \in Latencies /\ rec[r].ms \in Nat /\ rec[r].prev <= maxMs
    BY <1>1, <1>3 DEF CasMax, MaxInv, RecSane, CasBehind, Quiescent
  <2>1. ASSUME rec[r].ms > rec[r].prev, maxMs = rec[r].prev, maxMs' = rec[r].ms,
               rec' = [rec EXCEPT ![r].pc = "readWindow"], bumped' = bumped \union {rec[r].ms}
        PROVE  CasBehind' /\ MaxIsLargest'
    <3>1. MaxIsLargest'
      BY <1>1, <1>2, <2>0, <2>1 DEF MaxInv, MaxIsLargest
    <3>2. \A k \in Recorder : rec'[k].pc = "casMax" => rec'[k] = rec[k] /\ rec[k].prev \in Nat
      BY <1>1, <2>1 DEF RecType
    <3> QED
      BY <1>1, <1>2, <2>0, <2>1, <3>1, <3>2 DEF MaxInv, CasBehind
  <2>2. ASSUME rec' = [rec EXCEPT ![r].prev = maxMs], maxMs' = maxMs, bumped' = bumped
        PROVE  CasBehind' /\ MaxIsLargest'
    <3>1. rec'[r].prev = maxMs /\ \A k \in Recorder \ {r} : rec'[k] = rec[k]
      BY <1>1, <1>2, <2>2 DEF RecType
    <3> QED
      BY <1>1, <2>2, <3>1 DEF MaxInv, CasBehind, MaxIsLargest
  <2>3. ASSUME rec[r].ms <= rec[r].prev, rec' = [rec EXCEPT ![r].pc = "readWindow"],
               bumped' = bumped \union {rec[r].ms}, maxMs' = maxMs
        PROVE  CasBehind' /\ MaxIsLargest'
    <3>1. MaxIsLargest'
      BY <1>1, <1>2, <2>0, <2>3 DEF MaxInv, MaxIsLargest
    <3>2. \A k \in Recorder : rec'[k].pc = "casMax" => rec'[k] = rec[k]
      BY <1>1, <2>3 DEF RecType
    <3> QED
      BY <2>3, <3>1, <3>2 DEF MaxInv, CasBehind
  <2> QED
    BY <1>3, <2>1, <2>2, <2>3 DEF CasMax, StoreMax, Step
<1>4. ASSUME maxMs' = maxMs, bumped' = bumped, rec' = [rec EXCEPT ![r] = rec'[r]],
             rec'[r].pc # "casMax" \/ rec'[r].prev = maxMs
      PROVE  CasBehind' /\ MaxIsLargest'
  <2>1. \A k \in Recorder \ {r} : rec'[k] = rec[k]
    BY <1>1, <1>4
  <2> QED
    BY <1>1, <1>4, <2>1 DEF MaxInv, CasBehind, MaxIsLargest
<1>5. rec' = [rec EXCEPT ![r] = rec'[r]]
  BY RecordOwn DEF MaxInv
<1>6. CASE ~CasMax(r)
  <2>1. maxMs' = maxMs /\ bumped' = bumped
    BY <1>6 DEF RecordStep, BeginRecord, AddSum, ReadMax, ReadWindowMax, CasWindowMax, AddHist,
                counters
  <2>2. rec'[r].pc # "casMax" \/ rec'[r].prev = maxMs
    BY <1>1, <1>2, <1>6 DEF RecordStep, BeginRecord, AddSum, ReadMax, ReadWindowMax, CasWindowMax,
                            AddHist, Step, Quiescent, RecType
  <2> QED
    BY <1>4, <1>5, <2>1, <2>2
<1> QED
  BY <1>3, <1>6

\* A sample is in the histogram or in the hands of one worker.
LEMMA RecordCounts ==
    ASSUME TypeOK, RecSane, CountInv, NEW r \in Recorder, RecordStep(r)
    PROVE  CountInv'
<1>1. /\ rec \in [Recorder -> RecType] /\ samples \in Nat /\ hist \in [Buckets -> Nat]
      /\ rec[r].ms \in Nat
  BY TypeGroups DEF RecTyped, CountersTyped, RecType
<1>2. IsFiniteSet(Busy) /\ samples = Below(hist, NumBuckets) + Cardinality(Busy)
      /\ Cardinality(Busy) \in Nat
  BY FS_CardinalityType DEF CountInv, SamplesConserved
<1>3. Below(hist, NumBuckets) \in Nat
  BY <1>1, Constant, BelowUnfolds
<1>4. rec' = [rec EXCEPT ![r] = rec'[r]]
  BY RecordOwn
<1>5. CASE \E ms \in Latencies : BeginRecord(r, ms)
  <2>1. samples' = samples + 1 /\ hist' = hist /\ rec[r] = Quiescent /\ rec'[r] # Quiescent
    BY <1>1, <1>5 DEF BeginRecord, Quiescent
  <2>2. r \notin Busy /\ Busy' = Busy \union {r}
    BY <1>1, <1>4, <2>1 DEF Busy, Quiescent
  <2>3. IsFiniteSet(Busy') /\ Cardinality(Busy') = Cardinality(Busy) + 1
    BY <1>2, <2>2, FS_AddElement
  <2> QED
    BY <1>2, <1>3, <2>1, <2>3 DEF CountInv, SamplesConserved
<1>6. CASE AddHist(r)
  <2>1. samples' = samples /\ rec[r] # Quiescent /\ rec'[r] = Quiescent
        /\ hist' = [hist EXCEPT ![BucketOf(rec[r].ms)] = @ + 1]
    BY <1>1, <1>6 DEF AddHist, Counted, Quiescent
  <2>2. r \in Busy /\ Busy' = Busy \ {r}
    BY <1>1, <1>4, <2>1 DEF Busy, Quiescent
  <2>3. IsFiniteSet(Busy') /\ Cardinality(Busy') = Cardinality(Busy) - 1
    BY <1>2, <2>2, FS_RemoveElement
  <2>4. Below(hist', NumBuckets) = Below(hist, NumBuckets) + 1
    BY <1>1, <2>1, BucketOfTyped, BelowCounts
  <2> QED
    BY <1>2, <1>3, <2>1, <2>3, <2>4 DEF CountInv, SamplesConserved
<1>7. CASE ~AddHist(r) /\ ~\E ms \in Latencies : BeginRecord(r, ms)
  <2>1. samples' = samples /\ hist' = hist /\ rec[r] # Quiescent /\ rec'[r] # Quiescent
    <3>1. rec[r].pc # "idle" /\ samples' = samples /\ hist' = hist
      BY <1>7 DEF RecordStep, AddSum, ReadMax, CasMax, ReadWindowMax, CasWindowMax, counters
    <3>2. rec'[r].pc # "idle"
      BY <1>1, <1>7, <3>1
         DEF RecordStep, AddSum, ReadMax, CasMax, ReadWindowMax, CasWindowMax, Step, RecType
    <3> QED
      BY <3>1, <3>2 DEF Quiescent
  <2>2. Busy' = Busy
    BY <1>1, <1>4, <2>1 DEF Busy, Quiescent
  <2> QED
    BY <1>2, <2>1, <2>2 DEF CountInv, SamplesConserved
<1> QED
  BY <1>5, <1>6, <1>7

\* Counters only grow, so what was loaded stays behind them.
LEMMA RecordGrows ==
    ASSUME TypeOK, NEW r \in Recorder, RecordStep(r)
    PROVE  /\ samples <= samples' /\ sum <= sum'
           /\ \A b \in Buckets : hist[b] <= hist'[b] /\ hist[b] \in Nat /\ hist'[b] \in Nat
           /\ samples' \in Nat /\ sum' \in Nat
<1>1. CountersTyped /\ rec \in [Recorder -> RecType] /\ rec[r].ms \in Nat
  BY TypeGroups DEF RecTyped, RecType
<1>2. CASE AddHist(r)
  <2>1. BucketOf(rec[r].ms) \in Buckets
    BY <1>1, BucketOfTyped
  <2> QED
    BY <1>1, <1>2, <2>1 DEF AddHist, Counted, CountersTyped
<1>3. CASE ~AddHist(r)
  <2>1. hist' = hist
    BY <1>3 DEF RecordStep, BeginRecord, AddSum, ReadMax, CasMax, ReadWindowMax, CasWindowMax,
                counters
  <2>2. samples' \in {samples, samples + 1} /\ sum' \in {sum, sum + rec[r].ms}
    BY <1>3 DEF RecordStep, BeginRecord, AddSum, ReadMax, CasMax, ReadWindowMax, CasWindowMax,
                counters
  <2> QED
    BY <1>1, <2>1, <2>2 DEF CountersTyped
<1> QED
  BY <1>2, <1>3

\* Counters that grow stay ahead of what was loaded of them.
LEMMA RecordLoads ==
    ASSUME TypeOK, LoadInv, NEW r \in Recorder, RecordStep(r)
    PROVE  LoadInv'
<1>1. CountersTyped /\ load \in [Loader -> LoadType] /\ origin \in Snap /\ prev \in [samples : Nat, sum : Nat]
  BY TypeGroups DEF LoadTyped, ReportTyped
<1>2. /\ samples <= samples' /\ sum <= sum' /\ samples' \in Nat /\ sum' \in Nat
      /\ \A b \in Buckets : hist[b] <= hist'[b] /\ hist[b] \in Nat /\ hist'[b] \in Nat
  BY RecordGrows
<1>3. origin' = origin /\ load' = load /\ prev' = prev /\ shown' = shown
  BY RecordFrame
<1>4. ASSUME NEW s \in Snap, s.samples <= samples, s.sum <= sum,
             \A b \in Buckets : s.hist[b] <= hist[b]
      PROVE  /\ s.samples <= samples' /\ s.sum <= sum'
             /\ \A b \in Buckets : s.hist[b] <= hist'[b]
  BY <1>1, <1>2, <1>4 DEF Snap, CountersTyped
<1>5. LoadsBehind'
  <2>1. \A l \in Loader : load[l].snap \in Snap
    BY <1>1 DEF LoadType
  <2> QED
    BY <1>3, <1>4, <2>1 DEF LoadInv, LoadsBehind, Behind
<1>6. LoadsAhead'
  <2>1. \A l \in Loader : \A b \in Buckets : load[l].start[b] \in Nat
    BY <1>1 DEF LoadType
  <2> QED
    BY <1>2, <1>3, <2>1 DEF LoadInv, LoadsAhead, Ahead
<1>7. OneInterval' /\ IntervalAhead'
  BY <1>3 DEF LoadInv, OneInterval, IntervalAhead
<1>8. IntervalsAddUp'
  BY <1>1, <1>2, <1>3 DEF LoadInv, IntervalsAddUp, CountersTyped
<1> QED
  BY <1>5, <1>6, <1>7, <1>8 DEF LoadInv

-----------------------------------------------------------------------------
(* A loader's step.                                                        *)

\* A loader touches no counter.
LEMMA LoadFrame ==
    ASSUME NEW l \in Loader, LoadStep(l)
    PROVE  samples' = samples /\ sum' = sum /\ hist' = hist /\ maxMs' = maxMs
           /\ rec' = rec /\ bumped' = bumped /\ recorded' = recorded
BY DEF LoadStep, BeginLoad, LoadNext, MarkWindow, LoadWindow, ReportInterval, counters

\* The difference of two snapshots is a snapshot.
LEMMA MinusTyped ==
    ASSUME NEW s \in Snap, NEW from \in Snap
    PROVE  Minus(s, from) \in Snap
BY DEF Minus, SatSub, Snap

\* The record a loader goes on with.
Fresh(for) == [pc |-> 0, for |-> for, snap |-> [ZeroSnap EXCEPT !.samples = samples], start |-> hist]
Deeper(l) == [load[l] EXCEPT !.pc = @ + 1, !.snap = Field(load[l].snap, load[l].pc)]

\* A load that begins is behind the counters, and has all that was recorded
\* before it.
LEMMA FreshFacts ==
    ASSUME CountersTyped, CountInv, NEW for \in {"mark", "report", "interval"}
    PROVE  Fresh(for) \in LoadType /\ Behind(Fresh(for).snap) /\ Ahead(Fresh(for))
<1>1. [ZeroSnap EXCEPT !.samples = samples] \in Snap
  BY DEF ZeroSnap, Snap, CountersTyped
<1>2. /\ [ZeroSnap EXCEPT !.samples = samples].samples = samples
      /\ [ZeroSnap EXCEPT !.samples = samples].sum = 0
      /\ \A b \in Buckets : [ZeroSnap EXCEPT !.samples = samples].hist[b] = 0
  BY DEF ZeroSnap
<1>3. Behind([ZeroSnap EXCEPT !.samples = samples])
  BY <1>2 DEF Behind, CountersTyped
<1>4. 0 \in 0 .. Loaded /\ hist \in [Buckets -> Nat]
  BY Constant DEF CountersTyped
<1>5. Below(hist, NumBuckets) <= samples
  <2>1. Cardinality(Busy) \in Nat /\ Below(hist, NumBuckets) \in Nat
    BY <1>4, FS_CardinalityType, Constant, BelowUnfolds DEF CountInv
  <2> QED
    BY <2>1 DEF CountInv, SamplesConserved
<1>6. \A b \in Buckets : hist[b] \in Nat /\ b \in Nat
  BY <1>4, Constant
<1>7. Fresh(for) \in LoadType
  BY <1>1, <1>4 DEF Fresh, LoadType
<1>8. /\ Fresh(for).start = hist /\ Fresh(for).pc = 0
      /\ Fresh(for).snap = [ZeroSnap EXCEPT !.samples = samples]
  BY DEF Fresh
<1>9. Ahead(Fresh(for))
  BY <1>2, <1>5, <1>6, <1>8 DEF Ahead
<1> QED
  BY <1>3, <1>7, <1>8, <1>9

\* A load that goes on by one field stays behind the counters, and stays ahead
\* of what they were when it began.
LEMMA DeeperFacts ==
    ASSUME CountersTyped, NEW l \in Loader, load[l] \in LoadType, Behind(load[l].snap),
           Ahead(load[l]), load[l].pc < Wanted(load[l].for)
    PROVE  /\ Deeper(l) \in LoadType /\ Behind(Deeper(l).snap) /\ Ahead(Deeper(l))
           /\ Deeper(l).pc = load[l].pc + 1 /\ Deeper(l).for = load[l].for
           /\ Deeper(l).snap.samples = load[l].snap.samples
           /\ load[l].for = "interval" => load[l].pc = 0 /\ Deeper(l).snap.sum = sum
<1> DEFINE s == load[l].snap
           p == load[l].pc
           d == Field(s, p)
<1>1. s \in Snap /\ p \in 0 .. Loaded /\ p \in Nat
  BY Constant DEF LoadType
<1>2. p < Loaded /\ p + 1 \in 0 .. Loaded /\ (load[l].for = "interval" => p = 0)
  BY <1>1, Constant DEF Wanted
<1>3. p # 0 => p \in Buckets
  BY <1>1, <1>2, Constant DEF Buckets
<1>4. /\ d \in Snap /\ Behind(d) /\ d.samples = s.samples /\ (p = 0 => d.sum = sum)
      /\ \A b \in Buckets : d.hist[b] = IF b = p THEN hist[b] ELSE s.hist[b]
  <2>1. CASE p = 0
    <3>1. [s EXCEPT !.sum = sum] \in Snap
      BY <1>1 DEF Snap, CountersTyped
    <3>2. \A b \in Buckets : b # p
      BY <2>1, Constant DEF Buckets
    <3>3. d = [s EXCEPT !.sum = sum]
      BY <2>1 DEF Field
    <3> HIDE DEF d
    <3> QED
      BY <1>1, <2>1, <3>1, <3>2, <3>3 DEF Behind, Snap, CountersTyped
  <2>2. CASE p # 0
    <3>1. s.hist \in [Buckets -> Nat] /\ hist \in [Buckets -> Nat]
      BY <1>1 DEF Snap, CountersTyped
    <3>2. [s EXCEPT !.hist[p] = hist[p]] = [s EXCEPT !.hist = [s.hist EXCEPT ![p] = hist[p]]]
      BY <1>1 DEF Snap
    <3>3. [s.hist EXCEPT ![p] = hist[p]] \in [Buckets -> Nat]
      BY <1>3, <2>2, <3>1
    <3>4. d = [s EXCEPT !.hist = [s.hist EXCEPT ![p] = hist[p]]]
      BY <2>2, <3>2 DEF Field
    <3> HIDE DEF d
    <3>5. d \in Snap /\ d.samples = s.samples /\ d.sum = s.sum /\ d.hist = [s.hist EXCEPT ![p] = hist[p]]
      BY <1>1, <3>3, <3>4 DEF Snap
    <3>6. \A b \in Buckets : d.hist[b] = IF b = p THEN hist[b] ELSE s.hist[b]
      BY <1>3, <2>2, <3>1, <3>5
    <3>7. \A b \in Buckets : d.hist[b] <= hist[b]
      BY <3>1, <3>6 DEF Behind
    <3> QED
      BY <2>2, <3>5, <3>6, <3>7 DEF Behind
  <2> QED
    BY <2>1, <2>2
<1>5. Deeper(l) = [load[l] EXCEPT !.pc = p + 1, !.snap = d]
  BY DEF Deeper, LoadType
<1> HIDE DEF d
<1>6. /\ Deeper(l) \in LoadType /\ Deeper(l).pc = p + 1 /\ Deeper(l).snap = d
      /\ Deeper(l).for = load[l].for /\ Deeper(l).start = load[l].start
  BY <1>2, <1>4, <1>5 DEF LoadType
<1>7. Ahead(Deeper(l))
  <2>1. \A b \in Buckets : b \in Nat /\ (b < p + 1 => b < p \/ b = p)
    BY <1>1, Constant
  <2> QED
    BY <1>4, <1>6, <2>1 DEF Ahead
<1> QED
  BY <1>2, <1>4, <1>6, <1>7

\* A loader at rest holds nothing.
LEMMA RestBehind ==
    ASSUME CountersTyped
    PROVE  Behind(NotLoading.snap) /\ Ahead(NotLoading)
<1>1. NotLoading.start = ZeroSnap.hist /\ NotLoading.snap = ZeroSnap /\ NotLoading.pc = 0
  BY DEF NotLoading
<1>2. /\ ZeroSnap.samples = 0 /\ ZeroSnap.sum = 0
      /\ \A b \in Buckets : ZeroSnap.hist[b] = 0 /\ b \in Nat /\ hist[b] \in Nat
  BY Constant DEF ZeroSnap, CountersTyped
<1>3. Behind(ZeroSnap)
  BY <1>2 DEF Behind, CountersTyped
<1> QED
  BY <1>1, <1>2, <1>3, BelowEmpty DEF Ahead

\* It touches no loader but its own, and what it holds is behind the counters.
LEMMA LoadOwn ==
    ASSUME TypeOK, CountInv, LoadInv, NEW l \in Loader, LoadStep(l)
    PROVE  /\ load'[l] \in LoadType /\ load' = [load EXCEPT ![l] = load'[l]]
           /\ Behind(load'[l].snap) /\ Ahead(load'[l])
           /\ windowMax' \in Nat /\ loads' \in 0 .. MaxLoads
           /\ ReportTyped'
<1>1. /\ CountersTyped /\ load \in [Loader -> LoadType] /\ loads \in 0 .. MaxLoads /\ ReportTyped
      /\ windowMax \in Nat /\ MaxLoads \in Nat
  BY TypeGroups, Constant DEF LoadTyped, CountersTyped
<1>2. load[l] \in LoadType /\ load[l].snap \in Snap /\ Behind(load[l].snap) /\ Ahead(load[l])
  BY <1>1 DEF LoadType, LoadInv, LoadsBehind, LoadsAhead
<1>3. NotLoading \in LoadType /\ Behind(NotLoading.snap) /\ Ahead(NotLoading)
  BY <1>1, RestBehind, Constant
<1>4. CASE \E for \in {"mark", "report", "interval"} : BeginLoad(l, for)
  <2>1. PICK for \in {"mark", "report", "interval"} : BeginLoad(l, for)
    BY <1>4
  <2>2. load' = [load EXCEPT ![l] = Fresh(for)]
    BY <2>1 DEF BeginLoad, Fresh
  <2>3. Fresh(for) \in LoadType /\ Behind(Fresh(for).snap) /\ Ahead(Fresh(for))
    BY <1>1, FreshFacts
  <2> QED
    BY <1>1, <1>2, <2>1, <2>2, <2>3 DEF BeginLoad, ReportTyped, reporter, counters
<1>5. CASE LoadNext(l)
  <2>1. load' = [load EXCEPT ![l] = Deeper(l)]
    BY <1>1, <1>5 DEF LoadNext, Deeper
  <2>2. Deeper(l) \in LoadType /\ Behind(Deeper(l).snap) /\ Ahead(Deeper(l))
    BY <1>1, <1>2, <1>5, DeeperFacts DEF LoadNext
  <2> QED
    BY <1>1, <1>2, <1>5, <2>1, <2>2 DEF LoadNext, ReportTyped, reporter, counters
<1>6. CASE MarkWindow(l)
  <2>1. origin' = load[l].snap /\ load' = [load EXCEPT ![l] = NotLoading] /\ windowMax' = 0
    BY <1>6 DEF MarkWindow
  <2> QED
    BY <1>1, <1>2, <1>3, <1>6, <2>1 DEF MarkWindow, ReportTyped, reporter
<1>7. CASE LoadWindow(l)
  <2>1. Minus(load[l].snap, origin) \in Snap
    BY <1>1, <1>2, MinusTyped DEF ReportTyped
  <2>2. [Minus(load[l].snap, origin) EXCEPT !.max = windowMax] \in Snap
    BY <1>1, <2>1 DEF Snap
  <2> QED
    BY <1>1, <1>2, <1>3, <1>7, <2>2 DEF LoadWindow, ReportTyped, reporter, counters
<1>8. CASE ReportInterval(l)
  <2>1. load[l].snap.samples \in Nat /\ load[l].snap.sum \in Nat
    BY <1>2 DEF Snap
  <2>2. prev' \in [samples : Nat, sum : Nat]
    BY <1>8, <2>1 DEF ReportInterval, NextPrev
  <2>3. shown' \in [samples : Nat, sum : Nat]
    BY <1>1, <1>8, <2>1 DEF ReportInterval, SatSub, ReportTyped
  <2> QED
    BY <1>1, <1>2, <1>3, <1>8, <2>2, <2>3 DEF ReportInterval, ReportTyped, counters
<1> QED
  BY <1>4, <1>5, <1>6, <1>7, <1>8 DEF LoadStep

\* A loader's step keeps all but the reporter's intervals, which come next.
LEMMA LoadKeeps ==
    ASSUME TypeOK, MaxInv, CountInv, LoadInv, NEW l \in Loader, LoadStep(l)
    PROVE  TypeOK' /\ MaxInv' /\ CountInv' /\ LoadsBehind' /\ LoadsAhead'
<1>1. CountersTyped /\ RecTyped /\ load \in [Loader -> LoadType]
  BY TypeGroups DEF LoadTyped
<1>2. /\ load'[l] \in LoadType /\ load' = [load EXCEPT ![l] = load'[l]]
      /\ Behind(load'[l].snap) /\ Ahead(load'[l])
      /\ windowMax' \in Nat /\ loads' \in 0 .. MaxLoads
      /\ ReportTyped'
  BY LoadOwn
<1>3. /\ samples' = samples /\ sum' = sum /\ hist' = hist /\ maxMs' = maxMs
      /\ rec' = rec /\ bumped' = bumped /\ recorded' = recorded
  BY LoadFrame
<1>4. TypeOK'
  <2>1. CountersTyped' /\ RecTyped'
    BY <1>1, <1>2, <1>3 DEF CountersTyped, RecTyped
  <2>2. LoadTyped'
    BY <1>1, <1>2 DEF LoadTyped
  <2> QED
    BY <1>2, <2>1, <2>2, TypeGroups
<1>5. MaxInv'
  BY <1>3 DEF MaxInv, RecSane, CasBehind, MaxIsLargest
<1>6. CountInv'
  <2>1. Busy' = Busy
    BY <1>3 DEF Busy
  <2> QED
    BY <1>3, <2>1 DEF CountInv, SamplesConserved
<1>7. LoadsBehind'
  <2>1. \A k \in Loader \ {l} : load'[k] = load[k]
    BY <1>1, <1>2
  <2>2. \A k \in Loader : Behind(load'[k].snap)
    BY <1>2, <2>1 DEF LoadInv, LoadsBehind
  <2> QED
    BY <1>3, <2>2 DEF LoadsBehind, Behind
<1>8. LoadsAhead'
  <2>1. \A k \in Loader \ {l} : load'[k] = load[k]
    BY <1>1, <1>2
  <2>2. \A k \in Loader : Ahead(load'[k])
    BY <1>2, <2>1 DEF LoadInv, LoadsAhead
  <2> QED
    BY <1>3, <2>2 DEF LoadsAhead, Ahead
<1> QED
  BY <1>4, <1>5, <1>6, <1>7, <1>8

\* The reporter is one thread: nothing comes between its snapshots.
LEMMA LoadIntervals ==
    ASSUME TypeOK, CountInv, LoadInv, NEW l \in Loader, LoadStep(l)
    PROVE  OneInterval' /\ IntervalAhead' /\ IntervalsAddUp'
<1>1. /\ CountersTyped /\ load \in [Loader -> LoadType]
      /\ prev \in [samples : Nat, sum : Nat] /\ shown \in [samples : Nat, sum : Nat]
  BY TypeGroups DEF LoadTyped, ReportTyped
<1>2. /\ load[l] \in LoadType /\ load[l].snap \in Snap /\ Behind(load[l].snap) /\ Ahead(load[l])
      /\ load[l].snap.samples \in Nat /\ load[l].snap.sum \in Nat /\ load[l].pc \in Nat
  BY <1>1, Constant DEF LoadType, Snap, LoadInv, LoadsBehind, LoadsAhead
<1>3. samples' = samples /\ sum' = sum
  BY LoadFrame
<1>4. load' = [load EXCEPT ![l] = load'[l]] /\ \A k \in Loader \ {l} : load'[k] = load[k]
  BY <1>1, LoadOwn
<1>5. prev.samples \in Nat /\ prev.sum \in Nat /\ samples \in Nat /\ sum \in Nat
  BY <1>1 DEF CountersTyped
<1>6. CASE \E for \in {"mark", "report", "interval"} : BeginLoad(l, for)
  <2>1. PICK for \in {"mark", "report", "interval"} : BeginLoad(l, for)
    BY <1>6
  <2>2. load'[l] = Fresh(for) /\ prev' = prev /\ shown' = shown
        /\ (for = "interval" => \A k \in Loader : load[k].for # "interval")
    BY <1>1, <2>1 DEF BeginLoad, Fresh, reporter
  <2>3. Fresh(for).for = for /\ Fresh(for).pc = 0 /\ Fresh(for).snap.samples = samples
    BY DEF Fresh, ZeroSnap
  <2>4. OneInterval'
    BY <1>4, <2>2, <2>3 DEF LoadInv, OneInterval
  <2>5. IntervalAhead'
    BY <1>4, <2>2, <2>3 DEF LoadInv, IntervalAhead, IntervalsAddUp
  <2> QED
    BY <1>3, <2>2, <2>4, <2>5 DEF LoadInv, IntervalsAddUp
<1>7. CASE LoadNext(l)
  <2>1. load'[l] = Deeper(l) /\ prev' = prev /\ shown' = shown /\ load[l].pc < Wanted(load[l].for)
    BY <1>1, <1>7 DEF LoadNext, Deeper, reporter
  <2>2. /\ Deeper(l).for = load[l].for /\ Deeper(l).snap.samples = load[l].snap.samples
        /\ load[l].for = "interval" => Deeper(l).snap.sum = sum
    BY <1>1, <1>2, <2>1, DeeperFacts
  <2>3. OneInterval'
    BY <1>4, <2>1, <2>2 DEF LoadInv, OneInterval
  <2>4. IntervalAhead'
    BY <1>4, <2>1, <2>2 DEF LoadInv, IntervalAhead, IntervalsAddUp
  <2> QED
    BY <1>3, <2>1, <2>3, <2>4 DEF LoadInv, IntervalsAddUp
<1>8. CASE MarkWindow(l) \/ LoadWindow(l)
  <2>1. load'[l].for = "none" /\ prev' = prev /\ shown' = shown
    BY <1>1, <1>8 DEF MarkWindow, LoadWindow, NotLoading, reporter
  <2> QED
    BY <1>3, <1>4, <2>1 DEF LoadInv, OneInterval, IntervalAhead, IntervalsAddUp
<1>9. CASE ReportInterval(l)
  <2>1. load'[l].for = "none" /\ load[l].for = "interval" /\ load[l].pc = 1
    BY <1>1, <1>9 DEF ReportInterval, NotLoading, Wanted
  <2>2. prev.samples <= load[l].snap.samples /\ prev.sum <= load[l].snap.sum
    BY <2>1 DEF LoadInv, IntervalAhead
  <2>3. /\ prev' = [samples |-> load[l].snap.samples, sum |-> load[l].snap.sum]
        /\ shown' = [samples |-> shown.samples + (load[l].snap.samples - prev.samples),
                     sum |-> shown.sum + (load[l].snap.sum - prev.sum)]
    BY <1>2, <1>5, <1>9, <2>2 DEF ReportInterval, NextPrev, SatSub
  <2>4. shown.samples = prev.samples /\ shown.sum = prev.sum
    BY DEF LoadInv, IntervalsAddUp
  <2>5. shown' = prev'
    BY <1>2, <1>5, <2>3, <2>4
  <2>6. prev'.samples <= samples' /\ prev'.sum <= sum'
    BY <1>2, <1>3, <2>3 DEF Behind
  <2>7. \A k \in Loader : load'[k].for # "interval"
    BY <1>4, <2>1 DEF LoadInv, OneInterval
  <2> QED
    BY <2>5, <2>6, <2>7 DEF OneInterval, IntervalAhead, IntervalsAddUp
<1> QED
  BY <1>6, <1>7, <1>8, <1>9 DEF LoadStep

-----------------------------------------------------------------------------
\* The invariant holds initially.
LEMMA StatsInitially == Init => StatsInv
<1> SUFFICES ASSUME Init
             PROVE  StatsInv
  OBVIOUS
<1>1. TypeOK
  <2>1. CountersTyped
    BY Constant DEF Init, CountersTyped, ZeroSnap
  <2>2. RecTyped /\ LoadTyped
    BY Constant DEF Init, RecTyped, LoadTyped
  <2>3. ReportTyped
    BY Constant DEF Init, ReportTyped
  <2> QED
    BY <2>1, <2>2, <2>3, TypeGroups
<1>2. MaxInv
  BY DEF Init, MaxInv, RecSane, CasBehind, MaxIsLargest, Quiescent
<1>3. CountInv
  <2>1. Busy = {}
    BY DEF Init, Busy
  <2> QED
    BY <2>1, BelowEmpty, FS_EmptySet DEF Init, CountInv, SamplesConserved
<1>4. LoadInv
  <2>1. \A l \in Loader : load[l] = NotLoading
    BY DEF Init
  <2>2. CountersTyped
    BY <1>1, TypeGroups
  <2>3. LoadsBehind /\ LoadsAhead
    BY <2>1, <2>2, RestBehind DEF LoadsBehind, LoadsAhead
  <2>4. OneInterval /\ IntervalAhead
    BY <2>1 DEF OneInterval, IntervalAhead, NotLoading
  <2>5. IntervalsAddUp
    BY DEF Init, IntervalsAddUp
  <2> QED
    BY <2>3, <2>4, <2>5 DEF LoadInv
<1> QED
  BY <1>1, <1>2, <1>3, <1>4 DEF StatsInv

\* Every step keeps the invariant.
LEMMA StatsInductive == StatsInv /\ [Next]_vars => StatsInv'
<1> SUFFICES ASSUME StatsInv, [Next]_vars
             PROVE  StatsInv'
  OBVIOUS
<1>0. TypeOK /\ MaxInv /\ CountInv /\ LoadInv /\ RecSane
  BY DEF StatsInv, MaxInv
<1>1. ASSUME NEW r \in Recorder, RecordStep(r)
      PROVE  StatsInv'
  BY <1>0, <1>1, RecordTyped, RecordMax, RecordCounts, RecordLoads DEF StatsInv, MaxInv
<1>2. ASSUME NEW l \in Loader, LoadStep(l)
      PROVE  StatsInv'
  BY <1>0, <1>2, LoadKeeps, LoadIntervals DEF StatsInv, LoadInv
<1>3. CASE UNCHANGED vars
  <2>1. TypeOK'
    BY <1>0, <1>3 DEF TypeOK, vars, counters, reporter
  <2>2. MaxInv'
    BY <1>0, <1>3 DEF MaxInv, RecSane, CasBehind, MaxIsLargest, vars, counters
  <2>3. CountInv'
    <3>1. Busy' = Busy
      BY <1>3 DEF Busy, vars
    <3> QED
      BY <1>0, <1>3, <3>1 DEF CountInv, SamplesConserved, vars, counters
  <2>4. LoadInv'
    BY <1>0, <1>3 DEF LoadInv, LoadsBehind, LoadsAhead, Ahead, Behind, OneInterval, IntervalAhead,
                      IntervalsAddUp, vars, counters, reporter
  <2> QED
    BY <2>1, <2>2, <2>3, <2>4 DEF StatsInv
<1> QED
  BY <1>1, <1>2, <1>3 DEF Next

\* The invariant holds in every reachable state.
LEMMA StatsInvariant == Spec => []StatsInv
BY StatsInitially, StatsInductive, PTL DEF Spec

\* The counters, the workers, the loaders and the reports have their types.
THEOREM StatsTypeCorrect == Spec => []TypeOK
<1>1. StatsInv => TypeOK
  BY DEF StatsInv
<1> QED
  BY <1>1, StatsInvariant, PTL

\* recordLatencyMs loses no increment, with any number of workers in any of
\* its atomic operations: what is not in the histogram is in their hands.
THEOREM NoSampleLost == Spec => []SamplesConserved
<1>1. StatsInv => SamplesConserved
  BY DEF StatsInv, CountInv
<1> QED
  BY <1>1, StatsInvariant, PTL

\* bumpMax's compare-and-exchange loop keeps the largest latency, whatever
\* workers race for it.
THEOREM NoMaximumLost == Spec => []MaxIsLargest
<1>1. StatsInv => MaxIsLargest
  BY DEF StatsInv, MaxInv
<1> QED
  BY <1>1, StatsInvariant, PTL

\* Whatever workers record while loadLifetime goes from counter to counter, the
\* sample count and the histogram of its snapshot each have all that was
\* recorded when it began and nothing that was not begun when it ended.
THEOREM SnapshotsAreInBetween == Spec => []SnapshotInBetween
<1>1. StatsInv => SnapshotInBetween
  <2> SUFFICES ASSUME StatsInv, NEW l \in Loader, load[l].pc = Loaded
               PROVE  {load[l].snap.samples, Below(load[l].snap.hist, NumBuckets)}
                          \subseteq Below(load[l].start, NumBuckets) .. samples
    BY DEF SnapshotInBetween
  <2> DEFINE s == load[l].snap
             start == load[l].start
  <2>1. /\ hist \in [Buckets -> Nat] /\ samples \in Nat
        /\ s.hist \in [Buckets -> Nat] /\ s.samples \in Nat /\ start \in [Buckets -> Nat]
    BY TypeGroups DEF StatsInv, CountersTyped, LoadTyped, LoadType, Snap
  <2>2. Behind(s) /\ Ahead(load[l])
    BY DEF StatsInv, LoadInv, LoadsBehind, LoadsAhead
  <2>3. \A b \in Buckets : start[b] <= s.hist[b] /\ s.hist[b] <= hist[b]
    <3>1. \A b \in Buckets : b < Loaded
      BY Constant DEF Buckets
    <3> QED
      BY <2>2, <3>1 DEF Behind, Ahead
  <2>4. /\ Below(start, NumBuckets) \in Nat /\ Below(s.hist, NumBuckets) \in Nat
        /\ Below(hist, NumBuckets) \in Nat /\ Cardinality(Busy) \in Nat
    <3>1. NumBuckets \in 0 .. NumBuckets
      BY Constant
    <3> HIDE DEF s, start
    <3> QED
      BY <2>1, <3>1, BelowUnfolds, FS_CardinalityType DEF StatsInv, CountInv
  <2>5. /\ Below(start, NumBuckets) <= Below(s.hist, NumBuckets)
        /\ Below(s.hist, NumBuckets) <= Below(hist, NumBuckets)
    BY <2>1, <2>3, BelowMonotone
  <2>6. Below(hist, NumBuckets) <= samples
    BY <2>1, <2>4 DEF StatsInv, CountInv, SamplesConserved
  <2>7. Below(start, NumBuckets) <= s.samples /\ s.samples <= samples
    BY <2>2 DEF Behind, Ahead
  <2> QED
    BY <2>1, <2>4, <2>5, <2>6, <2>7
<1> QED
  BY <1>1, StatsInvariant, PTL

\* The intervals StatsReporter prints add up to its last snapshot.
THEOREM IntervalsAreWhole == Spec => []IntervalsAddUp
<1>1. StatsInv => IntervalsAddUp
  BY DEF StatsInv, LoadInv
<1> QED
  BY <1>1, StatsInvariant, PTL

\* percentileMs is ordered on every report, also one whose histogram and
\* sample count disagree, for every bucket layout with increasing bounds.
THEOREM PercentilesAreOrdered == Spec => []PercentilesOrdered
<1>1. StatsInv => PercentilesOrdered
  <2>1. StatsInv => report \in Snap
    BY DEF StatsInv, TypeOK
  <2> QED
    BY <2>1, PercentileMonotone DEF PercentilesOrdered
<1> QED
  BY <1>1, StatsInvariant, PTL

=============================================================================
