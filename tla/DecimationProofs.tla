-------------------------- MODULE DecimationProofs --------------------------
(***************************************************************************)
(* What the reductions of the sweep parser keep, for any number of samples *)
(* and any limit: the indices a stride leaves, the buckets, the extremes   *)
(* of a trace and the peaks of a row.                                      *)
(***************************************************************************)
EXTENDS Decimation, DataInduction, FiniteSetTheorems

\* Division with remainder, and what is above or below the quotient.
LEMMA Division ==
  ASSUME NEW x \in Nat, NEW d \in Nat, d > 0
  PROVE  /\ x \div d \in Nat
         /\ d * (x \div d) <= x
         /\ x < d * (x \div d) + d
  OBVIOUS

\* A multiple not above x has a factor not above the quotient of x.
LEMMA DivisionBelow ==
  ASSUME NEW x \in Nat, NEW d \in Nat, d > 0, NEW m \in Nat, d * m <= x
  PROVE  m <= x \div d
<1>1. d * (x \div d) + d > x /\ x \div d \in Nat
  BY Division
<1> DEFINE q == x \div d
<1>2. ASSUME q < m PROVE FALSE
  <2>1. q + 1 <= m /\ q \in Nat
    BY <1>1, <1>2
  <2> HIDE DEF q
  <2>2. d * (q + 1) <= d * m
    BY <2>1
  <2>3. d * (q + 1) = d * q + d
    BY <2>1
  <2> QED BY <2>2, <2>3, <1>1, <2>1 DEF q
<1> QED BY <1>1, <1>2

\* A multiple above x has a factor above the quotient of x.
LEMMA DivisionAbove ==
  ASSUME NEW x \in Nat, NEW d \in Nat, d > 0, NEW m \in Nat, x < d * (m + 1)
  PROVE  x \div d <= m
<1> DEFINE q == x \div d
<1>1. d * q <= x /\ q \in Nat
  BY Division
<1>2. ASSUME m < q PROVE FALSE
  <2> HIDE DEF q
  <2>1. m + 1 <= q
    BY <1>1, <1>2
  <2>2. d * (m + 1) <= d * q
    BY <2>1, <1>1
  <2> QED BY <2>2, <1>1
<1> QED BY <1>1, <1>2

\* Every sample of a trace lies in a bucket.
THEOREM BucketsCover ==
  ASSUME NEW n \in Nat, NEW k \in Nat, k > 0, NEW i \in 0..(n - 1)
  PROVE  \E b \in 0..(k - 1) : Edge(n, k, b) <= i /\ i < Edge(n, k, b + 1)
<1> DEFINE x == (i + 1) * k - 1
           b == x \div n
<1>1. i \in Nat /\ i + 1 <= n /\ n > 0
  OBVIOUS
<1>2. (i + 1) * k >= 1 /\ (i + 1) * k \in Nat
  BY <1>1
<1>3. x \in Nat
  BY <1>2
<1>4. b \in Nat /\ n * b <= x /\ x < n * b + n
  BY <1>1, <1>3, Division
<1>5. b <= k - 1
  <2>1. (i + 1) * k <= n * k
    BY <1>1
  <2>2. x < n * ((k - 1) + 1)
    BY <2>1, <1>2, <1>1
  <2> HIDE DEF x
  <2> QED BY <2>2, <1>1, <1>3, DivisionAbove, k - 1 \in Nat
<1> HIDE DEF b
<1>6. b * n \in Nat /\ b * n < k * (i + 1)
  BY <1>1, <1>2, <1>4
<1>7. (b * n) \div k <= i
  BY <1>1, <1>6, DivisionAbove
<1>8. (b + 1) * n \in Nat /\ k * (i + 1) <= (b + 1) * n
  BY <1>1, <1>2, <1>4
<1>9. i + 1 <= ((b + 1) * n) \div k
  BY <1>1, <1>8, DivisionBelow
<1>10. ((b + 1) * n) \div k \in Nat
  BY <1>8, Division
<1>11. (b * n) \div k \in Nat
  BY <1>6, Division
<1> QED
  <2>1. b \in 0..(k - 1)
    BY <1>4, <1>5
  <2>2. Edge(n, k, b) <= i /\ i < Edge(n, k, b + 1)
    BY <1>1, <1>7, <1>9, <1>10 DEF Edge
  <2> QED BY <2>1, <2>2

\* The buckets start with the first sample and end with the last; where the
\* trace is at least twice as long as there are buckets, which it is whenever
\* one is reduced, each has two samples, so that its least and its greatest are
\* samples of their own.
THEOREM BucketsWide ==
  ASSUME NEW n \in Nat, NEW k \in Nat, k > 0, 2 * k <= n
  PROVE  /\ Edge(n, k, 0) = 0 /\ Edge(n, k, k) = n
         /\ \A b \in 0..(k - 1) : Edge(n, k, b) + 2 <= Edge(n, k, b + 1)
<1>1. Edge(n, k, 0) = 0
  BY Division DEF Edge
<1>2. Edge(n, k, k) = n
  <2>1. k * n \in Nat
    OBVIOUS
  <2>2. n <= (k * n) \div k
    BY <2>1, DivisionBelow
  <2>3. (k * n) \div k <= n
    BY <2>1, DivisionAbove, k * n < k * (n + 1)
  <2>4. (k * n) \div k \in Nat
    BY <2>1, Division
  <2> QED BY <2>2, <2>3, <2>4 DEF Edge
<1>3. ASSUME NEW b \in 0..(k - 1)
      PROVE  Edge(n, k, b) + 2 <= Edge(n, k, b + 1)
  <2> DEFINE q == (b * n) \div k
  <2>1. b \in Nat /\ b * n \in Nat /\ (b + 1) * n \in Nat /\ (b + 1) * n = b * n + n
    OBVIOUS
  <2>2. q \in Nat /\ k * q <= b * n
    BY <2>1, Division
  <2> HIDE DEF q
  <2>3. k * (q + 2) = k * q + 2 * k
    BY <2>2
  <2>4. k * (q + 2) <= (b + 1) * n
    BY <2>1, <2>2, <2>3
  <2>5. q + 2 <= ((b + 1) * n) \div k
    BY <2>1, <2>2, <2>4, DivisionBelow
  <2> QED BY <2>5 DEF q, Edge
<1> QED BY <1>1, <1>2, <1>3

-----------------------------------------------------------------------------
\* The stride is the least step that leaves at most limit of n indices.
LEMMA StrideFits ==
  ASSUME NEW n \in Nat, NEW limit \in Nat, limit > 0
  PROVE  /\ Stride(n, limit) \in Nat /\ Stride(n, limit) > 0
         /\ n <= Stride(n, limit) * limit
         /\ n <= limit => Stride(n, limit) = 1
<1> DEFINE x == n + limit - 1
           d == x \div limit
<1>1. x \in Nat
  OBVIOUS
<1>2. d \in Nat /\ limit * d <= x /\ x < limit * d + limit
  BY <1>1, Division
<1>3. ASSUME n <= limit PROVE d <= 1
  BY <1>1, <1>3, DivisionAbove, x < limit * (1 + 1)
<1> HIDE DEF d
<1>4. n <= limit * d
  BY <1>2
<1>5. CASE d < 1
  <2>1. d = 0 /\ n = 0
    BY <1>2, <1>4, <1>5
  <2> QED BY <2>1 DEF Stride, AtLeastOne, d
<1>6. CASE d >= 1
  <2>1. Stride(n, limit) = d
    BY <1>2, <1>6 DEF Stride, AtLeastOne, d
  <2> QED BY <2>1, <1>2, <1>3, <1>4, <1>6
<1> QED BY <1>2, <1>5, <1>6

\* How many indices a step of s leaves of n.
LEMMA KeptLength ==
  ASSUME NEW n \in Nat, NEW s \in Nat, s > 0, NEW m, m = (n + s - 1) \div s
  PROVE  /\ m \in Nat /\ s * m <= n + s - 1 /\ n <= s * m
         /\ n > 0 => m > 0
         /\ \A limit \in Nat : n <= s * limit => m <= limit
<1> DEFINE x == n + s - 1
<1>1. x \in Nat
  OBVIOUS
<1>2. m \in Nat /\ s * m <= x /\ x < s * m + s
  BY <1>1, Division
<1>3. ASSUME n > 0 PROVE m > 0
  BY <1>1, <1>3, DivisionBelow, s * 1 <= x
<1>4. ASSUME NEW limit \in Nat, n <= s * limit
      PROVE  m <= limit
  <2>1. s * (limit + 1) = s * limit + s
    OBVIOUS
  <2>2. x < s * (limit + 1)
    BY <2>1, <1>4
  <2> QED BY <2>2, <1>1, DivisionAbove
<1> QED BY <1>2, <1>3, <1>4

\* Keeping every k-th index, whatever the number and the limit: at most as many
\* as the limit allows, the first among them, in even steps up to the end, and
\* all of them when they fit.
THEOREM KeptSpreads ==
  ASSUME NEW n \in Nat, NEW limit \in Nat, limit > 0
  PROVE  Kept(n, limit) \in Seq(Nat) /\ Spread(Kept(n, limit), n, limit)
<1> DEFINE s == Stride(n, limit)
           m == (n + s - 1) \div s
           kept == [j \in 1..m |-> (j - 1) * s]
<1>1. s \in Nat /\ s > 0 /\ n <= s * limit /\ (n <= limit => s = 1)
  BY StrideFits
<1>2. Kept(n, limit) = kept
  BY DEF Kept
<1> HIDE DEF s
<1>3. /\ m \in Nat /\ s * m <= n + s - 1 /\ n <= s * m
      /\ n > 0 => m > 0
      /\ m <= limit
  BY <1>1, KeptLength
<1>4. ASSUME n <= limit PROVE m = n
  BY <1>1, <1>3, <1>4
<1> HIDE DEF m
<1>5. \A j \in 1..m : (j - 1) * s \in Nat /\ (j - 1) * s <= n - 1
  <2> TAKE j \in 1..m
  <2>1. j - 1 \in Nat /\ (j - 1) * s \in Nat
    BY <1>1, <1>3
  <2>2. (j - 1) * s <= (m - 1) * s
    BY <1>1, <1>3
  <2>3. (m - 1) * s = s * m - s /\ s * m \in Nat
    BY <1>1, <1>3
  <2> QED BY <2>1, <2>2, <2>3, <1>1, <1>3
<1>6. kept \in Seq(Nat) /\ Len(kept) = m /\ DOMAIN kept = 1..m
  BY <1>3, <1>5
<1>7. \A j \in 1..(m - 1) : kept[j + 1] = kept[j] + s
  BY <1>1, <1>3
<1> DEFINE gap == IF Len(kept) < 2 THEN n ELSE kept[2] - kept[1]
<1>8. ASSUME m >= 2 PROVE gap = s
  <2>1. kept[2] = kept[1] + s /\ kept[1] = 0
    BY <1>1, <1>3, <1>8, <1>7
  <2>2. ~(Len(kept) < 2)
    BY <1>3, <1>6, <1>8
  <2> HIDE DEF kept
  <2>3. kept[2] - kept[1] = s
    BY <2>1, <1>1
  <2> QED BY <2>2, <2>3
<1>9. Range(kept) \subseteq 0..(n - 1)
  BY <1>5, <1>6 DEF Range
<1>10. ASSUME n > 0
       PROVE  kept # <<>> /\ kept[1] = 0 /\ kept[Len(kept)] + gap >= n
  <2>1. m > 0 /\ kept # <<>> /\ kept[1] = 0
    BY <1>1, <1>3, <1>6, <1>10
  <2>2. CASE m = 1
    BY <2>1, <2>2, <1>6
  <2>3. CASE m >= 2
    <3>1. kept[m] = (m - 1) * s /\ (m - 1) * s + s = s * m
      BY <1>1, <1>3, <2>3
    <3> QED BY <3>1, <2>1, <2>3, <1>1, <1>3, <1>6, <1>8
  <2> QED BY <2>1, <2>2, <2>3, <1>3
<1>11. \A j \in 1..(Len(kept) - 1) : kept[j + 1] = kept[j] + gap /\ gap > 0
  BY <1>1, <1>3, <1>6, <1>7, <1>8
<1> QED
  <2>1. Spread(kept, n, limit)
    BY <1>3, <1>4, <1>6, <1>9, <1>10, <1>11 DEF Spread
  <2> QED BY <2>1, <1>2, <1>6

-----------------------------------------------------------------------------
\* No bucket is wider than the samples shared out evenly, rounded up.
LEMMA BucketWidth ==
  ASSUME NEW n \in Nat, NEW k \in Nat, k > 0, NEW b \in Nat
  PROVE  Edge(n, k, b + 1) <= Edge(n, k, b) + (n + k - 1) \div k
<1> DEFINE q == (b * n) \div k
           w == (n + k - 1) \div k
<1>1. b * n \in Nat /\ (b + 1) * n \in Nat /\ (b + 1) * n = b * n + n /\ n + k - 1 \in Nat
  OBVIOUS
<1>2. q \in Nat /\ b * n < k * q + k
  BY <1>1, Division
<1>3. w \in Nat /\ n + k - 1 < k * w + k
  BY <1>1, Division
<1> HIDE DEF q, w
<1>4. k * (q + w + 1) = k * q + k * w + k /\ k * q \in Nat /\ k * w \in Nat
  BY <1>2, <1>3
<1>5. (b + 1) * n < k * ((q + w) + 1)
  BY <1>1, <1>2, <1>3, <1>4
<1>6. ((b + 1) * n) \div k <= q + w
  BY <1>1, <1>2, <1>3, <1>5, DivisionAbove, q + w \in Nat
<1> QED BY <1>6 DEF Edge, q, w

\* With at least one sample to each, no bucket is empty.
LEMMA BucketsFilled ==
  ASSUME NEW n \in Nat, NEW k \in Nat, k > 0, k <= n, NEW b \in Nat
  PROVE  Edge(n, k, b) < Edge(n, k, b + 1)
<1> DEFINE q == (b * n) \div k
<1>1. b * n \in Nat /\ (b + 1) * n \in Nat /\ (b + 1) * n = b * n + n
  OBVIOUS
<1>2. q \in Nat /\ k * q <= b * n
  BY <1>1, Division
<1> HIDE DEF q
<1>3. k * (q + 1) = k * q + k
  BY <1>2
<1>4. k * (q + 1) <= (b + 1) * n
  BY <1>1, <1>2, <1>3
<1>5. q + 1 <= ((b + 1) * n) \div k
  BY <1>1, <1>2, <1>4, DivisionBelow, q + 1 \in Nat
<1>6. ((b + 1) * n) \div k \in Nat
  BY <1>1, Division
<1> QED BY <1>2, <1>5, <1>6 DEF q, Edge

\* The edges are in order, and in the trace.
LEMMA EdgesInOrder ==
  ASSUME NEW n \in Nat, NEW k \in Nat, k > 0, NEW b \in 0..k, NEW c \in b..k
  PROVE  /\ Edge(n, k, b) \in 0..n /\ Edge(n, k, c) \in 0..n
         /\ Edge(n, k, b) <= Edge(n, k, c)
<1>1. \A d \in 0..k : d * n \in Nat /\ (d * n) \div k \in 0..n
  <2> TAKE d \in 0..k
  <2>1. d \in Nat /\ d * n \in Nat /\ d * n <= k * n
    OBVIOUS
  <2>2. k * (n + 1) = k * n + k /\ k * n \in Nat
    OBVIOUS
  <2>3. d * n < k * (n + 1)
    BY <2>1, <2>2
  <2>4. (d * n) \div k <= n
    BY <2>1, <2>3, DivisionAbove
  <2>5. (d * n) \div k \in Nat
    BY <2>1, Division
  <2> QED BY <2>1, <2>4, <2>5
<1>2. (b * n) \div k <= (c * n) \div k
  <2> DEFINE q == (b * n) \div k
  <2>1. b \in Nat /\ c \in Nat /\ b <= c /\ b * n \in Nat /\ c * n \in Nat
    OBVIOUS
  <2>2. q \in Nat /\ k * q <= b * n
    BY <2>1, Division
  <2>3. b * n <= c * n
    BY <2>1
  <2> HIDE DEF q
  <2>4. k * q <= c * n
    BY <2>1, <2>2, <2>3, k * q \in Nat
  <2>5. q <= (c * n) \div k
    BY <2>1, <2>2, <2>4, DivisionBelow
  <2> QED BY <2>5 DEF q
<1>3. c \in 0..k
  OBVIOUS
<1> QED BY <1>1, <1>2, <1>3 DEF Edge

\* A bucket is the stretch of the samples between its edges.
LEMMA BucketSamples ==
  ASSUME NEW s \in Seq(Int), NEW k \in Nat, k > 0, NEW b \in 0..(k - 1)
  PROVE  LET lo == Edge(Len(s), k, b)
             hi == Edge(Len(s), k, b + 1)
         IN /\ lo \in 0..Len(s) /\ hi \in 0..Len(s) /\ lo <= hi
            /\ Bucket(s, k, b) \in Seq(Int)
            /\ Len(Bucket(s, k, b)) = hi - lo
            /\ \A i \in 1..(hi - lo) : Bucket(s, k, b)[i] = s[lo + i]
<1> DEFINE lo == Edge(Len(s), k, b)
           hi == Edge(Len(s), k, b + 1)
<1>1. Len(s) \in Nat /\ b \in 0..k /\ b + 1 \in b..k
  OBVIOUS
<1>2. lo \in 0..Len(s) /\ hi \in 0..Len(s) /\ lo <= hi
  BY <1>1, EdgesInOrder
<1>3. Bucket(s, k, b) = SubSeq(s, lo + 1, hi)
  BY DEF Bucket
<1> HIDE DEF lo, hi
<1>4. SubSeq(s, lo + 1, hi) = [i \in 1..(hi - lo) |-> s[lo + i]]
  BY <1>2
<1>5. \A i \in 1..(hi - lo) : s[lo + i] \in Int
  BY <1>2
<1>6. hi - lo \in Nat
  BY <1>2
<1>7. [i \in 1..(hi - lo) |-> s[lo + i]] \in Seq(Int)
  BY <1>5, <1>6
<1>8. Len([i \in 1..(hi - lo) |-> s[lo + i]]) = hi - lo
  BY <1>6
<1>9. /\ Bucket(s, k, b) \in Seq(Int)
      /\ Len(Bucket(s, k, b)) = hi - lo
      /\ \A i \in 1..(hi - lo) : Bucket(s, k, b)[i] = s[lo + i]
  BY <1>3, <1>4, <1>7, <1>8
<1> QED BY <1>2, <1>9 DEF lo, hi

\* The extremes of a bucket of at least two are samples at two places of it, in
\* order, and every sample of the bucket lies between them.
LEMMA ExtremesPlaced ==
  ASSUME NEW s \in Seq(Int), Len(s) >= 2
  PROVE  \E x, y \in 1..Len(s) :
           /\ x < y
           /\ Extremes(s) = <<s[x], s[y]>>
           /\ \A i \in 1..Len(s) : \/ s[x] <= s[i] /\ s[i] <= s[y]
                                   \/ s[y] <= s[i] /\ s[i] <= s[x]
<1> DEFINE n == Len(s)
           first(v) == {i \in 1..n : s[i] = v}
<1>1. n \in Nat /\ n >= 2 /\ s # <<>> /\ DOMAIN s = 1..n /\ \A i \in 1..n : s[i] \in Int
  OBVIOUS
<1>2. PICK h \in 1..n : \A j \in 1..n : s[j] <= s[h]
  BY <1>1, GreatestSample
<1>3. PICK l \in 1..n : \A j \in 1..n : s[l] <= s[j]
  BY <1>1, LeastSample
<1>4. Range(s) \subseteq Int /\ s[h] \in Range(s) /\ s[l] \in Range(s)
  BY <1>1 DEF Range
<1>5. \A v \in Range(s) : \E j \in 1..n : v = s[j]
  BY <1>1 DEF Range
<1> HIDE DEF n
<1>6. Max(Range(s)) = s[h] /\ Min(Range(s)) = s[l]
  <2>1. \A v \in Range(s) : v <= s[h] /\ s[l] <= v
    BY <1>2, <1>3, <1>5
  <2> QED BY <2>1, <1>4, MaxFacts, MinFacts
<1>7. ASSUME NEW v \in {s[h], s[l]}
      PROVE  First(s, v) \in 1..n /\ s[First(s, v)] = v
  <2>1. first(v) \subseteq Nat /\ first(v) # {}
    BY <1>2, <1>3, <1>7
  <2>2. PICK m \in first(v) : \A i \in first(v) : m <= i
    BY <2>1, LeastNatural
  <2>3. Min(first(v)) = m
    BY <2>1, <2>2, MinFacts, first(v) \subseteq Int
  <2>4. First(s, v) = IF first(v) # {} THEN Min(first(v)) ELSE 0
    BY DEF First, SelectInSeq, n
  <2> QED BY <2>1, <2>2, <2>3, <2>4
<1> DEFINE a == First(s, s[l])
           z == First(s, s[h])
<1>8. a \in 1..n /\ z \in 1..n /\ s[a] = s[l] /\ s[z] = s[h]
  BY <1>7
<1>9. Extremes(s) = IF a <= z THEN <<s[l], s[h]>> ELSE <<s[h], s[l]>>
  BY <1>6 DEF Extremes
<1> HIDE DEF a, z
<1>10. CASE a < z
  <2>1. Extremes(s) = <<s[a], s[z]>>
    BY <1>8, <1>9, <1>10
  <2>2. \A i \in 1..n : s[a] <= s[i] /\ s[i] <= s[z]
    BY <1>2, <1>3, <1>8
  <2> QED BY <2>1, <2>2, <1>8, <1>10 DEF n
<1>11. CASE z < a
  <2>1. Extremes(s) = <<s[z], s[a]>> /\ ~(a <= z)
    BY <1>8, <1>9, <1>11
  <2>2. \A i \in 1..n : s[a] <= s[i] /\ s[i] <= s[z]
    BY <1>2, <1>3, <1>8
  <2> QED BY <2>1, <2>2, <1>8, <1>11 DEF n
<1>12. CASE a = z
  <2>1. Extremes(s) = <<s[l], s[l]>> /\ s[l] = s[h]
    BY <1>8, <1>9, <1>12
  <2>2. \A i \in 1..n : s[i] = s[l]
    BY <1>1, <1>2, <1>3, <2>1
  <2>3. 1 \in 1..n /\ 2 \in 1..n /\ s[l] \in Int
    BY <1>1
  <2>4. Extremes(s) = <<s[1], s[2]>> /\ \A i \in 1..n : s[1] <= s[i] /\ s[i] <= s[2]
    BY <2>1, <2>2, <2>3
  <2> QED BY <2>3, <2>4 DEF n
<1> QED BY <1>8, <1>10, <1>11, <1>12

-----------------------------------------------------------------------------
\* A trace that is reduced has at least two samples for each of its buckets.
LEMMA PairsFit ==
  ASSUME NEW n \in Nat, NEW target \in Nat, target > 0, n > target
  PROVE  /\ Pairs(target) \in Nat /\ Pairs(target) > 0 /\ 2 * Pairs(target) <= n
         /\ target > 1 => 2 * Pairs(target) <= target
BY DEF Pairs, AtLeastOne

\* What a reduced trace is made of: places at[1] < at[2] < ... of the source,
\* two in each bucket, which bound the samples of that bucket.
Bounds(s, x, y, i) ==
  \/ s[x] <= s[i] /\ s[i] <= s[y]
  \/ s[y] <= s[i] /\ s[i] <= s[x]

\* The two extremes of a bucket are at two places of it, in their order in the trace,
\* and bound every sample of the bucket.
LEMMA BucketExtremes ==
  ASSUME NEW s \in Seq(Int), NEW k \in Nat, k > 0, 2 * k <= Len(s), NEW b \in 0..(k - 1)
  PROVE  LET lo == Edge(Len(s), k, b)
             hi == Edge(Len(s), k, b + 1)
         IN \E x, y \in (lo + 1)..hi :
              /\ x < y /\ Bucket(s, k, b) # <<>>
              /\ Extremes(Bucket(s, k, b)) = <<s[x], s[y]>>
              /\ \A i \in (lo + 1)..hi : Bounds(s, x, y, i)
<1> DEFINE lo == Edge(Len(s), k, b)
           hi == Edge(Len(s), k, b + 1)
           c  == Bucket(s, k, b)
<1>1. /\ lo \in 0..Len(s) /\ hi \in 0..Len(s) /\ c \in Seq(Int) /\ Len(c) = hi - lo
      /\ \A i \in 1..(hi - lo) : c[i] = s[lo + i]
  BY BucketSamples
<1>2. lo + 2 <= hi
  BY BucketsWide
<1> HIDE DEF lo, hi, c
<1>3. Len(c) >= 2
  BY <1>1, <1>2
<1>4. PICK p, q \in 1..Len(c) :
        /\ p < q /\ Extremes(c) = <<c[p], c[q]>>
        /\ \A i \in 1..Len(c) : \/ c[p] <= c[i] /\ c[i] <= c[q]
                                \/ c[q] <= c[i] /\ c[i] <= c[p]
  BY <1>1, <1>3, ExtremesPlaced
<1>5. /\ lo + p \in (lo + 1)..hi /\ lo + q \in (lo + 1)..hi /\ lo + p < lo + q
      /\ c[p] = s[lo + p] /\ c[q] = s[lo + q]
  BY <1>1, <1>4
<1>6. ASSUME NEW i \in (lo + 1)..hi
      PROVE  Bounds(s, lo + p, lo + q, i)
  <2>1. i - lo \in 1..Len(c) /\ lo + (i - lo) = i
    BY <1>1
  <2>2. c[i - lo] = s[i]
    BY <1>1, <2>1
  <2> QED BY <1>4, <1>5, <2>1, <2>2 DEF Bounds
<1>7. c # <<>>
  BY <1>3
<1>8. Extremes(c) = <<s[lo + p], s[lo + q]>>
  BY <1>4, <1>5
<1>9. \E x, y \in (lo + 1)..hi :
        /\ x < y /\ c # <<>> /\ Extremes(c) = <<s[x], s[y]>>
        /\ \A i \in (lo + 1)..hi : Bounds(s, x, y, i)
  BY <1>5, <1>6, <1>7, <1>8
<1> QED BY <1>9 DEF lo, hi, c

\* What a trace is reduced to, bucket by bucket.
LEMMA MinMaxReduced ==
  ASSUME NEW s \in Seq(Int), NEW target \in Nat, target > 0, Len(s) > target,
         NEW k, k = Pairs(target)
  PROVE  /\ MinMaxDecimate(s, target) \in Seq(Int)
         /\ Len(MinMaxDecimate(s, target)) = 2 * k
         /\ \A b \in 0..(k - 1) :
              /\ MinMaxDecimate(s, target)[2 * b + 1] = Extremes(Bucket(s, k, b))[1]
              /\ MinMaxDecimate(s, target)[2 * b + 2] = Extremes(Bucket(s, k, b))[2]
<1> DEFINE part(b) == Extremes(Bucket(s, k, b))
           parts == [i \in 1..k |-> IF Bucket(s, k, i - 1) = <<>> THEN <<>>
                                    ELSE Extremes(Bucket(s, k, i - 1))]
<1>1. k \in Nat /\ k > 0 /\ 2 * k <= Len(s) /\ Len(s) \in Nat
  BY PairsFit
<1>2. ASSUME NEW b \in 0..(k - 1)
      PROVE  Bucket(s, k, b) # <<>> /\ part(b) \in Seq(Int) /\ Len(part(b)) = 2
  <2> DEFINE lo == Edge(Len(s), k, b)
             hi == Edge(Len(s), k, b + 1)
  <2>1. lo \in 0..Len(s) /\ hi \in 0..Len(s)
    BY <1>1, BucketSamples
  <2>2. PICK x, y \in (lo + 1)..hi :
          Bucket(s, k, b) # <<>> /\ Extremes(Bucket(s, k, b)) = <<s[x], s[y]>>
    BY <1>1, BucketExtremes
  <2> HIDE DEF lo, hi
  <2>3. s[x] \in Int /\ s[y] \in Int
    BY <2>1
  <2> QED BY <2>2, <2>3
<1>3. MinMaxDecimate(s, target) = FlattenSeq(parts)
  BY DEF MinMaxDecimate
<1>4. ASSUME NEW i \in 1..k
      PROVE  parts[i] = part(i - 1) /\ parts[i] \in Seq(Int) /\ Len(parts[i]) = 2
  <2>1. i - 1 \in 0..(k - 1)
    BY <1>1
  <2>2. parts[i] = part(i - 1)
    BY <2>1, <1>2
  <2> HIDE DEF part, parts
  <2> QED BY <2>1, <2>2, <1>2
<1>5. parts \in Seq(Seq(Int)) /\ Len(parts) = k
  <2>1. parts \in [1..k -> Seq(Int)]
    <3>1. \A i \in 1..k : (IF Bucket(s, k, i - 1) = <<>> THEN <<>>
                           ELSE Extremes(Bucket(s, k, i - 1))) \in Seq(Int)
      BY <1>4
    <3> QED BY <3>1
  <2> DEFINE T == Seq(Int)
  <2> HIDE DEF parts, T
  <2>2. parts \in Seq(T) /\ Len(parts) = k
    <3>1. parts \in [1..k -> T]
      BY <2>1 DEF T
    <3> QED BY <3>1, <1>1, FunctionIsSeq
  <2> QED BY <2>2 DEF T
<1> HIDE DEF parts, part
<1> DEFINE flat == FlattenSeq(parts)
<1>6. /\ flat \in Seq(Int)
      /\ Len(flat) = Len(parts) * 2
      /\ \A j \in 1..Len(parts), i \in 1..2 : flat[(j - 1) * 2 + i] = parts[j][i]
  <2>1. 2 \in Nat /\ parts \in Seq(Seq(Int)) /\ \A j \in 1..Len(parts) : Len(parts[j]) = 2
    BY <1>4, <1>5
  <2> HIDE DEF flat
  <2> QED BY <2>1, FlattenEven DEF flat
<1> HIDE DEF flat
<1>7. ASSUME NEW b \in 0..(k - 1)
      PROVE  flat[2 * b + 1] = part(b)[1] /\ flat[2 * b + 2] = part(b)[2]
  <2>1. b + 1 \in 1..Len(parts) /\ 1 \in 1..2 /\ 2 \in 1..2
    BY <1>1, <1>5
  <2>2. /\ flat[((b + 1) - 1) * 2 + 1] = parts[b + 1][1]
        /\ flat[((b + 1) - 1) * 2 + 2] = parts[b + 1][2]
    BY <1>6, <2>1
  <2>3. parts[b + 1] = part((b + 1) - 1)
    BY <1>4, <1>5, <2>1
  <2>4. /\ ((b + 1) - 1) * 2 + 1 = 2 * b + 1 /\ ((b + 1) - 1) * 2 + 2 = 2 * b + 2
        /\ (b + 1) - 1 = b
    OBVIOUS
  <2> QED BY <2>2, <2>3, <2>4
<1>8. MinMaxDecimate(s, target) = flat
  BY <1>3 DEF flat
<1>9. flat \in Seq(Int) /\ Len(flat) = 2 * k
  BY <1>1, <1>5, <1>6
<1> QED BY <1>7, <1>8, <1>9 DEF part

-----------------------------------------------------------------------------
\* The places of a subsequence, counted: in increasing order, the j-th of them
\* is the one that has j up to it.
LEMMA PlacesCounted ==
  ASSUME NEW n \in Nat, NEW m \in Nat, NEW at \in [1..m -> 1..n],
         \A i, j \in 1..m : i < j => at[i] < at[j]
  PROVE  LET P == {at[j] : j \in 1..m}
         IN /\ P \subseteq 1..n /\ Cardinality(P) = m
            /\ \A j \in 1..m : Cardinality(P \cap 1..at[j]) = j
<1> DEFINE P == {at[j] : j \in 1..m}
           upto(h) == {at[j] : j \in 1..h}
<1>1. \A i, j \in 1..m : at[i] = at[j] => i = j
  <2> TAKE i, j \in 1..m
  <2>1. at[i] \in Int /\ at[j] \in Int /\ (i < j \/ j < i \/ i = j)
    OBVIOUS
  <2> QED BY <2>1
<1>2. ASSUME NEW h \in 0..m
      PROVE  Cardinality(upto(h)) = h
  <2> DEFINE g == [j \in 1..h |-> at[j]]
             S == upto(h)
  <2>1. h \in Nat /\ \A j \in 1..h : j \in 1..m
    OBVIOUS
  <2>2. g \in [1..h -> S]
    OBVIOUS
  <2>3. \A i, j \in 1..h : g[i] = g[j] => i = j
    BY <1>1, <2>1
  <2>4. \A v \in S : \E j \in 1..h : g[j] = v
    OBVIOUS
  <2>5. S = {g[j] : j \in 1..h}
    OBVIOUS
  <2> HIDE DEF g, S
  <2>6. g \in Bijection(1..h, S)
    BY <2>2, <2>3, <2>4, <2>5 DEF Bijection, Injection, Surjection, IsInjective
  <2>7. Cardinality(S) = h
    BY <2>1, <2>6, FS_CountingElements DEF ExistsBijection
  <2> QED BY <2>7 DEF S
<1>3. Cardinality(P) = m
  BY <1>2, m \in 0..m
<1>4. ASSUME NEW j \in 1..m
      PROVE  Cardinality(P \cap 1..at[j]) = j
  <2>1. P \cap 1..at[j] = upto(j)
    <3>1. ASSUME NEW i \in 1..m
          PROVE  at[i] \in 1..at[j] <=> i \in 1..j
      <4>1. /\ at[i] \in 1..n /\ at[j] \in 1..n /\ n \in Nat
            /\ i < j => at[i] < at[j] 
            /\ j < i => at[j] < at[i]
        OBVIOUS
      <4> QED BY <4>1
    <3>2. \A i \in 1..j : i \in 1..m
      OBVIOUS
    <3> QED BY <3>1, <3>2
  <2>2. j \in 0..m
    OBVIOUS
  <2>3. Cardinality(upto(j)) = j
    BY <2>2, <1>2
  <2> HIDE DEF P, upto
  <2> QED BY <2>1, <2>3
<1> QED BY <1>3, <1>4

\* Two points for each of k buckets: which of them a point is.
LEMMA TwoPerBucket ==
  ASSUME NEW k \in Nat, NEW j \in 1..(2 * k)
  PROVE  \E b \in 0..(k - 1) : \/ j = 2 * b + 1 /\ j % 2 = 1 /\ (j - 1) \div 2 = b
                               \/ j = 2 * b + 2 /\ j % 2 = 0 /\ (j - 2) \div 2 = b
<1>1. CASE j % 2 = 1
  <2>1. j = 2 * ((j - 1) \div 2) + 1 /\ (j - 1) \div 2 \in 0..(k - 1)
    BY <1>1
  <2> QED BY <2>1, <1>1
<1>2. CASE j % 2 = 0
  <2>1. j = 2 * ((j - 2) \div 2) + 2 /\ (j - 2) \div 2 \in 0..(k - 1)
    BY <1>2
  <2> QED BY <2>1, <1>2
<1> QED BY <1>1, <1>2

\* The places 2 * b + 1 and 2 * b + 2, and the bucket they belong to.
LEMMA OddAndEven ==
  ASSUME NEW k \in Nat, NEW b \in 0..(k - 1)
  PROVE  /\ 2 * b + 1 \in 1..(2 * k) /\ (2 * b + 1) % 2 = 1 /\ ((2 * b + 1) - 1) \div 2 = b
         /\ 2 * b + 2 \in 1..(2 * k) /\ (2 * b + 2) % 2 = 0 /\ ((2 * b + 2) - 2) \div 2 = b
OBVIOUS

\* Two places in each of k buckets that follow each other are 2 * k places in
\* increasing order.
InOrder(n, k, lo, hi, X, Y) ==
  /\ lo \in [0..(k - 1) -> Int] /\ hi \in [0..(k - 1) -> Int]
  /\ X \in [0..(k - 1) -> 1..n] /\ Y \in [0..(k - 1) -> 1..n]
  /\ \A b, c \in 0..(k - 1) : b < c => hi[b] <= lo[c]
  /\ \A b \in 0..(k - 1) : lo[b] < X[b] /\ X[b] < Y[b] /\ Y[b] <= hi[b]

Merged(n, k, X, Y, at) ==
  /\ at \in [1..(2 * k) -> 1..n]
  /\ \A i, j \in 1..(2 * k) : i < j => at[i] < at[j]
  /\ \A b \in 0..(k - 1) : at[2 * b + 1] = X[b] /\ at[2 * b + 2] = Y[b]

\* Such places can be numbered through in one increasing sequence.
LEMMA PlacesInOrder ==
  ASSUME NEW n \in Nat, NEW k \in Nat, NEW lo, NEW hi, NEW X, NEW Y, InOrder(n, k, lo, hi, X, Y)
  PROVE  \E at : Merged(n, k, X, Y, at)
<1>8. /\ lo \in [0..(k - 1) -> Int] /\ hi \in [0..(k - 1) -> Int]
      /\ X \in [0..(k - 1) -> 1..n] /\ Y \in [0..(k - 1) -> 1..n]
      /\ \A b, c \in 0..(k - 1) : b < c => hi[b] <= lo[c]
      /\ \A b \in 0..(k - 1) : lo[b] < X[b] /\ X[b] < Y[b] /\ Y[b] <= hi[b]
  BY DEF InOrder
<1> DEFINE at == [j \in 1..(2 * k) |->
                    IF j % 2 = 1 THEN X[(j - 1) \div 2] ELSE Y[(j - 2) \div 2]]
<1>0. \A j \in 1..(2 * k) :
        at[j] = IF j % 2 = 1 THEN X[(j - 1) \div 2] ELSE Y[(j - 2) \div 2]
  OBVIOUS
<1>1. \A b \in 0..(k - 1) : at[2 * b + 1] = X[b] /\ at[2 * b + 2] = Y[b]
  <2> TAKE b \in 0..(k - 1)
  <2> DEFINE i == 2 * b + 1
             j == 2 * b + 2
  <2>1. /\ i \in 1..(2 * k) /\ i % 2 = 1 /\ (i - 1) \div 2 = b
        /\ j \in 1..(2 * k) /\ j % 2 = 0 /\ (j - 2) \div 2 = b
    BY OddAndEven
  <2> HIDE DEF i, j, at
  <2>2. at[i] = X[(i - 1) \div 2]
    BY <2>1, <1>0, Zenon
  <2>3. at[j] = Y[(j - 2) \div 2]
    <3>1. j % 2 # 1
      BY <2>1
    <3> QED BY <3>1, <2>1, <1>0, Zenon
  <2>4. at[i] = X[b] /\ at[j] = Y[b]
    BY <2>1, <2>2, <2>3, Zenon
  <2> QED BY <2>4 DEF i, j
<1>2. \A j \in 1..(2 * k) : \E b \in 0..(k - 1) : j = 2 * b + 1 \/ j = 2 * b + 2
  BY TwoPerBucket
<1>3. \E D : at = [j \in D |-> at[j]] /\ D = 1..(2 * k)
  OBVIOUS
<1> HIDE DEF at
<1>7. ASSUME NEW j \in 1..(2 * k)
      PROVE  \E b \in 0..(k - 1) : \/ j = 2 * b + 1 /\ at[j] = X[b]
                                   \/ j = 2 * b + 2 /\ at[j] = Y[b]
  <2>1. PICK b \in 0..(k - 1) : j = 2 * b + 1 \/ j = 2 * b + 2
    BY <1>2
  <2>2. at[2 * b + 1] = X[b] /\ at[2 * b + 2] = Y[b]
    BY <1>1
  <2> QED BY <2>1, <2>2, Zenon
<1>4. ASSUME NEW j \in 1..(2 * k) PROVE at[j] \in 1..n
  <2>1. PICK b \in 0..(k - 1) : at[j] = X[b] \/ at[j] = Y[b]
    BY <1>7
  <2> QED BY <2>1, <1>8
<1>5. at \in [1..(2 * k) -> 1..n]
  BY <1>3, <1>4
<1>6. ASSUME NEW i \in 1..(2 * k), NEW j \in 1..(2 * k), i < j
      PROVE  at[i] < at[j]
  <2>1. PICK b \in 0..(k - 1) : \/ i = 2 * b + 1 /\ at[i] = X[b]
                                \/ i = 2 * b + 2 /\ at[i] = Y[b]
    BY <1>7
  <2>2. PICK c \in 0..(k - 1) : \/ j = 2 * c + 1 /\ at[j] = X[c]
                                \/ j = 2 * c + 2 /\ at[j] = Y[c]
    BY <1>7
  <2>3. lo[b] < at[i] /\ at[i] <= hi[b] /\ lo[c] < at[j] /\ at[j] <= hi[c]
    <3>1. /\ lo[b] < X[b] /\ X[b] < Y[b] /\ Y[b] <= hi[b]
          /\ lo[c] < X[c] /\ X[c] < Y[c] /\ Y[c] <= hi[c]
      BY <1>8
    <3>2. /\ lo[b] \in Int /\ hi[b] \in Int /\ X[b] \in Int /\ Y[b] \in Int
          /\ lo[c] \in Int /\ hi[c] \in Int /\ X[c] \in Int /\ Y[c] \in Int
      BY <1>8
    <3>3. (at[i] = X[b] \/ at[i] = Y[b]) /\ (at[j] = X[c] \/ at[j] = Y[c])
      BY <2>1, <2>2
    <3>4. /\ lo[b] < Y[b] /\ X[b] <= hi[b] /\ lo[c] < Y[c] /\ X[c] <= hi[c]
      BY <3>1, <3>2
    <3> QED BY <3>1, <3>3, <3>4, Zenon
  <2>4. b <= c
    BY <2>1, <2>2, <1>6
  <2>5. CASE b = c
    <3>1. at[i] = X[b] /\ at[j] = Y[b]
      BY <2>1, <2>2, <2>5, <1>6
    <3> QED BY <3>1, <1>8
  <2>6. CASE b < c
    <3>1. hi[b] <= lo[c] /\ hi[b] \in Int /\ lo[c] \in Int
      BY <2>6, <1>8
    <3>2. at[i] \in Int /\ at[j] \in Int
      BY <1>4
    <3> QED BY <3>1, <3>2, <2>3
  <2> QED BY <2>4, <2>5, <2>6
<1> QED BY <1>1, <1>5, <1>6 DEF Merged

\* The two places of each bucket, and what they are for the samples of it.
LEMMA ExtremesChosen ==
  ASSUME NEW s \in Seq(Int), NEW k \in Nat, k > 0, 2 * k <= Len(s),
         NEW lo, lo = [b \in 0..(k - 1) |-> Edge(Len(s), k, b)],
         NEW hi, hi = [b \in 0..(k - 1) |-> Edge(Len(s), k, b + 1)]
  PROVE  \E X, Y \in [0..(k - 1) -> 1..Len(s)] :
           \A b \in 0..(k - 1) :
             /\ lo[b] < X[b] /\ X[b] < Y[b] /\ Y[b] <= hi[b]
             /\ Extremes(Bucket(s, k, b)) = <<s[X[b]], s[Y[b]]>>
             /\ \A i \in (lo[b] + 1)..hi[b] : Bounds(s, X[b], Y[b], i)
<1> DEFINE n == Len(s)
           Placed(b, x, y) ==
             /\ lo[b] < x /\ x < y /\ y <= hi[b]
             /\ Extremes(Bucket(s, k, b)) = <<s[x], s[y]>>
             /\ \A i \in (lo[b] + 1)..hi[b] : Bounds(s, x, y, i)
           X == [b \in 0..(k - 1) |-> CHOOSE x \in 1..n : \E y \in 1..n : Placed(b, x, y)]
           Y == [b \in 0..(k - 1) |-> CHOOSE y \in 1..n : Placed(b, X[b], y)]
<1>1. ASSUME NEW b \in 0..(k - 1)
      PROVE  \E x, y \in 1..n : Placed(b, x, y)
  <2>1. lo[b] \in 0..n /\ hi[b] \in 0..n
    BY BucketSamples
  <2>2. PICK x, y \in (lo[b] + 1)..hi[b] :
              /\ x < y
              /\ Extremes(Bucket(s, k, b)) = <<s[x], s[y]>>
              /\ \A i \in (lo[b] + 1)..hi[b] : Bounds(s, x, y, i)
    BY BucketExtremes
  <2>3. x \in 1..n /\ y \in 1..n /\ lo[b] < x /\ y <= hi[b]
    BY <2>1
  <2>4. Placed(b, x, y)
    BY <2>2, <2>3
  <2> HIDE DEF Placed
  <2> QED BY <2>3, <2>4
<1> HIDE DEF Placed, n
<1>2. ASSUME NEW b \in 0..(k - 1)
      PROVE  X[b] \in 1..n /\ \E y \in 1..n : Placed(b, X[b], y)
  BY <1>1
<1>3. X \in [0..(k - 1) -> 1..n]
  BY <1>2
<1> HIDE DEF X
<1>4. ASSUME NEW b \in 0..(k - 1)
      PROVE  Y[b] \in 1..n /\ Placed(b, X[b], Y[b])
  BY <1>2
<1>5. Y \in [0..(k - 1) -> 1..n]
  BY <1>4
<1> HIDE DEF Y
<1> QED BY <1>3, <1>4, <1>5 DEF Placed, n

\* No sample is as far as a bucket's width from the places of its bucket.
LEMMA NearInBucket ==
  ASSUME NEW lo \in Int, NEW hi \in Int, NEW w \in Int, hi <= lo + w,
         NEW i \in (lo + 1)..hi, NEW x \in (lo + 1)..hi
  PROVE  AbsOf(x - i) \in 0..(w - 1)
BY DEF AbsOf

\* A reduced trace is made of places of its source, from left to right, and each
\* sample lies between two of them that are less than a bucket away.
LEMMA MinMaxPlaced ==
  ASSUME NEW s \in Seq(Int), NEW target \in Nat, target > 0, Len(s) > target
  PROVE  LET k == Pairs(target)
             w == (Len(s) + k - 1) \div k
         IN \E at \in [1..(2 * k) -> 1..Len(s)] :
              /\ \A i, j \in 1..(2 * k) : i < j => at[i] < at[j]
              /\ \A j \in 1..(2 * k) : MinMaxDecimate(s, target)[j] = s[at[j]]
              /\ \A i \in 1..Len(s) : \E p, q \in 1..(2 * k) :
                   /\ {AbsOf(at[p] - i), AbsOf(at[q] - i)} \subseteq 0..(w - 1)
                   /\ s[at[p]] <= s[i] /\ s[i] <= s[at[q]]
<1> DEFINE n == Len(s)
           k == Pairs(target)
           w == (n + k - 1) \div k
           drawn == MinMaxDecimate(s, target)
           lo == [b \in 0..(k - 1) |-> Edge(n, k, b)]
           hi == [b \in 0..(k - 1) |-> Edge(n, k, b + 1)]
<1>1. k \in Nat /\ k > 0 /\ 2 * k <= n /\ n \in Nat
  BY PairsFit
<1>2. \A b \in 0..(k - 1) :
        /\ drawn[2 * b + 1] = Extremes(Bucket(s, k, b))[1]
        /\ drawn[2 * b + 2] = Extremes(Bucket(s, k, b))[2]
  BY MinMaxReduced
<1> HIDE DEF k, drawn
<1>3. w \in Nat
  <2>1. n + k - 1 \in Nat
    BY <1>1
  <2> QED BY <2>1, <1>1, Division
<1>4. ASSUME NEW b \in 0..(k - 1)
      PROVE  /\ lo[b] \in 0..n /\ hi[b] \in 0..n /\ hi[b] <= lo[b] + w
  <2>1. Edge(n, k, b) \in 0..n /\ Edge(n, k, b + 1) \in 0..n
    BY <1>1, BucketSamples
  <2>2. Edge(n, k, b + 1) <= Edge(n, k, b) + w
    BY <1>1, BucketWidth
  <2> QED BY <2>1, <2>2
<1>5. \A b, c \in 0..(k - 1) : b < c => hi[b] <= lo[c]
  <2> TAKE b, c \in 0..(k - 1)
  <2> SUFFICES ASSUME b < c PROVE Edge(n, k, b + 1) <= Edge(n, k, c)
    OBVIOUS
  <2>1. b + 1 \in 0..k /\ c \in (b + 1)..k
    BY <1>1
  <2> QED BY <2>1, <1>1, EdgesInOrder
<1>6. ASSUME NEW i \in 1..n
      PROVE  \E b \in 0..(k - 1) : i \in (lo[b] + 1)..hi[b]
  <2>1. i - 1 \in 0..(n - 1)
    BY <1>1
  <2>2. PICK b \in 0..(k - 1) : Edge(n, k, b) <= i - 1 /\ i - 1 < Edge(n, k, b + 1)
    BY <2>1, <1>1, BucketsCover
  <2>3. lo[b] <= i - 1 /\ i - 1 < hi[b] /\ lo[b] \in Int /\ hi[b] \in Int
    BY <2>2, <1>4
  <2> HIDE DEF lo, hi
  <2>4. i \in (lo[b] + 1)..hi[b]
    BY <2>3
  <2> QED BY <2>4
<1>7. PICK X, Y \in [0..(k - 1) -> 1..n] :
        \A b \in 0..(k - 1) :
          /\ lo[b] < X[b] /\ X[b] < Y[b] /\ Y[b] <= hi[b]
          /\ Extremes(Bucket(s, k, b)) = <<s[X[b]], s[Y[b]]>>
          /\ \A i \in (lo[b] + 1)..hi[b] : Bounds(s, X[b], Y[b], i)
  BY <1>1, ExtremesChosen
<1>8. lo \in [0..(k - 1) -> Int] /\ hi \in [0..(k - 1) -> Int]
  BY <1>4
<1> HIDE DEF w, lo, hi, n
<1>9. PICK at :
        /\ at \in [1..(2 * k) -> 1..n]
        /\ \A i, j \in 1..(2 * k) : i < j => at[i] < at[j]
        /\ \A b \in 0..(k - 1) : at[2 * b + 1] = X[b] /\ at[2 * b + 2] = Y[b]
  <2>1. InOrder(n, k, lo, hi, X, Y)
    BY <1>5, <1>7, <1>8 DEF InOrder
  <2>2. \E at : Merged(n, k, X, Y, at)
    BY <2>1, <1>1, PlacesInOrder
  <2> QED BY <2>2 DEF Merged
<1>10. ASSUME NEW j \in 1..(2 * k)
       PROVE  drawn[j] = s[at[j]]
  <2>1. PICK b \in 0..(k - 1) : j = 2 * b + 1 \/ j = 2 * b + 2
    BY <1>1, TwoPerBucket
  <2>2. /\ Extremes(Bucket(s, k, b))[1] = s[X[b]]
        /\ Extremes(Bucket(s, k, b))[2] = s[Y[b]]
    BY <1>7
  <2> QED BY <2>1, <2>2, <1>2, <1>9
<1>11. ASSUME NEW i \in 1..n
       PROVE  \E p, q \in 1..(2 * k) :
                /\ {AbsOf(at[p] - i), AbsOf(at[q] - i)} \subseteq 0..(w - 1)
                /\ s[at[p]] <= s[i] /\ s[i] <= s[at[q]]
  <2>1. PICK b \in 0..(k - 1) : i \in (lo[b] + 1)..hi[b]
    BY <1>6
  <2>2. Bounds(s, X[b], Y[b], i)
    BY <2>1, <1>7
  <2>3. lo[b] \in Int /\ hi[b] \in Int /\ w \in Int /\ hi[b] <= lo[b] + w
    BY <1>3, <1>4, <1>8
  <2>4. X[b] \in (lo[b] + 1)..hi[b] /\ Y[b] \in (lo[b] + 1)..hi[b]
    <3>1. lo[b] < X[b] /\ X[b] < Y[b] /\ Y[b] <= hi[b] /\ X[b] \in Int /\ Y[b] \in Int
      BY <1>7
    <3> QED BY <3>1, <2>3
  <2>5. AbsOf(X[b] - i) \in 0..(w - 1) /\ AbsOf(Y[b] - i) \in 0..(w - 1)
    BY <2>1, <2>3, <2>4, NearInBucket
  <2>6. /\ 2 * b + 1 \in 1..(2 * k) /\ 2 * b + 2 \in 1..(2 * k)
        /\ at[2 * b + 1] = X[b] /\ at[2 * b + 2] = Y[b]
    BY <1>1, <1>9, OddAndEven
  <2> DEFINE p == 2 * b + 1
             q == 2 * b + 2
  <2>7. /\ p \in 1..(2 * k) /\ q \in 1..(2 * k)
        /\ {AbsOf(at[p] - i), AbsOf(at[q] - i)} \subseteq 0..(w - 1)
    BY <2>5, <2>6
  <2>8. \/ s[at[p]] <= s[i] /\ s[i] <= s[at[q]]
        \/ s[at[q]] <= s[i] /\ s[i] <= s[at[p]]
    BY <2>2, <2>6 DEF Bounds
  <2> HIDE DEF p, q
  <2> QED BY <2>7, <2>8
<1> QED BY <1>9, <1>10, <1>11 DEF n, drawn, k, w

-----------------------------------------------------------------------------
\* The peak of samples is the size of one of them, and none is larger.
LEMMA PeakFacts ==
  ASSUME NEW s \in Seq(Int), s # <<>>
  PROVE  /\ Peak(s) \in Nat
         /\ \E i \in 1..Len(s) : Peak(s) = AbsOf(s[i])
         /\ \A i \in 1..Len(s) : AbsOf(s[i]) <= Peak(s)
<1> DEFINE n == Len(s)
           t == [i \in 1..n |-> AbsOf(s[i])]
           A == {AbsOf(v) : v \in Range(s)}
<1>1. n \in Nat /\ n > 0 /\ DOMAIN s = 1..n /\ \A i \in 1..n : s[i] \in Int /\ AbsOf(s[i]) \in Nat
  BY DEF AbsOf
<1>2. t \in Seq(Int) /\ t # <<>> /\ Len(t) = n /\ \A i \in 1..n : t[i] = AbsOf(s[i])
  BY <1>1
<1> HIDE DEF n, t
<1>3. PICK h \in 1..n : \A j \in 1..n : t[j] <= t[h]
  BY <1>2, GreatestSample
<1>4. A = {AbsOf(s[i]) : i \in 1..n}
  BY <1>1 DEF Range
<1> HIDE DEF A
<1>5. A \subseteq Int /\ AbsOf(s[h]) \in A /\ \A v \in A : v <= AbsOf(s[h])
  BY <1>1, <1>2, <1>3, <1>4
<1>6. Peak(s) = AbsOf(s[h])
  BY <1>5, MaxFacts DEF Peak, A
<1> QED BY <1>1, <1>2, <1>3, <1>6 DEF n

\* A sample of bucket c - 1 lies under cell c.
LEMMA UnderCell ==
  ASSUME NEW n \in Nat, NEW m \in Nat, m > 0, NEW c \in 1..m, NEW i \in Int,
         Edge(n, m, c - 1) < i, i <= Edge(n, m, c)
  PROVE  (i - 1) * m - (c - 1) * n \in (-m)..n
<1> DEFINE p == (c - 1) * n
           q == c * n
           lo == p \div m
           hi == q \div m
<1>1. c - 1 \in Nat /\ p \in Nat /\ q \in Nat /\ q = p + n
  OBVIOUS
<1>2. lo \in Nat /\ p < m * lo + m
  BY <1>1, Division
<1>3. hi \in Nat /\ m * hi <= q
  BY <1>1, Division
<1>4. lo + 1 <= i /\ i <= hi
  BY <1>2 DEF Edge
<1> HIDE DEF lo, hi, p, q
<1>5. m * lo <= m * (i - 1) /\ m * i <= m * hi /\ m * i = m * (i - 1) + m
  BY <1>2, <1>3, <1>4
<1>6. (i - 1) * m = m * (i - 1) /\ m * (i - 1) \in Int /\ m * lo \in Int /\ m * hi \in Int
  BY <1>2, <1>3
<1> DEFINE u == m * (i - 1)
<1> HIDE DEF u
<1>7. u - p \in (-m)..n
  <2>1. u \in Int /\ m * lo <= u /\ u + m <= m * hi
    BY <1>5, <1>6 DEF u
  <2> DEFINE a == m * lo
             z == m * hi
  <2>2. u \in Int /\ a \in Int /\ z \in Int /\ a <= u /\ u + m <= z /\ p < a + m /\ z <= p + n
    BY <2>1, <1>1, <1>2, <1>3, <1>6
  <2> HIDE DEF a, z
  <2> QED BY <2>2, <1>1
<1> QED BY <1>6, <1>7 DEF u, p

\* A row reduced to its peaks: no more cells than the target, each the peak of
\* samples that lie under it, and over each sample one that is at least as high.
CellsKeep(s, cells) ==
  LET m == Len(cells)
      n == Len(s)
      Under(i, c) == (i - 1) * m - (c - 1) * n \in (-m)..n
  IN /\ \A c \in 1..m : \E i \in 1..n : Under(i, c) /\ cells[c] = AbsOf(s[i])
     /\ \A i \in 1..n : \E c \in 1..m : Under(i, c) /\ cells[c] >= AbsOf(s[i])

\* A row longer than the limit is reduced to the peaks of its buckets.
LEMMA PeaksReduced ==
  ASSUME NEW s \in Seq(Int), NEW k \in Nat, k > 0, Len(s) > k
  PROVE  /\ AbsMaxDecimate(s, k) \in Seq(Int)
         /\ Len(AbsMaxDecimate(s, k)) = k
         /\ \A c \in 1..k : AbsMaxDecimate(s, k)[c] = Peak(Bucket(s, k, c - 1))
<1> DEFINE parts == [i \in 1..k |-> IF Bucket(s, k, i - 1) = <<>> THEN <<>>
                                    ELSE <<Peak(Bucket(s, k, i - 1))>>]
           peak(i) == Peak(Bucket(s, k, i - 1))
<1>1. Len(s) \in Nat /\ k <= Len(s)
  OBVIOUS
<1>2. ASSUME NEW i \in 1..k
      PROVE  Bucket(s, k, i - 1) # <<>> /\ peak(i) \in Int
  <2> DEFINE b == i - 1
             lo == Edge(Len(s), k, b)
             hi == Edge(Len(s), k, b + 1)
             chunk == Bucket(s, k, b)
  <2>1. b \in 0..(k - 1) /\ b \in Nat
    OBVIOUS
  <2> HIDE DEF b
  <2>2. lo < hi
    BY <2>1, <1>1, BucketsFilled
  <2>3. /\ lo \in 0..Len(s) /\ hi \in 0..Len(s)
        /\ chunk \in Seq(Int) /\ Len(chunk) = hi - lo
    BY <2>1, BucketSamples
  <2> HIDE DEF lo, hi, chunk
  <2>4. chunk # <<>>
    BY <2>2, <2>3
  <2>5. Peak(chunk) \in Nat
    BY <2>3, <2>4, PeakFacts
  <2> QED BY <2>4, <2>5 DEF chunk, b
<1>3. AbsMaxDecimate(s, k) = FlattenSeq(parts)
  BY DEF AbsMaxDecimate
<1>4. ASSUME NEW i \in 1..k
      PROVE  parts[i] = <<peak(i)>> /\ parts[i] \in Seq(Int) /\ Len(parts[i]) = 1 /\ parts[i][1] = peak(i)
  <2>1. parts[i] = <<peak(i)>> /\ peak(i) \in Int
    BY <1>2
  <2> HIDE DEF peak, parts
  <2> QED BY <2>1
<1>5. parts \in Seq(Seq(Int)) /\ Len(parts) = k
  <2>1. parts \in [1..k -> Seq(Int)]
    <3>1. \A i \in 1..k : (IF Bucket(s, k, i - 1) = <<>> THEN <<>>
                           ELSE <<Peak(Bucket(s, k, i - 1))>>) \in Seq(Int)
      BY <1>4
    <3> QED BY <3>1
  <2> DEFINE T == Seq(Int)
  <2> HIDE DEF parts, T
  <2>2. parts \in Seq(T) /\ Len(parts) = k
    <3>1. parts \in [1..k -> T]
      BY <2>1 DEF T
    <3> QED BY <3>1, <1>1, FunctionIsSeq
  <2> QED BY <2>2 DEF T
<1> HIDE DEF parts, peak
<1> DEFINE flat == FlattenSeq(parts)
<1>6. /\ flat \in Seq(Int)
      /\ Len(flat) = Len(parts) * 1
      /\ \A j \in 1..Len(parts), i \in 1..1 : flat[(j - 1) * 1 + i] = parts[j][i]
  <2>1. 1 \in Nat /\ parts \in Seq(Seq(Int)) /\ \A j \in 1..Len(parts) : Len(parts[j]) = 1
    BY <1>4, <1>5
  <2> HIDE DEF flat
  <2> QED BY <2>1, FlattenEven DEF flat
<1> HIDE DEF flat
<1>7. ASSUME NEW c \in 1..k
      PROVE  flat[c] = peak(c)
  <2>1. c \in 1..Len(parts) /\ 1 \in 1..1 /\ (c - 1) * 1 + 1 = c
    BY <1>5
  <2>2. flat[(c - 1) * 1 + 1] = parts[c][1]
    BY <1>6, <2>1
  <2> QED BY <2>1, <2>2, <1>4
<1>8. Len(flat) = k
  BY <1>5, <1>6
<1> QED BY <1>3, <1>6, <1>7, <1>8 DEF flat, peak

\* A row reduced to peaks fits the limit; each peak is one of the samples near its cell,
\* and no sample exceeds every peak near it.
LEMMA AbsMaxKeeps ==
  ASSUME NEW s \in Seq(Int), NEW target \in Nat, target > 0
  PROVE  /\ Len(AbsMaxDecimate(s, target)) <= target
         /\ CellsKeep(s, AbsMaxDecimate(s, target))
<1> DEFINE n == Len(s)
           cells == AbsMaxDecimate(s, target)
<1>1. n \in Nat /\ \A i \in 1..n : s[i] \in Int /\ AbsOf(s[i]) \in Int
  BY DEF AbsOf
<1>2. CASE n <= target
  <2>1. cells = [i \in 1..n |-> AbsOf(s[i])]
    BY <1>2 DEF AbsMaxDecimate
  <2> HIDE DEF cells, n
  <2>2. Len(cells) = n /\ \A i \in 1..n : cells[i] = AbsOf(s[i])
    BY <2>1, <1>1
  <2>3. \A i \in 1..n : (i - 1) * n - (i - 1) * n \in (-n)..n
    <3> TAKE i \in 1..n
    <3>1. (i - 1) * n - (i - 1) * n = 0
      BY <1>1
    <3> QED BY <3>1, <1>1
  <2>4. CellsKeep(s, cells)
    <3>1. Len(s) = n
      BY DEF n
    <3> QED BY <3>1, <2>2, <2>3, <1>1 DEF CellsKeep
  <2> QED BY <2>2, <2>4, <1>2 DEF cells
<1>3. CASE n > target
  <2> DEFINE k == target
             lo(c) == Edge(n, k, c - 1)
             hi(c) == Edge(n, k, c)
  <2>1. Len(cells) = k /\ \A c \in 1..k : cells[c] = Peak(Bucket(s, k, c - 1))
    BY <1>3, PeaksReduced
  <2>2. ASSUME NEW c \in 1..k
        PROVE  /\ lo(c) \in 0..n /\ hi(c) \in 0..n
               /\ \E i \in (lo(c) + 1)..hi(c) : cells[c] = AbsOf(s[i])
               /\ \A i \in (lo(c) + 1)..hi(c) : AbsOf(s[i]) <= cells[c]
    <3> DEFINE b == c - 1
               l == Edge(n, k, b)
               h == Edge(n, k, b + 1)
               chunk == Bucket(s, k, b)
    <3>1. b \in 0..(k - 1) /\ b \in Nat /\ b + 1 = c
      OBVIOUS
    <3>2. lo(c) = l /\ hi(c) = h /\ cells[c] = Peak(chunk)
      BY <3>1, <2>1
    <3> HIDE DEF b, cells
    <3>3. l < h
      BY <3>1, <1>1, <1>3, BucketsFilled
    <3>4. /\ l \in 0..n /\ h \in 0..n
          /\ chunk \in Seq(Int) /\ Len(chunk) = h - l
          /\ \A i \in 1..(h - l) : chunk[i] = s[l + i]
      BY <3>1, BucketSamples
    <3> HIDE DEF l, h, chunk, lo, hi, n
    <3>5. chunk # <<>>
      BY <3>3, <3>4
    <3>6. /\ \E j \in 1..Len(chunk) : Peak(chunk) = AbsOf(chunk[j])
          /\ \A j \in 1..Len(chunk) : AbsOf(chunk[j]) <= Peak(chunk)
      BY <3>4, <3>5, PeakFacts
    <3>7. \E i \in (l + 1)..h : Peak(chunk) = AbsOf(s[i])
      <4>1. PICK j \in 1..(h - l) : Peak(chunk) = AbsOf(chunk[j])
        BY <3>4, <3>6
      <4>2. l + j \in (l + 1)..h /\ chunk[j] = s[l + j]
        BY <3>4
      <4> QED BY <4>1, <4>2
    <3>8. ASSUME NEW i \in (l + 1)..h
          PROVE  AbsOf(s[i]) <= Peak(chunk)
      <4>1. i - l \in 1..(h - l) /\ l + (i - l) = i
        BY <3>4
      <4>2. chunk[i - l] = s[i]
        BY <3>4, <4>1
      <4> QED BY <4>1, <4>2, <3>4, <3>6
    <3> QED BY <3>2, <3>4, <3>7, <3>8
  <2>3. ASSUME NEW c \in 1..k, NEW i \in (lo(c) + 1)..hi(c)
        PROVE  i \in 1..n /\ (i - 1) * k - (c - 1) * n \in (-k)..n
    <3>1. lo(c) \in 0..n /\ hi(c) \in 0..n
      BY <2>2
    <3>2. lo(c) < i /\ i <= hi(c) /\ i \in Int /\ i \in 1..n
      BY <3>1
    <3> QED BY <3>2, <1>1, UnderCell
  <2>4. ASSUME NEW i \in 1..n
        PROVE  \E c \in 1..k : i \in (lo(c) + 1)..hi(c)
    <3>1. i - 1 \in 0..(n - 1)
      BY <1>1
    <3>2. PICK b \in 0..(k - 1) : Edge(n, k, b) <= i - 1 /\ i - 1 < Edge(n, k, b + 1)
      BY <3>1, <1>1, BucketsCover
    <3>3. b + 1 \in 1..k /\ (b + 1) - 1 = b
      OBVIOUS
    <3>4. lo(b + 1) <= i - 1 /\ i - 1 < hi(b + 1)
      BY <3>2, <3>3
    <3>5. lo(b + 1) \in 0..n /\ hi(b + 1) \in 0..n
      BY <3>3, <2>2
    <3> HIDE DEF lo, hi
    <3>6. i \in (lo(b + 1) + 1)..hi(b + 1)
      BY <3>4, <3>5
    <3> QED BY <3>3, <3>6
  <2> HIDE DEF cells, lo, hi
  <2>5. \A c \in 1..k : cells[c] \in Int
    <3> TAKE c \in 1..k
    <3>1. PICK i \in (lo(c) + 1)..hi(c) : cells[c] = AbsOf(s[i])
      BY <2>2
    <3> QED BY <3>1, <2>3, <1>1
  <2> HIDE DEF n
  <2>6. ASSUME NEW c \in 1..k
        PROVE  \E i \in 1..n : (i - 1) * k - (c - 1) * n \in (-k)..n /\ cells[c] = AbsOf(s[i])
    <3>1. PICK i \in (lo(c) + 1)..hi(c) : cells[c] = AbsOf(s[i])
      BY <2>2
    <3> QED BY <3>1, <2>3
  <2>7. ASSUME NEW i \in 1..n
        PROVE  \E c \in 1..k : (i - 1) * k - (c - 1) * n \in (-k)..n /\ cells[c] >= AbsOf(s[i])
    <3>1. PICK c \in 1..k : i \in (lo(c) + 1)..hi(c)
      BY <2>4
    <3>2. AbsOf(s[i]) <= cells[c] /\ AbsOf(s[i]) \in Int /\ cells[c] \in Int
      BY <3>1, <2>2, <2>5, <1>1
    <3>3. (i - 1) * k - (c - 1) * n \in (-k)..n
      BY <3>1, <2>3
    <3>4. cells[c] >= AbsOf(s[i])
      BY <3>2
    <3> QED BY <3>3, <3>4
  <2>8. Len(cells) = k /\ Len(s) = n
    BY <2>1 DEF cells, n
  <2>9. CellsKeep(s, cells)
    BY <2>6, <2>7, <2>8, Zenon DEF CellsKeep
  <2> QED BY <2>8, <2>9 DEF cells
<1> QED BY <1>1, <1>2, <1>3

-----------------------------------------------------------------------------
\* A trace that may keep two points keeps no more than it may, and one that has
\* a sample keeps one.
LEMMA MinMaxBounded ==
  ASSUME NEW s \in Seq(Int), NEW target \in Nat, target > 1
  PROVE  /\ MinMaxDecimate(s, target) \in Seq(Int)
         /\ Len(MinMaxDecimate(s, target)) <= target
         /\ s # <<>> => MinMaxDecimate(s, target) # <<>>
<1>1. CASE Len(s) <= target
  BY <1>1 DEF MinMaxDecimate
<1>2. CASE Len(s) > target
  <2> DEFINE k == Pairs(target)
             drawn == MinMaxDecimate(s, target)
  <2>1. drawn \in Seq(Int) /\ Len(drawn) = 2 * k
    BY <1>2, MinMaxReduced
  <2>2. k \in Nat /\ k > 0 /\ 2 * k <= target
    BY <1>2, PairsFit
  <2> HIDE DEF k, drawn
  <2>3. Len(drawn) <= target /\ drawn # <<>>
    BY <2>1, <2>2
  <2> QED BY <2>1, <2>3 DEF drawn
<1> QED BY <1>1, <1>2, Len(s) \in Nat

\* The envelope of a trace, whether it is reduced or short enough to be kept.
Width(n, k) == (n + k - 1) \div k

Placing(s, drawn, w, at) ==
  /\ at \in [1..Len(drawn) -> 1..Len(s)]
  /\ \A i, j \in 1..Len(drawn) : i < j => at[i] < at[j]
  /\ \A j \in 1..Len(drawn) : drawn[j] = s[at[j]]
  /\ \A i \in 1..Len(s) : \E p, q \in 1..Len(drawn) :
       /\ {AbsOf(at[p] - i), AbsOf(at[q] - i)} \subseteq 0..(w - 1)
       /\ s[at[p]] <= s[i] /\ s[i] <= s[at[q]]

\* A trace that is drawn whole is its own envelope.
LEMMA KeptWhole ==
  ASSUME NEW s \in Seq(Int), NEW w \in Nat, s # <<>> => w > 0
  PROVE  \E at : Placing(s, s, w, at)
<1> DEFINE n == Len(s)
           at == [j \in 1..n |-> j]
<1>1. n \in Nat /\ (n > 0 => w > 0) /\ \A i \in 1..n : s[i] \in Int
  OBVIOUS
<1>2. at \in [1..n -> 1..n] /\ \A j \in 1..n : at[j] = j
  OBVIOUS
<1> HIDE DEF n, at
<1>3. ASSUME NEW i \in 1..n
      PROVE  /\ {AbsOf(at[i] - i), AbsOf(at[i] - i)} \subseteq 0..(w - 1)
             /\ s[at[i]] <= s[i] /\ s[i] <= s[at[i]]
  <2>1. AbsOf(i - i) \in 0..(w - 1)
    BY <1>1 DEF AbsOf
  <2> QED BY <2>1, <1>1, <1>2
<1>4. \A i, j \in 1..n : i < j => at[i] < at[j]
  BY <1>2
<1>5. \A j \in 1..n : s[j] = s[at[j]]
  BY <1>2
<1>6. Placing(s, s, w, at)
  BY <1>2, <1>3, <1>4, <1>5 DEF Placing, n
<1> QED BY <1>6

\* A trace, reduced or not, is drawn at places of its own, two of which, less than w
\* samples away, bound each sample.
LEMMA TracePlaced ==
  ASSUME NEW s \in Seq(Int), NEW target \in Nat, target > 0
  PROVE  \E at : Placing(s, MinMaxDecimate(s, target), Width(Len(s), Pairs(target)), at)
<1> DEFINE k == Pairs(target)
           w == Width(Len(s), k)
           drawn == MinMaxDecimate(s, target)
<1>1. k \in Nat /\ k > 0 /\ Len(s) \in Nat
  BY DEF Pairs, AtLeastOne
<1>2. CASE Len(s) <= target
  <2>1. drawn = s
    BY <1>2 DEF MinMaxDecimate
  <2> HIDE DEF k
  <2>2. Len(s) + k - 1 \in Nat /\ (s # <<>> => k * 1 <= Len(s) + k - 1)
    BY <1>1
  <2>3. w \in Nat /\ (s # <<>> => 1 <= w)
    BY <2>2, <1>1, Division, DivisionBelow DEF Width
  <2> HIDE DEF w
  <2>4. s # <<>> => w > 0
    BY <2>3
  <2>5. \E at : Placing(s, s, w, at)
    BY <2>3, <2>4, KeptWhole
  <2> QED BY <2>1, <2>5 DEF w, k
<1>3. CASE Len(s) > target
  <2>1. Len(drawn) = 2 * k
    BY <1>3, MinMaxReduced
  <2>2. PICK at \in [1..(2 * k) -> 1..Len(s)] :
              /\ \A i, j \in 1..(2 * k) : i < j => at[i] < at[j]
              /\ \A j \in 1..(2 * k) : drawn[j] = s[at[j]]
              /\ \A i \in 1..Len(s) : \E p, q \in 1..(2 * k) :
                   /\ {AbsOf(at[p] - i), AbsOf(at[q] - i)} \subseteq 0..(w - 1)
                   /\ s[at[p]] <= s[i] /\ s[i] <= s[at[q]]
    BY <1>3, MinMaxPlaced DEF Width
  <2> HIDE DEF k, w, drawn
  <2>3. Placing(s, drawn, w, at)
    BY <2>1, <2>2 DEF Placing
  <2> QED BY <2>3 DEF k, w, drawn
<1> QED BY <1>1, <1>2, <1>3

\* The same, by the set of the places that are kept.
EnvelopeOf(s, drawn, w, P) ==
  /\ P \subseteq DOMAIN s /\ Cardinality(P) = Len(drawn)
  /\ \A p \in P : drawn[Cardinality(P \cap 1..p)] = s[p]
  /\ \A i \in DOMAIN s : \E p, q \in P :
       /\ {AbsOf(p - i), AbsOf(q - i)} \subseteq 0..(w - 1)
       /\ s[p] <= s[i] /\ s[i] <= s[q]

\* The places as a set: the point drawn at a place is the one of its rank.
LEMMA EnvelopeFound ==
  ASSUME NEW s \in Seq(Int), NEW drawn \in Seq(Int), NEW w, NEW at, Placing(s, drawn, w, at)
  PROVE  EnvelopeOf(s, drawn, w, {at[j] : j \in 1..Len(drawn)})
<1> DEFINE n == Len(s)
           m == Len(drawn)
           P == {at[j] : j \in 1..m}
<1>1. /\ at \in [1..m -> 1..n]
      /\ \A i, j \in 1..m : i < j => at[i] < at[j]
      /\ \A j \in 1..m : drawn[j] = s[at[j]]
      /\ \A i \in 1..n : \E p, q \in 1..m :
           /\ {AbsOf(at[p] - i), AbsOf(at[q] - i)} \subseteq 0..(w - 1)
           /\ s[at[p]] <= s[i] /\ s[i] <= s[at[q]]
  BY DEF Placing
<1>2. n \in Nat /\ m \in Nat /\ DOMAIN s = 1..n
  OBVIOUS
<1> HIDE DEF n, m
<1>3. /\ P \subseteq 1..n /\ Cardinality(P) = m
      /\ \A j \in 1..m : Cardinality(P \cap 1..at[j]) = j
  BY <1>1, <1>2, PlacesCounted
<1>4. ASSUME NEW p \in P PROVE drawn[Cardinality(P \cap 1..p)] = s[p]
  <2>1. PICK j \in 1..m : p = at[j]
    OBVIOUS
  <2>2. Cardinality(P \cap 1..p) = j
    BY <2>1, <1>3
  <2> HIDE DEF P
  <2> QED BY <2>1, <2>2, <1>1
<1>5. ASSUME NEW i \in 1..n
      PROVE  \E p, q \in P : /\ {AbsOf(p - i), AbsOf(q - i)} \subseteq 0..(w - 1)
                             /\ s[p] <= s[i] /\ s[i] <= s[q]
  <2>1. PICK p, q \in 1..m :
           /\ {AbsOf(at[p] - i), AbsOf(at[q] - i)} \subseteq 0..(w - 1)
           /\ s[at[p]] <= s[i] /\ s[i] <= s[at[q]]
    BY <1>1
  <2>2. at[p] \in P /\ at[q] \in P
    OBVIOUS
  <2> HIDE DEF P
  <2> QED BY <2>1, <2>2
<1> HIDE DEF P
<1>6. EnvelopeOf(s, drawn, w, P)
  BY <1>2, <1>3, <1>4, <1>5 DEF EnvelopeOf, m
<1> QED BY <1>6 DEF P, m

\* What is reduced keeps its peak: each sample lies between two that are kept.
LEMMA PeakKept ==
  ASSUME NEW s \in Seq(Int), s # <<>>, NEW target \in Nat, target > 1
  PROVE  Peak(MinMaxDecimate(s, target)) = Peak(s)
<1> DEFINE red == MinMaxDecimate(s, target)
           n == Len(s)
           m == Len(red)
<1>1. red \in Seq(Int) /\ red # <<>>
  BY MinMaxBounded
<1>2. PICK at : Placing(s, red, Width(Len(s), Pairs(target)), at)
  BY TracePlaced
<1> HIDE DEF red
<1>3. /\ at \in [1..m -> 1..n]
      /\ \A j \in 1..m : red[j] = s[at[j]]
      /\ \A i \in 1..n : \E p, q \in 1..m : s[at[p]] <= s[i] /\ s[i] <= s[at[q]]
  BY <1>2 DEF Placing
<1>4. /\ Peak(s) \in Nat
      /\ \E i \in 1..n : Peak(s) = AbsOf(s[i])
      /\ \A i \in 1..n : AbsOf(s[i]) <= Peak(s)
  BY PeakFacts
<1>5. /\ Peak(red) \in Nat
      /\ \E i \in 1..m : Peak(red) = AbsOf(red[i])
      /\ \A i \in 1..m : AbsOf(red[i]) <= Peak(red)
  BY <1>1, PeakFacts
<1>6. \A i \in 1..n : s[i] \in Int
  OBVIOUS
<1> HIDE DEF n, m
<1>7. Peak(red) <= Peak(s)
  <2>1. PICK j \in 1..m : Peak(red) = AbsOf(red[j])
    BY <1>5
  <2>2. at[j] \in 1..n /\ red[j] = s[at[j]]
    BY <1>3
  <2> QED BY <2>1, <2>2, <1>4
<1>8. Peak(s) <= Peak(red)
  <2>1. PICK i \in 1..n : Peak(s) = AbsOf(s[i])
    BY <1>4
  <2>2. PICK p, q \in 1..m : s[at[p]] <= s[i] /\ s[i] <= s[at[q]]
    BY <1>3
  <2>3. at[p] \in 1..n /\ at[q] \in 1..n /\ red[p] = s[at[p]] /\ red[q] = s[at[q]]
    BY <1>3
  <2>4. AbsOf(red[p]) <= Peak(red) /\ AbsOf(red[q]) <= Peak(red)
    BY <1>5
  <2>5. s[i] \in Int /\ red[p] \in Int /\ red[q] \in Int
    BY <1>6, <2>3
  <2>6. red[p] <= s[i] /\ s[i] <= red[q]
    BY <2>2, <2>3
  <2> QED BY <2>1, <2>4, <2>5, <2>6, <1>5 DEF AbsOf
<1> QED BY <1>4, <1>5, <1>7, <1>8 DEF red
=============================================================================
