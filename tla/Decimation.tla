----------------------------- MODULE Decimation -----------------------------
(***************************************************************************)
(* How the sweep parser reduces a list of n samples: by a stride, which    *)
(* drops all but every k-th of them, or in buckets, each of which leaves   *)
(* its extremes (a line) or its peak (a cell of a heatmap).  Samples are   *)
(* integers here: the code compares them and takes their size, no more.    *)
(***************************************************************************)
EXTENDS Integers, SequencesExt

AtLeastOne(n) == IF n < 1 THEN 1 ELSE n
AbsOf(v) == IF v < 0 THEN -v ELSE v

-----------------------------------------------------------------------------
\* range(0, n, max(1, ceil(n / limit))): how far apart the kept indices are,
\* and the indices, counted from 0 as in the code.
Stride_Floor(n, limit) == AtLeastOne(n \div limit)   \* slip: // for ceil

Stride(n, limit) == AtLeastOne((n + limit - 1) \div limit)

Kept_First(n, limit) ==   \* slip: cut off instead of spread
  [j \in 1..(IF n < limit THEN n ELSE limit) |-> j - 1]

Kept(n, limit) ==
  [j \in 1..((n + Stride(n, limit) - 1) \div Stride(n, limit)) |-> (j - 1) * Stride(n, limit)]

\* What keeping indices should give: the first, at most limit of them in increasing
\* order, all when they fit, and a last one that the stride does not leave behind.
Spread(kept, n, limit) ==
  LET gap == IF Len(kept) < 2 THEN n ELSE kept[2] - kept[1]
  IN /\ Len(kept) <= limit /\ Range(kept) \subseteq 0..(n - 1)
     /\ n > 0 => kept # <<>> /\ kept[1] = 0 /\ kept[Len(kept)] + gap >= n
     /\ \A j \in 1..(Len(kept) - 1) : kept[j + 1] = kept[j] + gap /\ gap > 0
     /\ n <= limit => Len(kept) = n

-----------------------------------------------------------------------------
\* int(b * width), where width = n / k: the first sample of bucket b of k, and,
\* for b = k, the end.  The code computes it in floating point; it is exact for
\* the numbers of buckets that are powers of two, and for the 24 of an envelope
\* an inner edge may come out one lower, for both of the buckets it separates.
Edge(n, k, b) == (b * n) \div k

\* The samples of bucket b.
Bucket(s, k, b) == SubSeq(s, Edge(Len(s), k, b) + 1, Edge(Len(s), k, b + 1))

First(s, v) == SelectInSeq(s, LAMBDA w : w = v)

Extremes_LowFirst(s) == <<Min(Range(s)), Max(Range(s))>>   \* slip: not in sample order

\* The least and the greatest sample of a bucket, in the order they come in.
Extremes(s) ==
  LET a == Min(Range(s))
      z == Max(Range(s))
  IN IF First(s, a) <= First(s, z) THEN <<a, z>> ELSE <<z, a>>

Peak(s) == Max({AbsOf(v) : v \in Range(s)})

\* _minmax_decimate: an empty bucket leaves nothing.
Pairs(target) == AtLeastOne(target \div 2)

MinMaxDecimate(s, target) ==
  IF Len(s) <= target THEN s
  ELSE FlattenSeq([i \in 1..Pairs(target) |->
         LET chunk == Bucket(s, Pairs(target), i - 1)
         IN IF chunk = <<>> THEN <<>> ELSE Extremes(chunk)])

\* _absmax_decimate, likewise.
AbsMaxDecimate(s, target) ==
  IF Len(s) <= target THEN [i \in DOMAIN s |-> AbsOf(s[i])]
  ELSE FlattenSeq([i \in 1..target |->
         LET chunk == Bucket(s, target, i - 1)
         IN IF chunk = <<>> THEN <<>> ELSE <<Peak(chunk)>>])
=============================================================================
