--------------------------- MODULE DataInduction ---------------------------
(***************************************************************************)
(* Induction for the proofs of the operators: over the naturals, for       *)
(* functions defined by recursion, for sequences joined by a fold, and for *)
(* the extremes of a sequence of integers.                                 *)
(***************************************************************************)
EXTENDS Integers, SequencesExt, WellFoundedInduction, TLAPS

\* A non-empty set of naturals has a least element.
LEMMA LeastNatural ==
  ASSUME NEW S, S \subseteq Nat, S # {}
  PROVE  \E n \in S : \A m \in S : n <= m
<1>1. IsWellFoundedOn(OpToRel(<, Nat), Nat)
  BY NatLessThanWellFounded, Zenon
<1>2. PICK n \in S : \A m \in S : <<m, n>> \notin OpToRel(<, Nat)
  BY <1>1, WFMin
<1>3. \A m \in S : ~(m < n)
  BY <1>2 DEF OpToRel
<1> QED BY <1>3

\* Induction over the naturals, for the elements of a set instead of a predicate.
LEMMA Induction ==
  ASSUME NEW S, 0 \in S, \A n \in Nat : n \in S => n + 1 \in S
  PROVE  Nat \subseteq S
<1> SUFFICES ASSUME Nat \ S # {} PROVE FALSE
  OBVIOUS
<1>1. PICK n \in Nat \ S : \A m \in Nat \ S : n <= m
  BY LeastNatural
<1>2. n # 0 /\ n - 1 \in Nat
  BY <1>1
<1>3. n - 1 \in S
  BY <1>1, <1>2
<1> QED BY <1>2, <1>3, <1>1

\* A function that is defined from its value at the argument before exists: the
\* step to i is a function of the value at i - 1.
LEMMA RecursionExists ==
  ASSUME NEW V, NEW a \in V, NEW n \in Nat, NEW step \in [1..n -> [V -> V]]
  PROVE  \E f \in [0..n -> V] : f[0] = a /\ \A i \in 1..n : f[i] = step[i][f[i - 1]]
<1> DEFINE Upto(k) == \E f \in [0..k -> V] : f[0] = a /\ \A i \in 1..k : f[i] = step[i][f[i - 1]]
           S == {k \in Nat : k <= n => Upto(k)}
<1>1. 0 \in S
  <2> DEFINE f == [i \in 0..0 |-> a]
  <2>1. f \in [0..0 -> V] /\ f[0] = a /\ 1..0 = {}
    OBVIOUS
  <2>2. Upto(0)
    BY <2>1
  <2> QED BY <2>2
<1>2. ASSUME NEW k \in Nat, k \in S PROVE k + 1 \in S
  <2> SUFFICES ASSUME k + 1 <= n PROVE Upto(k + 1)
    OBVIOUS
  <2>1. PICK f \in [0..k -> V] : f[0] = a /\ \A i \in 1..k : f[i] = step[i][f[i - 1]]
    BY <1>2
  <2> DEFINE g == [i \in 0..(k + 1) |-> IF i = k + 1 THEN step[k + 1][f[k]] ELSE f[i]]
  <2>2. step[k + 1][f[k]] \in V
    BY <2>1
  <2>3. g \in [0..(k + 1) -> V]
    BY <2>1, <2>2
  <2>4. g[0] = a
    BY <2>1
  <2>5. \A i \in 1..(k + 1) : g[i] = step[i][g[i - 1]]
    BY <2>1
  <2> QED BY <2>3, <2>4, <2>5
<1> HIDE DEF S
<1>3. Nat \subseteq S
  BY <1>1, <1>2, Induction
<1> QED BY <1>3 DEF S

\* A function on 1..n is a sequence of length n.
LEMMA FunctionIsSeq ==
  ASSUME NEW T, NEW n \in Nat, NEW f \in [1..n -> T]
  PROVE  f \in Seq(T) /\ Len(f) = n /\ DOMAIN f = 1..n
OBVIOUS

\* Two sequences joined, element by element.
LEMMA Concat ==
  ASSUME NEW T, NEW s \in Seq(T), NEW t \in Seq(T)
  PROVE  /\ s \o t \in Seq(T) /\ Len(s \o t) = Len(s) + Len(t)
         /\ \A i \in 1..Len(s) : (s \o t)[i] = s[i]
         /\ \A i \in 1..Len(t) : (s \o t)[Len(s) + i] = t[i]
  OBVIOUS

\* Sequences joined one after the other: the joins so far, as a function.
LEMMA ConcatsExist ==
  ASSUME NEW T, NEW seqs \in Seq(Seq(T))
  PROVE  \E h \in [0..Len(seqs) -> Seq(T)] :
           h[0] = <<>> /\ \A i \in 1..Len(seqs) : h[i] = h[i - 1] \o seqs[i]
<1> DEFINE n == Len(seqs)
           step == [i \in 1..n |-> [s \in Seq(T) |-> s \o seqs[i]]]
<1>1. step \in [1..n -> [Seq(T) -> Seq(T)]]
  OBVIOUS
<1>2. n \in Nat /\ <<>> \in Seq(T)
  OBVIOUS
<1>3. \A i \in 1..n, s \in Seq(T) : step[i][s] = s \o seqs[i]
  OBVIOUS
<1> HIDE DEF n, step
<1>4. PICK h \in [0..n -> Seq(T)] : h[0] = <<>> /\ \A i \in 1..n : h[i] = step[i][h[i - 1]]
  <2> DEFINE V == Seq(T)
             a == <<>>
  <2>1. n \in Nat /\ a \in V /\ step \in [1..n -> [V -> V]]
    BY <1>1, <1>2
  <2> HIDE DEF V, a
  <2>2. \E h \in [0..n -> V] : h[0] = a /\ \A i \in 1..n : h[i] = step[i][h[i - 1]]
    BY <2>1, RecursionExists
  <2> QED BY <2>2 DEF V, a
<1>5. \A i \in 1..n : h[i - 1] \in Seq(T)
  BY <1>2, <1>4
<1>6. \A i \in 1..n : h[i] = h[i - 1] \o seqs[i]
  BY <1>3, <1>4, <1>5
<1> QED BY <1>4, <1>6 DEF n

\* FlattenSeq is the last of these joins.
LEMMA FlattenSteps ==
  ASSUME NEW T, NEW seqs \in Seq(Seq(T)), Len(seqs) > 0
  PROVE  \E f \in [1..Len(seqs) -> Seq(T)] :
           /\ f[1] = seqs[1]
           /\ \A i \in 2..Len(seqs) : f[i] = f[i - 1] \o seqs[i]
           /\ FlattenSeq(seqs) = f[Len(seqs)]
<1> DEFINE n == Len(seqs)
           Solves(g) == g = [i \in 1..n |-> IF i = 1 THEN seqs[i] ELSE g[i - 1] \o seqs[i]]
           F == CHOOSE g : Solves(g)
<1>1. PICK h \in [0..n -> Seq(T)] : h[0] = <<>> /\ \A i \in 1..n : h[i] = h[i - 1] \o seqs[i]
  BY ConcatsExist
<1>2. n \in Nat /\ n > 0 /\ 1 \in 1..n /\ \A i \in 1..n : seqs[i] \in Seq(T)
  OBVIOUS
<1>3. \A s \in Seq(T) : <<>> \o s = s
  OBVIOUS
<1> DEFINE g == [i \in 1..n |-> h[i]]
<1>4. \A i \in 1..n : g[i] = IF i = 1 THEN seqs[i] ELSE g[i - 1] \o seqs[i]
  <2> HIDE DEF n
  <2> TAKE i \in 1..n
  <2>1. h[i] = h[i - 1] \o seqs[i] /\ g[i] = h[i]
    BY <1>1
  <2>2. CASE i = 1
    <3>1. h[i - 1] = <<>>
      <4>1. i - 1 = 0
        BY <2>2
      <4> QED BY <4>1, <1>1
    <3> QED BY <3>1, <2>1, <1>2, <1>3, <2>2, Zenon
  <2>3. CASE i # 1
    <3>1. i - 1 \in 1..n
      BY <1>2, <2>3
    <3> QED BY <3>1, <2>1, <2>3
  <2> QED BY <2>2, <2>3
<1>5. Solves(g)
  BY <1>4, Zenon
<1>6. Solves(F)
  BY <1>5, Zenon
<1>7. FlattenSeq(seqs) = F[n]
  BY DEF FlattenSeq
<1> HIDE DEF F
<1>8. F = [i \in 1..n |-> IF i = 1 THEN seqs[i] ELSE F[i - 1] \o seqs[i]]
  BY <1>6, Zenon
<1>9. \A i \in 1..n : F[i] = IF i = 1 THEN seqs[i] ELSE F[i - 1] \o seqs[i]
  BY <1>8, Zenon
<1>10. n \in Nat /\ n > 0 /\ 1 \in 1..n
  OBVIOUS
<1>11. F[1] = seqs[1]
  BY <1>9, <1>10, Zenon
<1> HIDE DEF n
<1>13. \A i \in 2..n : i \in 1..n /\ i # 1
  BY <1>10
<1>14. \A i \in 2..n : F[i] = F[i - 1] \o seqs[i]
  BY <1>9, <1>13, Zenon
<1>12. F \in [1..n -> Seq(T)]
  <2> DEFINE S == {k \in Nat : k \in 1..n => F[k] \in Seq(T)}
  <2>1. 0 \in S
    OBVIOUS
  <2>2. ASSUME NEW k \in Nat, k \in S PROVE k + 1 \in S
    <3> SUFFICES ASSUME k + 1 \in 1..n PROVE F[k + 1] \in Seq(T)
      OBVIOUS
    <3>1. CASE k = 0
      BY <3>1, <1>11, <1>10 DEF n
    <3>2. CASE k > 0
      <4>1. k \in 1..n /\ k + 1 \in 2..n /\ (k + 1) - 1 = k
        BY <3>2, <1>10
      <4>2. F[k] \in Seq(T)
        BY <2>2, <4>1
      <4>3. F[k + 1] = F[k] \o seqs[k + 1]
        BY <1>14, <4>1
      <4>4. seqs[k + 1] \in Seq(T)
        BY DEF n
      <4> HIDE DEF F
      <4> QED BY <4>2, <4>3, <4>4, Concat
    <3> QED BY <3>1, <3>2
  <2> HIDE DEF S
  <2>3. Nat \subseteq S
    BY <2>1, <2>2, Induction
  <2>4. \A i \in 1..n : F[i] \in Seq(T)
    BY <2>3 DEF S
  <2>5. \E D : F = [i \in D |-> F[i]] /\ D = 1..n
    BY <1>8, Zenon
  <2> QED BY <2>4, <2>5
<1> QED BY <1>7, <1>11, <1>14, <1>12 DEF n

\* Sequences of the same length m put together: sample i of part j is at
\* (j - 1) * m + i.
LEMMA FlattenEven ==
  ASSUME NEW T, NEW seqs \in Seq(Seq(T)), NEW m \in Nat,
         \A j \in 1..Len(seqs) : Len(seqs[j]) = m
  PROVE  /\ FlattenSeq(seqs) \in Seq(T)
         /\ Len(FlattenSeq(seqs)) = Len(seqs) * m
         /\ \A j \in 1..Len(seqs), i \in 1..m : FlattenSeq(seqs)[(j - 1) * m + i] = seqs[j][i]
<1> DEFINE n == Len(seqs)
<1>1. CASE n = 0
  <2>1. FlattenSeq(seqs) = seqs /\ seqs = <<>>
    BY <1>1 DEF FlattenSeq
  <2> QED BY <2>1, <1>1
<1>2. CASE n > 0
  <2>1. PICK f \in [1..n -> Seq(T)] :
           /\ f[1] = seqs[1]
           /\ \A i \in 2..n : f[i] = f[i - 1] \o seqs[i]
           /\ FlattenSeq(seqs) = f[n]
    BY <1>2, FlattenSteps
  <2> DEFINE Even(k) == /\ Len(f[k]) = k * m
                        /\ \A j \in 1..k, i \in 1..m : f[k][(j - 1) * m + i] = seqs[j][i]
             S == {k \in Nat : k \in 1..n => Even(k)}
  <2>2. 0 \in S
    OBVIOUS
  <2>3. ASSUME NEW k \in Nat, k \in S PROVE k + 1 \in S
    <3> SUFFICES ASSUME k + 1 \in 1..n PROVE Even(k + 1)
      OBVIOUS
    <3>1. CASE k = 0
      <4>1. Len(f[1]) = m /\ f[1] = seqs[1]
        BY <2>1, <3>1
      <4>2. \A i \in 1..m : (1 - 1) * m + i = i
        OBVIOUS
      <4> QED BY <4>1, <4>2, <3>1
    <3>2. CASE k > 0
      <4>1. /\ f[k + 1] = f[k] \o seqs[k + 1] /\ f[k] \in Seq(T) /\ seqs[k + 1] \in Seq(T)
            /\ Len(f[k]) = k * m /\ Len(seqs[k + 1]) = m
        <5>1. k \in 1..n /\ k + 1 \in 1..n /\ k + 1 \in 2..n /\ (k + 1) - 1 = k
          BY <3>2
        <5>2. Len(f[k]) = k * m
          BY <5>1, <2>3
        <5> HIDE DEF S, Even
        <5>3. f[k] \in Seq(T) /\ f[k + 1] = f[(k + 1) - 1] \o seqs[k + 1]
          BY <5>1, <2>1
        <5>4. seqs[k + 1] \in Seq(T) /\ Len(seqs[k + 1]) = m
          BY <5>1
        <5> QED BY <5>1, <5>2, <5>3, <5>4
      <4>2. k * m \in Nat /\ (k + 1) * m = k * m + m
        BY <3>2
      <4>3. Len(f[k + 1]) = (k + 1) * m
        <5>1. Len(f[k + 1]) = Len(f[k]) + Len(seqs[k + 1])
          <6> DEFINE s == f[k]
                     t == seqs[k + 1]
          <6>1. s \in Seq(T) /\ t \in Seq(T) /\ f[k + 1] = s \o t
            BY <4>1
          <6> HIDE DEF s, t
          <6>2. Len(f[k + 1]) = Len(s) + Len(t)
            BY <6>1
          <6> QED BY <6>2 DEF s, t
        <5> QED BY <5>1, <4>1, <4>2
      <4>4. ASSUME NEW j \in 1..(k + 1), NEW i \in 1..m
            PROVE  f[k + 1][(j - 1) * m + i] = seqs[j][i]
        <5> DEFINE p == (j - 1) * m
                   l == k * m
        <5>1. p \in Nat /\ l \in Nat
          OBVIOUS
        <5>2. CASE j = k + 1
          <6>1. p = l
            BY <5>2
          <6> HIDE DEF p, l
          <6>2. Len(f[k]) = l
            BY <4>1 DEF l
          <6>3. (f[k] \o seqs[k + 1])[l + i] = seqs[k + 1][i]
            <7>1. i \in 1..Len(seqs[k + 1])
              BY <4>1
            <7>2. (f[k] \o seqs[k + 1])[Len(f[k]) + i] = seqs[k + 1][i]
              <8> DEFINE s == f[k]
                         t == seqs[k + 1]
              <8>1. s \in Seq(T) /\ t \in Seq(T) /\ i \in 1..Len(t)
                BY <4>1, <7>1
              <8> HIDE DEF s, t
              <8>2. (s \o t)[Len(s) + i] = t[i]
                BY <8>1
              <8> QED BY <8>2 DEF s, t
            <7> QED BY <7>2, <6>2
          <6>4. f[k + 1][p + i] = seqs[j][i]
            BY <6>1, <6>3, <4>1, <5>2
          <6> QED BY <6>4 DEF p
        <5>3. CASE j <= k
          <6>1. p + m <= l
            <7>1. j * m <= k * m /\ j * m = p + m
              BY <5>3
            <7> QED BY <7>1
          <6>2. f[k][p + i] = seqs[j][i]
            BY <2>3, <3>2, <5>3
          <6> HIDE DEF p, l
          <6>3. Len(f[k]) = l
            BY <4>1 DEF l
          <6>4. p + i \in 1..l
            BY <5>1, <6>1
          <6>5. (f[k] \o seqs[k + 1])[p + i] = f[k][p + i]
            BY <4>1, <6>3, <6>4, Concat
          <6> QED BY <6>2, <6>5, <4>1 DEF p
        <5> QED BY <5>2, <5>3
      <4> QED BY <4>3, <4>4
    <3> QED BY <3>1, <3>2
  <2> HIDE DEF S, Even
  <2>4. Nat \subseteq S
    BY <2>2, <2>3, Induction
  <2>5. n \in Nat /\ n \in S
    BY <2>4
  <2>6. Even(n)
    BY <2>5, <1>2 DEF S
  <2>7. FlattenSeq(seqs) = f[n] /\ f[n] \in Seq(T)
    BY <2>1, <1>2
  <2> HIDE DEF Even
  <2>8. Even(n) => /\ Len(f[n]) = n * m
                   /\ \A j \in 1..n, i \in 1..m : f[n][(j - 1) * m + i] = seqs[j][i]
    BY Zenon DEF Even
  <2> QED BY <2>6, <2>7, <2>8, Zenon
<1> QED BY <1>1, <1>2

\* The greatest and the least sample of a sequence exist.
LEMMA GreatestSample ==
  ASSUME NEW s \in Seq(Int), s # <<>>
  PROVE  \E i \in 1..Len(s) : \A j \in 1..Len(s) : s[j] <= s[i]
<1> DEFINE n == Len(s)
           Top(k) == \E i \in 1..(k + 1) : \A j \in 1..(k + 1) : s[j] <= s[i]
           S == {k \in Nat : k < n => Top(k)}
<1>1. n \in Nat /\ n > 0 /\ \A i \in 1..n : s[i] \in Int
  OBVIOUS
<1>2. 0 \in S
  <2>1. 1 \in 1..n /\ 1..(0 + 1) = {1}
    BY <1>1
  <2>2. Top(0)
    BY <1>1, <2>1
  <2> QED BY <2>2
<1>3. ASSUME NEW k \in Nat, k \in S PROVE k + 1 \in S
  <2> SUFFICES ASSUME k + 1 < n PROVE Top(k + 1)
    OBVIOUS
  <2>1. PICK i \in 1..(k + 1) : \A j \in 1..(k + 1) : s[j] <= s[i]
    BY <1>3
  <2>2. i \in 1..n /\ k + 2 \in 1..n /\ s[i] \in Int /\ s[k + 2] \in Int
    BY <1>1
  <2>3. \A j \in 1..(k + 2) : j \in 1..(k + 1) \/ j = k + 2
    OBVIOUS
  <2>4. CASE s[k + 2] <= s[i]
    <3>1. \A j \in 1..((k + 1) + 1) : s[j] <= s[i]
      BY <2>1, <2>3, <2>4
    <3>2. i \in 1..((k + 1) + 1)
      OBVIOUS
    <3> QED BY <3>1, <3>2
  <2>5. CASE s[i] < s[k + 2]
    <3>1. \A j \in 1..(k + 1) : s[j] \in Int
      BY <1>1
    <3>2. \A j \in 1..((k + 1) + 1) : s[j] <= s[k + 2]
      BY <2>1, <2>2, <2>3, <2>5, <3>1
    <3>3. k + 2 \in 1..((k + 1) + 1)
      OBVIOUS
    <3> QED BY <3>2, <3>3
  <2>6. s[k + 2] <= s[i] \/ s[i] < s[k + 2]
    BY <2>2
  <2> HIDE DEF Top
  <2> QED BY <2>6, <2>4, <2>5
<1> HIDE DEF S, Top
<1>4. Nat \subseteq S
  BY <1>2, <1>3, Induction
<1>5. n - 1 \in S /\ n - 1 < n
  BY <1>1, <1>4
<1>6. Top(n - 1)
  BY <1>5 DEF S
<1> QED BY <1>6, <1>1 DEF Top

\* A sequence of integers that is not empty has a least sample.
LEMMA LeastSample ==
  ASSUME NEW s \in Seq(Int), s # <<>>
  PROVE  \E i \in 1..Len(s) : \A j \in 1..Len(s) : s[i] <= s[j]
<1> DEFINE t == [i \in 1..Len(s) |-> -s[i]]
<1>1. t \in Seq(Int) /\ t # <<>> /\ Len(t) = Len(s)
  OBVIOUS
<1>2. \A i \in 1..Len(s) : t[i] = -s[i] /\ s[i] \in Int
  OBVIOUS
<1> HIDE DEF t
<1>3. PICK i \in 1..Len(s) : \A j \in 1..Len(s) : t[j] <= t[i]
  BY <1>1, GreatestSample
<1>4. ASSUME NEW j \in 1..Len(s) PROVE s[i] <= s[j]
  BY <1>2, <1>3
<1> QED BY <1>4

\* FlattenSeq keeps the type of the elements.
LEMMA FlattenTyped ==
  ASSUME NEW T, NEW seqs \in Seq(Seq(T))
  PROVE  FlattenSeq(seqs) \in Seq(T)
<1>1. CASE Len(seqs) = 0
  BY <1>1 DEF FlattenSeq
<1>2. CASE Len(seqs) > 0
  <2>1. PICK f \in [1..Len(seqs) -> Seq(T)] : FlattenSeq(seqs) = f[Len(seqs)]
    BY <1>2, FlattenSteps
  <2>2. Len(seqs) \in 1..Len(seqs)
    BY <1>2
  <2> QED BY <2>1, <2>2, Zenon
<1> QED BY <1>1, <1>2, Len(seqs) \in Nat

\* Max and Min are what their names say, where there are such elements.
LEMMA MaxFacts ==
  ASSUME NEW S, S \subseteq Int, NEW m \in S, \A x \in S : x <= m
  PROVE  Max(S) = m
<1>1. \A x \in S : m >= x
  OBVIOUS
<1>2. Max(S) \in S /\ \A x \in S : Max(S) >= x
  BY <1>1 DEF Max
<1>3. Max(S) <= m /\ m <= Max(S) /\ m \in Int /\ Max(S) \in Int
  BY <1>2
<1> QED BY <1>3

\* The same of the minimum.
LEMMA MinFacts ==
  ASSUME NEW S, S \subseteq Int, NEW m \in S, \A x \in S : m <= x
  PROVE  Min(S) = m
<1>1. Min(S) \in S /\ \A x \in S : Min(S) <= x
  BY DEF Min
<1>2. Min(S) <= m /\ m <= Min(S) /\ m \in Int /\ Min(S) \in Int
  BY <1>1
<1> QED BY <1>2
=============================================================================
