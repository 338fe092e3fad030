------------------------- MODULE BerthingData_proofs -------------------------
(***************************************************************************)
(* Theorems about the drift monitor and the data of a berth, for every set *)
(* of sensors, distances and watchers, any window, and a log of any        *)
(* length: what the monitor keeps of a sensor tells the whole log of its   *)
(* readings.  The sums are told apart by the least number for which they   *)
(* would be wrong.                                                         *)
(***************************************************************************)
EXTENDS BerthingData, SequenceTheorems, FiniteSetTheorems, WellFoundedInduction, TLAPS

-----------------------------------------------------------------------------
(* Sums.                                                                    *)

(* Every nonempty set of natural numbers has a least element.               *)
LEMMA LeastNatural ==
  ASSUME NEW S \in SUBSET Nat, S # {}
  PROVE  \E n \in S : \A m \in S : n <= m
<1>1. PICK n \in S : \A m \in S : ~(<<m, n>> \in OpToRel(<, Nat))
  BY WFMin, NatLessThanWellFounded
<1>2. ASSUME NEW m \in S, ~(n <= m)
      PROVE  FALSE
  <2>1. m < n /\ <<m, n>> \in Nat \X Nat
    BY <1>2
  <2>2. <<m, n>> \in OpToRel(<, Nat)
    BY <2>1 DEF OpToRel
  <2> QED  BY <1>1, <2>2
<1> QED  BY <1>2

(* So a set is known to hold 0 .. n step by step.                           *)
LEMMA StepByStep ==
  ASSUME NEW n \in Nat, NEW S, 0 \in S, \A k \in 1 .. n : k - 1 \in S => k \in S
  PROVE  \A k \in 0 .. n : k \in S
<1> DEFINE Wrong == {k \in 0 .. n : k \notin S}
<1> SUFFICES ASSUME Wrong # {}
             PROVE  FALSE
  OBVIOUS
<1>1. Wrong \in SUBSET Nat
  OBVIOUS
<1>2. PICK m \in Wrong : \A k \in Wrong : m <= k
  BY <1>1, LeastNatural
<1>3. m \in 1 .. n /\ m - 1 \in 0 .. n /\ ~(m <= m - 1)
  OBVIOUS
<1>4. m - 1 \in S
  BY <1>2, <1>3
<1> QED  BY <1>3, <1>4

(* g holds the sums of the first k numbers of f, for k up to n.             *)
Adds(g, f, n) ==
  /\ g \in [0 .. n -> Int] /\ g[0] = 0
  /\ \A k \in 1 .. n : g[k] = g[k - 1] + f[k]

LEMMA SumsExist ==
  ASSUME NEW f \in Seq(Int)
  PROVE  \E g : Adds(g, f, Len(f))
<1> DEFINE n == Len(f)
           Has == {k \in 0 .. n : \E g : Adds(g, f, k)}
<1>t. n \in Nat /\ \A k \in 1 .. n : f[k] \in Int
  BY LenProperties, ElementOfSeq
<1>1. 0 \in Has
  <2>1. Adds([j \in 0 .. 0 |-> 0], f, 0)
    BY DEF Adds
  <2> QED  BY <1>t, <2>1
<1>2. ASSUME NEW k \in 1 .. n, k - 1 \in Has
      PROVE  k \in Has
  <2>1. PICK g : Adds(g, f, k - 1)
    BY <1>2
  <2> DEFINE h == [j \in 0 .. k |-> IF j = k THEN g[k - 1] + f[k] ELSE g[j]]
  <2>2. g \in [0 .. k - 1 -> Int] /\ g[0] = 0 /\ f[k] \in Int /\ k \in Nat /\ k >= 1
    BY <1>t, <2>1 DEF Adds
  <2>3. h \in [0 .. k -> Int] /\ h[0] = 0
    BY <2>2
  <2>4. ASSUME NEW j \in 1 .. k
        PROVE  h[j] = h[j - 1] + f[j]
    <3>1. j - 1 \in 0 .. k - 1 /\ h[j - 1] = g[j - 1]
      BY <2>2
    <3>2. CASE j = k
      BY <3>1, <3>2
    <3>3. CASE j # k
      <4>1. j \in 1 .. k - 1 /\ h[j] = g[j]
        BY <2>2, <3>3
      <4> QED  BY <2>1, <3>1, <4>1 DEF Adds
    <3> QED  BY <3>2, <3>3
  <2>5. Adds(h, f, k)
    BY <2>3, <2>4 DEF Adds
  <2> QED  BY <1>t, <2>5
<1> HIDE DEF Has, n
<1>3. \A k \in 0 .. n : k \in Has
  BY <1>t, <1>1, <1>2, StepByStep
<1> QED  BY <1>t, <1>3 DEF Has, n

LEMMA SumOfAdds ==
  ASSUME NEW f \in Seq(Int)
  PROVE  \E g : Adds(g, f, Len(f)) /\ SumOf(f) = g[Len(f)]
<1> DEFINE n == Len(f)
           Solves(g) == g = [k \in 0 .. n |-> IF k = 0 THEN 0 ELSE g[k - 1] + f[k]]
           sum == CHOOSE g : Solves(g)
<1>t. n \in Nat /\ \A k \in 1 .. n : f[k] \in Int
  BY LenProperties, ElementOfSeq
<1>0. SumOf(f) = sum[n]
  BY DEF SumOf
<1>1. PICK h : Adds(h, f, n)
  BY SumsExist
<1> HIDE DEF n
<1>2. Solves(h)
  <2>1. h = [k \in 0 .. n |-> h[k]]
    BY <1>1 DEF Adds
  <2>2. \A k \in 0 .. n : h[k] = IF k = 0 THEN 0 ELSE h[k - 1] + f[k]
    BY <1>t, <1>1 DEF Adds
  <2> QED  BY <2>1, <2>2
<1>3. Solves(sum)
  BY <1>2
<1> HIDE DEF sum
<1>4. DOMAIN sum = 0 .. n /\ \A k \in 0 .. n : sum[k] = IF k = 0 THEN 0 ELSE sum[k - 1] + f[k]
  BY <1>3
<1>5. \A k \in 0 .. n : sum[k] = h[k]
  <2> DEFINE Same == {k \in 0 .. n : sum[k] = h[k]}
  <2>1. 0 \in Same
    BY <1>t, <1>1, <1>4 DEF Adds
  <2>2. ASSUME NEW k \in 1 .. n, k - 1 \in Same
        PROVE  k \in Same
    <3>1. sum[k] = sum[k - 1] + f[k] /\ h[k] = h[k - 1] + f[k]
      BY <1>t, <1>1, <1>4 DEF Adds
    <3> QED  BY <1>t, <2>2, <3>1
  <2> HIDE DEF Same
  <2>3. \A k \in 0 .. n : k \in Same
    BY <1>t, <2>1, <2>2, StepByStep
  <2> QED  BY <2>3 DEF Same
<1>6. SumOf(f) = h[n]
  BY <1>t, <1>0, <1>5
<1> QED  BY <1>1, <1>6 DEF n

(* A sum does not change when numbers 0 are left out at both ends.          *)
LEMMA SumMoved ==
  ASSUME NEW f \in Seq(Int), NEW g \in Seq(Int), NEW c \in Nat,
         c + Len(g) <= Len(f),
         \A k \in 1 .. c : f[k] = 0,
         \A k \in 1 .. Len(g) : g[k] = f[c + k],
         \A k \in c + Len(g) + 1 .. Len(f) : f[k] = 0
  PROVE  SumOf(f) = SumOf(g)
<1> DEFINE n == Len(f)
           m == Len(g)
<1>t. n \in Nat /\ m \in Nat /\ c + m <= n
  BY LenProperties
<1>1. PICK F : Adds(F, f, n) /\ SumOf(f) = F[n]
  BY SumOfAdds
<1>2. PICK G : Adds(G, g, m) /\ SumOf(g) = G[m]
  BY SumOfAdds
<1>3. /\ \A k \in 1 .. c : f[k] = 0
      /\ \A k \in 1 .. m : g[k] = f[c + k]
      /\ \A k \in c + m + 1 .. n : f[k] = 0
  OBVIOUS
<1> HIDE DEF n, m
<1>f. F[0] = 0 /\ \A k \in 1 .. n : F[k] = F[k - 1] + f[k]
  BY <1>1 DEF Adds
<1>g. G[0] = 0 /\ \A k \in 1 .. m : G[k] = G[k - 1] + g[k]
  BY <1>2 DEF Adds
<1>n. (\A k \in 0 .. n : F[k] \in Int) /\ (\A k \in 0 .. m : G[k] \in Int)
  BY <1>1, <1>2 DEF Adds
<1> DEFINE Low == {k \in 0 .. c : F[k] = 0}
           Mid == {k \in 0 .. m : F[c + k] = G[k]}
           High == {k \in 0 .. n - c - m : F[c + m + k] = G[m]}
<1>4. \A k \in 0 .. c : k \in Low
  <2>1. 0 \in Low
    BY <1>f
  <2>2. ASSUME NEW k \in 1 .. c, k - 1 \in Low
        PROVE  k \in Low
    <3>1. k \in 1 .. n /\ F[k - 1] = 0 /\ f[k] = 0
      BY <1>t, <1>3, <2>2
    <3> QED  BY <1>f, <3>1
  <2> HIDE DEF Low
  <2> QED  BY <2>1, <2>2, StepByStep
<1>5. \A k \in 0 .. m : k \in Mid
  <2>1. 0 \in Mid
    BY <1>t, <1>4, <1>g
  <2>2. ASSUME NEW k \in 1 .. m, k - 1 \in Mid
        PROVE  k \in Mid
    <3>1. c + k \in 1 .. n /\ c + k - 1 = c + (k - 1)
      BY <1>t
    <3>2. F[c + (k - 1)] = G[k - 1] /\ f[c + k] = g[k]
      BY <1>3, <2>2
    <3>3. F[c + k] = F[c + (k - 1)] + f[c + k] /\ G[k] = G[k - 1] + g[k]
      BY <1>f, <1>g, <3>1
    <3> QED  BY <3>2, <3>3
  <2> HIDE DEF Mid
  <2> QED  BY <1>t, <2>1, <2>2, StepByStep
<1>6. \A k \in 0 .. n - c - m : k \in High
  <2>1. 0 \in High
    BY <1>t, <1>5
  <2>2. ASSUME NEW k \in 1 .. n - c - m, k - 1 \in High
        PROVE  k \in High
    <3>1. /\ c + m + k \in 1 .. n /\ c + m + k - 1 = c + m + (k - 1)
          /\ c + m + k \in c + m + 1 .. n
      BY <1>t
    <3>2. F[c + m + (k - 1)] = G[m] /\ f[c + m + k] = 0
      BY <1>3, <2>2, <3>1
    <3>3. F[c + m + k] = F[c + m + (k - 1)] + f[c + m + k]
      <4>1. \A j \in 1 .. n : F[j] = F[j - 1] + f[j]
        BY <1>f
      <4>2. PICK j \in 1 .. n : j = c + m + k /\ j - 1 = c + m + (k - 1)
        BY <1>t, <3>1
      <4> QED  BY <4>1, <4>2
    <3>4. G[m] \in Int
      BY <1>t, <1>n
    <3> QED  BY <3>2, <3>3, <3>4
  <2> HIDE DEF High
  <2>3. n - c - m \in Nat
    BY <1>t
  <2> QED  BY <2>1, <2>2, <2>3, StepByStep
<1>7. n - c - m \in 0 .. n - c - m /\ c + m + (n - c - m) = n
  BY <1>t
<1>8. F[n] = G[m]
  BY <1>6, <1>7
<1> QED  BY <1>1, <1>2, <1>8 DEF n, m

(* The numbers that make the total of the readings in S.                    *)
Terms(readings, S) == [i \in DOMAIN readings |-> IF i \in S THEN readings[i].distance ELSE 0]

LEMMA TermsType ==
  ASSUME NEW h \in Seq(Reading), NEW S
  PROVE  /\ Terms(h, S) \in Seq(Int) /\ Len(Terms(h, S)) = Len(h) /\ Len(h) \in Nat
         /\ DOMAIN h = 1 .. Len(h)
         /\ \A i \in 1 .. Len(h) : h[i] \in Reading
         /\ \A i \in 1 .. Len(h) : Terms(h, S)[i] = IF i \in S THEN h[i].distance ELSE 0
         /\ Total(h, S) = SumOf(Terms(h, S))
<1>1. Len(h) \in Nat /\ DOMAIN h = 1 .. Len(h) /\ \A i \in 1 .. Len(h) : h[i] \in Reading
  BY LenProperties, ElementOfSeq
<1>2. \A i \in 1 .. Len(h) : h[i].distance \in Int
  BY <1>1 DEF Reading
<1>3. /\ \A i \in 1 .. Len(h) : Terms(h, S)[i] = IF i \in S THEN h[i].distance ELSE 0
      /\ Terms(h, S) \in [1 .. Len(h) -> Int]
  BY <1>1, <1>2 DEF Terms
<1>4. Terms(h, S) \in Seq(Int) /\ Len(Terms(h, S)) = Len(h)
  BY <1>1, <1>3, SeqDef, LenProperties
<1> QED  BY <1>1, <1>3, <1>4 DEF Total, Terms

(* The readings k are those of h from the c + 1-st on, and S are those that *)
(* J are there.                                                             *)
Moved(h, J, k, S, c) ==
  /\ c + Len(k) <= Len(h)
  /\ \A i \in 1 .. Len(k) : k[i] = h[c + i] /\ (i \in S <=> c + i \in J)
  /\ J \subseteq c + 1 .. c + Len(k)

LEMMA TotalMoved ==
  ASSUME NEW h \in Seq(Reading), NEW k \in Seq(Reading), NEW c \in Nat, NEW S, NEW J,
         Moved(h, J, k, S, c)
  PROVE  Total(h, J) = Total(k, S)
<1>0. /\ c + Len(k) <= Len(h)
      /\ \A i \in 1 .. Len(k) : k[i] = h[c + i] /\ (i \in S <=> c + i \in J)
      /\ J \subseteq c + 1 .. c + Len(k)
  BY DEF Moved
<1> DEFINE f == Terms(h, J)
           g == Terms(k, S)
<1>1. /\ f \in Seq(Int) /\ Len(f) = Len(h) /\ Len(h) \in Nat
      /\ \A i \in 1 .. Len(h) : f[i] = IF i \in J THEN h[i].distance ELSE 0
      /\ Total(h, J) = SumOf(f)
  BY TermsType
<1>2. /\ g \in Seq(Int) /\ Len(g) = Len(k) /\ Len(k) \in Nat
      /\ \A i \in 1 .. Len(k) : g[i] = IF i \in S THEN k[i].distance ELSE 0
      /\ Total(k, S) = SumOf(g)
  BY TermsType
<1> HIDE DEF f, g
<1>3. ASSUME NEW i \in 1 .. c
      PROVE  f[i] = 0
  <2>1. i \in 1 .. Len(h) /\ i \notin J
    BY <1>0, <1>1, <1>2
  <2> QED  BY <1>1, <2>1
<1>4. \A i \in 1 .. Len(g) : g[i] = f[c + i]
  <2> SUFFICES ASSUME NEW i \in 1 .. Len(k)
               PROVE  g[i] = f[c + i]
    BY <1>2
  <2>1. c + i \in 1 .. Len(h) /\ k[i] = h[c + i] /\ (i \in S <=> c + i \in J)
    BY <1>0, <1>1, <1>2
  <2> QED  BY <1>1, <1>2, <2>1
<1>5. \A i \in c + Len(g) + 1 .. Len(f) : f[i] = 0
  BY <1>0, <1>1, <1>2
<1> QED  BY <1>0, <1>1, <1>2, <1>3, <1>4, <1>5, SumMoved

LEMMA OneFurther ==
  ASSUME NEW x \in Int, NEW e \in Nat, NEW d \in Nat, NEW p \in Int, NEW c \in Nat,
         e - d \in -5 .. 5, x - p <= 5 * c, p - x <= 5 * c
  PROVE  (x + e) - (p + d) <= 5 * (c + 1) /\ (p + d) - (x + e) <= 5 * (c + 1)
OBVIOUS

(* A total is a natural number, and if no distance is further from d than   *)
(* five, neither is their average.                                          *)
LEMMA TotalBounds ==
  ASSUME NEW h \in Seq(Reading), NEW S \in SUBSET (1 .. Len(h))
  PROVE  /\ Total(h, S) \in Nat /\ Cardinality(S) \in Nat
         /\ \A d \in Nat : (\A i \in S : h[i].distance - d \in -5 .. 5) =>
              /\ Total(h, S) - Cardinality(S) * d <= 5 * Cardinality(S)
              /\ Cardinality(S) * d - Total(h, S) <= 5 * Cardinality(S)
<1> DEFINE f == Terms(h, S)
           n == Len(h)
           Up(k) == S \cap 1 .. k
           Card(k) == Cardinality(Up(k))
<1>1. /\ f \in Seq(Int) /\ Len(f) = n /\ n \in Nat
      /\ \A i \in 1 .. n : f[i] = IF i \in S THEN h[i].distance ELSE 0
      /\ \A i \in 1 .. n : h[i].distance \in Nat
      /\ Total(h, S) = SumOf(f)
  BY TermsType DEF Reading
<1>2. PICK F : Adds(F, f, n) /\ SumOf(f) = F[n]
  BY <1>1, SumOfAdds
<1>s. S \in SUBSET (1 .. n)
  OBVIOUS
<1> HIDE DEF f, n
<1>f. /\ F[0] = 0 /\ \A k \in 1 .. n : F[k] = F[k - 1] + f[k]
      /\ \A k \in 0 .. n : F[k] \in Int
  BY <1>2 DEF Adds
<1>c. /\ Card(0) = 0 /\ S = Up(n) /\ \A k \in 0 .. n : Card(k) \in Nat
      /\ \A k \in 1 .. n : Card(k) = IF k \in S THEN Card(k - 1) + 1 ELSE Card(k - 1)
  <2>1. Up(0) = {} /\ S = Up(n)
    <3>1. \A i \in 1 .. 0 : FALSE
      OBVIOUS
    <3>2. \A i \in S : i \in 1 .. n
      BY <1>s
    <3> QED  BY <3>1, <3>2
  <2>2. ASSUME NEW k \in 0 .. n
        PROVE  IsFiniteSet(Up(k)) /\ Card(k) \in Nat
    <3>1. IsFiniteSet(1 .. k) /\ Up(k) \subseteq 1 .. k
      BY FS_Interval
    <3> QED  BY <3>1, FS_Subset, FS_CardinalityType
  <2>3. ASSUME NEW k \in 1 .. n
        PROVE  Card(k) = IF k \in S THEN Card(k - 1) + 1 ELSE Card(k - 1)
    <3>1. k - 1 \in 0 .. n /\ k \notin Up(k - 1)
      BY <1>1
    <3>2. Up(k) = IF k \in S THEN Up(k - 1) \cup {k} ELSE Up(k - 1)
      BY <1>1
    <3> QED  BY <2>2, <3>1, <3>2, FS_AddElement
  <2> QED  BY <2>1, <2>2, <2>3, FS_EmptySet
<1>d. Cardinality(S) = Card(n)
  BY <1>c
<1> HIDE DEF Card, Up
<1>3. F[n] \in Nat
  <2> DEFINE Fine == {k \in 0 .. n : F[k] \in Nat}
  <2>1. 0 \in Fine
    BY <1>1, <1>f
  <2>2. ASSUME NEW k \in 1 .. n, k - 1 \in Fine
        PROVE  k \in Fine
    <3>1. F[k - 1] \in Nat
      BY <2>2
    <3>2. f[k] \in Nat
      BY <1>1
    <3>3. F[k] = F[k - 1] + f[k]
      BY <1>f
    <3> QED  BY <3>1, <3>2, <3>3
  <2> HIDE DEF Fine
  <2>3. \A k \in 0 .. n : k \in Fine
    BY <1>1, <2>1, <2>2, StepByStep
  <2> QED  BY <1>1, <2>3 DEF Fine
<1>4. ASSUME NEW d \in Nat, \A i \in S : h[i].distance - d \in -5 .. 5
      PROVE  F[n] - Card(n) * d <= 5 * Card(n) /\ Card(n) * d - F[n] <= 5 * Card(n)
  <2> DEFINE Fine == {k \in 0 .. n : F[k] - Card(k) * d <= 5 * Card(k) /\ Card(k) * d - F[k] <= 5 * Card(k)}
  <2>1. 0 \in Fine
    BY <1>1, <1>f, <1>c
  <2>2. ASSUME NEW k \in 1 .. n, k - 1 \in Fine
        PROVE  k \in Fine
    <3>1. k - 1 \in 0 .. n /\ F[k] = F[k - 1] + f[k] /\ F[k - 1] \in Int /\ Card(k - 1) \in Nat
      BY <1>1, <1>f, <1>c
    <3>2. F[k - 1] - Card(k - 1) * d <= 5 * Card(k - 1) /\ Card(k - 1) * d - F[k - 1] <= 5 * Card(k - 1)
      BY <2>2
    <3>3. CASE k \in S
      <4>1. f[k] = h[k].distance /\ h[k].distance \in Nat /\ h[k].distance - d \in -5 .. 5
        BY <1>1, <1>4, <3>3
      <4>2. Card(k) = Card(k - 1) + 1
        BY <1>c, <3>3
      <4>3. Card(k) * d = Card(k - 1) * d + d /\ Card(k - 1) * d \in Int
        BY <3>1, <4>2
      <4> DEFINE p == Card(k - 1) * d
                 q == Card(k) * d
      <4> HIDE DEF p, q
      <4>4. q = p + d /\ p \in Int
        BY <4>3 DEF p, q
      <4>5. F[k - 1] - p <= 5 * Card(k - 1) /\ p - F[k - 1] <= 5 * Card(k - 1)
        BY <3>2 DEF p
      <4>6. F[k] - q <= 5 * Card(k) /\ q - F[k] <= 5 * Card(k)
        BY <3>1, <4>1, <4>2, <4>4, <4>5, OneFurther
      <4> QED  BY <4>6 DEF q
    <3>4. CASE k \notin S
      <4>1. f[k] = 0 /\ Card(k) = Card(k - 1)
        BY <1>1, <1>c, <3>4
      <4>2. F[k] = F[k - 1]
        BY <3>1, <4>1
      <4> QED  BY <3>2, <4>1, <4>2
    <3> QED  BY <3>3, <3>4
  <2> HIDE DEF Fine
  <2>3. \A k \in 0 .. n : k \in Fine
    BY <1>1, <2>1, <2>2, StepByStep
  <2> QED  BY <1>1, <2>3 DEF Fine
<1>5. Card(n) \in Nat
  BY <1>1, <1>c
<1> QED  BY <1>1, <1>2, <1>3, <1>4, <1>5, <1>d

-----------------------------------------------------------------------------
(* The inductive invariant: what one monitor keeps against a log l of all   *)
(* its readings.                                                            *)

(* The readings that the window is to hold with reading i, and those of     *)
(* them that are averaged.                                                  *)
WithinOf(l, i) == {j \in 1 .. i : i - j < HistorySeconds /\ l[j].time >= l[i].time - HistorySeconds}
JudgedOf(l, i) == {j \in WithinOf(l, i) : l[j].time >= l[i].time - AverageSeconds}

Away(l, i, percent) ==
  LET n == Cardinality(JudgedOf(l, i))
      sum == Total(l, JudgedOf(l, i))
      away == n * l[i].distance - sum
  IN n >= 3 /\ 100 * away \notin (-percent * sum) .. (percent * sum) /\ away \notin (-5 * n) .. (5 * n)

AwayReadings(l, percent) == {i \in DOMAIN l : Away(l, i, percent)}

(* The k last members of I.                                                 *)
LastOf(I, k) == {i \in I : Cardinality({j \in I : j > i}) < k}

(* There are k irregular readings at least, and each of the last k follows  *)
(* the one before it within two seconds.                                    *)
Chained(l, k) ==
  LET F == LastOf(AwayReadings(l, 10), k)
  IN /\ Cardinality(F) = k
     /\ \A i \in F : (\E j \in F : j < i) => \E j \in F : j < i /\ l[i].time - l[j].time <= 2

IsWindow(h, l) ==
  \E a \in 1 .. Len(l) + 1 :
    /\ h = SubSeq(l, a, Len(l))
    /\ Len(l) > 0 => a <= Len(l) /\ WithinOf(l, Len(l)) = a .. Len(l)

Mirrors(m, l) ==
  /\ IsWindow(m.history, l)
  /\ \A i \in AwayReadings(l, 10) : (\A j \in AwayReadings(l, 10) : j <= i) => m.last = l[i].time
  /\ \A k \in 1 .. m.irregular : m.irregular > 2 * (k - 1) => Chained(l, k)
  /\ m.extreme = Cardinality(AwayReadings(l, 50))
  /\ m.level = 3 <=> m.extreme >= 3
  /\ m.level = 2 => m.irregular >= 10
  /\ m.level = 1 => Len(l) > 0 /\ Away(l, Len(l), 10)

Rising(l) == \A i, j \in DOMAIN l : i <= j => l[i].time <= l[j].time

(* What is read of a sensor next is not older than what was read before.    *)
Latest(s) == IF s \in Lidars THEN table[s] ELSE LaserData(s)
TimesRise ==
  /\ \A s \in Sensors :
       /\ Rising(log[s]) /\ table[s].time <= now
       /\ \A i \in DOMAIN log[s] :
            /\ log[s][i].time <= now
            /\ Latest(s).distance > 0 => log[s][i].time <= Latest(s).time
  /\ \A s \in Lasers : packet[s].time <= now

(* No alarm is shown that no log explains.                                  *)
ShownEarned ==
  \A w \in Watchers : shown[w] = 3 => \E s \in Sensors : Cardinality(AwayReadings(log[s], 50)) >= 3

DataInv == TypeOK /\ TimesRise /\ ShownEarned /\ \A s \in Sensors : Mirrors(monitor[s], log[s])

-----------------------------------------------------------------------------
(* The window.                                                              *)

LEMMA TailOf ==
  ASSUME NEW S, NEW l \in Seq(S), NEW a \in 1 .. Len(l) + 1
  PROVE  /\ SubSeq(l, a, Len(l)) \in Seq(S) /\ Len(SubSeq(l, a, Len(l))) = Len(l) - a + 1
         /\ \A i \in 1 .. Len(l) - a + 1 : SubSeq(l, a, Len(l))[i] = l[a + i - 1]
<1>1. Len(l) \in Nat /\ \A i \in 1 .. Len(l) : l[i] \in S
  BY LenProperties, ElementOfSeq
<1>2. \A i \in a .. Len(l) : l[i] \in S
  BY <1>1
<1>3. a \in Int /\ Len(l) \in Int
  BY <1>1
<1>4. /\ SubSeq(l, a, Len(l)) \in Seq(S)
      /\ Len(SubSeq(l, a, Len(l))) = IF a <= Len(l) THEN Len(l) - a + 1 ELSE 0
      /\ \A i \in 1 .. Len(l) - a + 1 : SubSeq(l, a, Len(l))[i] = l[a + i - 1]
  BY <1>2, <1>3, SubSeqProperties
<1> QED  BY <1>1, <1>4

LEMMA Greatest ==
  ASSUME NEW x \in Int
  PROVE  Max({0, x}) = IF x > 0 THEN x ELSE 0
<1> DEFINE m == IF x > 0 THEN x ELSE 0
           Tops(y) == y \in {0, x} /\ \A z \in {0, x} : y >= z
<1>1. Tops(m)
  OBVIOUS
<1>2. \A y : Tops(y) => y = m
  OBVIOUS
<1> HIDE DEF Tops, m
<1>3. (CHOOSE y : Tops(y)) = m
  BY <1>1, <1>2
<1>4. Max({0, x}) = CHOOSE y : Tops(y)
  BY DEF Max, Tops
<1> QED  BY <1>3, <1>4 DEF m

LEMMA Smallest ==
  ASSUME NEW S \in SUBSET Nat, S # {}
  PROVE  Min(S) \in S /\ \A m \in S : Min(S) <= m
BY LeastNatural DEF Min

LEMMA Appended ==
  ASSUME NEW l \in Seq(Reading), NEW r \in Reading
  PROVE  /\ Append(l, r) \in Seq(Reading) /\ Len(Append(l, r)) = Len(l) + 1 /\ Len(l) \in Nat
         /\ DOMAIN l = 1 .. Len(l) /\ DOMAIN Append(l, r) = 1 .. Len(l) + 1
         /\ \A i \in 1 .. Len(l) : Append(l, r)[i] = l[i] /\ l[i] \in Reading
         /\ Append(l, r)[Len(l) + 1] = r
         /\ \A i \in 1 .. Len(l) : l[i].time \in Nat /\ l[i].distance \in Nat
         /\ r.time \in Nat /\ r.distance \in Nat
<1>1. /\ Append(l, r) \in Seq(Reading) /\ Len(Append(l, r)) = Len(l) + 1
      /\ \A i \in 1 .. Len(l) : Append(l, r)[i] = l[i]
      /\ Append(l, r)[Len(l) + 1] = r
  BY AppendProperties
<1>2. /\ Len(l) \in Nat /\ DOMAIN l = 1 .. Len(l)
      /\ DOMAIN Append(l, r) = 1 .. Len(Append(l, r))
  BY <1>1, LenProperties
<1>3. \A i \in 1 .. Len(l) : l[i] \in Reading
  BY ElementOfSeq
<1>4. \A q \in Reading : q.time \in Nat /\ q.distance \in Nat
  BY DEF Reading
<1>5. DOMAIN Append(l, r) = 1 .. Len(l) + 1
  BY <1>1, <1>2
<1> QED  BY <1>1, <1>2, <1>3, <1>4, <1>5

LEMMA RisingAppend ==
  ASSUME NEW l \in Seq(Reading), NEW r \in Reading,
         Rising(l), \A i \in DOMAIN l : l[i].time <= r.time
  PROVE  Rising(Append(l, r))
<1> DEFINE n == Len(l)
           k == Append(l, r)
<1>l. /\ n \in Nat /\ DOMAIN l = 1 .. n /\ DOMAIN k = 1 .. n + 1
      /\ (\A i \in 1 .. n : k[i] = l[i]) /\ k[n + 1] = r
      /\ r.time \in Nat
  BY Appended
<1> HIDE DEF n, k
<1> SUFFICES ASSUME NEW i \in 1 .. n + 1, NEW j \in 1 .. n + 1, i <= j
             PROVE  k[i].time <= k[j].time
  BY <1>l DEF Rising, k
<1>1. CASE j = n + 1 /\ i # n + 1
  <2>1. i \in 1 .. n /\ k[i].time <= r.time
    BY <1>l, <1>1
  <2> QED  BY <1>l, <1>1, <2>1
<1>2. CASE j = n + 1 /\ i = n + 1
  BY <1>l, <1>2
<1>3. CASE j # n + 1
  <2>1. i \in 1 .. n /\ j \in 1 .. n
    BY <1>l, <1>3
  <2> QED  BY <1>l, <2>1 DEF Rising
<1> QED  BY <1>1, <1>2, <1>3

LEMMA WindowGrows ==
  ASSUME NEW l \in Seq(Reading), NEW r \in Reading, NEW h,
         Rising(l), \A i \in DOMAIN l : l[i].time <= r.time, IsWindow(h, l)
  PROVE  IsWindow(AddReading(h, r), Append(l, r)) /\ AddReading(h, r) \in Seq(Reading)
<1> DEFINE n == Len(l)
           k == Append(l, r)
           all == Append(h, r)
           start == 1 + Max({0, Len(all) - HistorySeconds})
           kept == SubSeq(all, start, Len(all))
           young == {i \in DOMAIN kept : kept[i].time >= r.time - HistorySeconds}
           H == HistorySeconds
<1>t. H \in Nat /\ H >= 1
  BY DriftMonitorAssumption
<1>l. /\ k \in Seq(Reading) /\ Len(k) = n + 1 /\ n \in Nat /\ DOMAIN l = 1 .. n
      /\ (\A i \in 1 .. n : k[i] = l[i]) /\ k[n + 1] = r
      /\ \A i \in 1 .. n + 1 : k[i].time \in Nat
      /\ r.time \in Nat
  BY Appended
<1>r. \A i, j \in 1 .. n + 1 : i <= j => k[i].time <= k[j].time
  BY <1>l, RisingAppend, Appended DEF Rising
<1>1. PICK a \in 1 .. n + 1 : /\ h = SubSeq(l, a, n)
                              /\ n > 0 => a <= n /\ WithinOf(l, n) = a .. n
  BY DEF IsWindow
<1>o. \A j \in 1 .. n + 1 : j < a => n + 1 - j >= H \/ k[j].time < r.time - H
  <2> SUFFICES ASSUME NEW j \in 1 .. n + 1, j < a
               PROVE  n + 1 - j >= H \/ k[j].time < r.time - H
    OBVIOUS
  <2>1. j \in 1 .. n /\ n > 0 /\ n \in 1 .. n
    BY <1>l
  <2>2. j \notin WithinOf(l, n)
    BY <1>1, <2>1
  <2>3. n - j >= H \/ l[j].time < l[n].time - H
    BY <1>l, <1>t, <2>1, <2>2 DEF WithinOf
  <2>4. k[j] = l[j] /\ k[n] = l[n] /\ l[n].time <= r.time /\ l[j].time \in Nat /\ l[n].time \in Nat
    BY <1>l, <2>1
  <2> QED  BY <1>l, <1>t, <2>1, <2>3, <2>4
<1> HIDE DEF n, k
<1>2. /\ h \in Seq(Reading) /\ Len(h) = n - a + 1
      /\ \A i \in 1 .. n - a + 1 : h[i] = l[a + i - 1]
  BY <1>1, TailOf DEF n
<1>3. /\ all \in Seq(Reading) /\ Len(all) = n - a + 2
      /\ \A i \in 1 .. n - a + 2 : all[i] = k[a + i - 1]
  <2>1. /\ all \in Seq(Reading) /\ Len(all) = Len(h) + 1 /\ all[Len(h) + 1] = r
        /\ \A i \in 1 .. Len(h) : all[i] = h[i]
    BY <1>2, AppendProperties
  <2>2. n - a + 1 \in Nat /\ n - a + 1 + 1 = n - a + 2
    BY <1>l
  <2>3. ASSUME NEW i \in 1 .. n - a + 2
        PROVE  all[i] = k[a + i - 1]
    <3>1. CASE i = n - a + 2
      <4>1. a + i - 1 = n + 1
        BY <1>l, <3>1
      <4> QED  BY <1>l, <1>2, <2>1, <2>2, <3>1, <4>1
    <3>2. CASE i # n - a + 2
      <4>1. i \in 1 .. n - a + 1 /\ a + i - 1 \in 1 .. n
        BY <1>l, <3>2
      <4> QED  BY <1>l, <1>2, <2>1, <4>1
    <3> QED  BY <3>1, <3>2
  <2> QED  BY <1>2, <2>1, <2>2, <2>3
<1> HIDE DEF all
<1>4. /\ start \in 1 .. Len(all) /\ Len(all) - start + 1 <= H
      /\ start > 1 => Len(all) - start + 1 = H
  <2>1. Len(all) - H \in Int /\ Len(all) >= 1 /\ Len(all) \in Nat
    BY <1>t, <1>l, <1>3
  <2>2. start = 1 + IF Len(all) - H > 0 THEN Len(all) - H ELSE 0
    BY <2>1, Greatest
  <2> HIDE DEF start
  <2> QED  BY <1>t, <2>1, <2>2
<1> HIDE DEF start
<1> DEFINE c == a + start - 2
<1>5. /\ kept \in Seq(Reading) /\ Len(kept) = n + 1 - c /\ c \in 0 .. n
      /\ DOMAIN kept = 1 .. n + 1 - c
      /\ \A i \in 1 .. n + 1 - c : kept[i] = k[c + i]
  <2>1. start \in 1 .. Len(all) + 1
    BY <1>l, <1>3, <1>4
  <2>2. /\ kept \in Seq(Reading) /\ Len(kept) = Len(all) - start + 1
        /\ \A i \in 1 .. Len(all) - start + 1 : kept[i] = all[start + i - 1]
    BY <2>1, <1>3, TailOf
  <2>3. Len(all) - start + 1 = n + 1 - c /\ c \in 0 .. n
    BY <1>l, <1>3, <1>4
  <2> HIDE DEF kept
  <2>4. ASSUME NEW i \in 1 .. n + 1 - c
        PROVE  kept[i] = k[c + i]
    <3>1. start + i - 1 \in 1 .. n - a + 2 /\ a + (start + i - 1) - 1 = c + i
      BY <1>l, <1>3, <1>4
    <3> QED  BY <1>3, <2>2, <2>3, <3>1
  <2>5. DOMAIN kept = 1 .. Len(kept)
    BY <2>2, LenProperties
  <2> QED  BY <2>2, <2>3, <2>4, <2>5
<1>6. \A j \in 1 .. n + 1 : j <= c => n + 1 - j >= H \/ k[j].time < r.time - H
  <2> SUFFICES ASSUME NEW j \in 1 .. n + 1, j <= c, ~(j < a)
               PROVE  n + 1 - j >= H
    BY <1>o
  <2>1. start > 1
    BY <1>l, <1>4
  <2>2. Len(all) - start + 1 = H /\ Len(all) - start + 1 = n + 1 - c
    BY <1>4, <2>1, <1>3, <1>l
  <2> QED  BY <1>l, <1>5, <2>2
<1>7. n + 1 - c <= H
  BY <1>3, <1>4, <1>l
<1> HIDE DEF c, kept
<1>8. young \in SUBSET Nat /\ n + 1 - c \in young
  <2>1. n + 1 - c \in 1 .. n + 1 - c /\ c + (n + 1 - c) = n + 1
    BY <1>l, <1>5
  <2>2. kept[n + 1 - c] = r
    BY <1>l, <1>5, <2>1
  <2> QED  BY <1>l, <1>t, <1>5, <2>1, <2>2
<1> DEFINE y == Min(young)
           b == c + y
<1>9. y \in young /\ \A i \in young : y <= i
  BY <1>8, Smallest
<1>10. y \in 1 .. n + 1 - c /\ kept[y].time >= r.time - H
       /\ \A i \in 1 .. n + 1 - c : i < y => kept[i].time < r.time - H
  <2>1. y \in 1 .. n + 1 - c /\ kept[y].time >= r.time - H
    BY <1>5, <1>9
  <2>2. ASSUME NEW i \in 1 .. n + 1 - c, i < y
        PROVE  kept[i].time < r.time - H
    <3>1. i \notin young
      <4> HIDE DEF young
      <4> QED  BY <1>5, <1>9, <2>1, <2>2
    <3>2. ~(kept[i].time >= r.time - H)
      BY <1>5, <3>1
    <3>3. kept[i].time \in Nat
      <4>1. c + i \in 1 .. n + 1
        BY <1>l, <1>5
      <4> QED  BY <1>l, <1>5, <4>1
    <3> QED  BY <1>l, <1>t, <3>2, <3>3
  <2> QED  BY <2>1, <2>2
<1>11. AddReading(h, r) = SubSeq(kept, y, Len(kept))
  BY DEF AddReading, all, start, kept, young
<1> HIDE DEF y, young
<1>12. b \in 1 .. n + 1 /\ y \in 1 .. Len(kept) + 1
  BY <1>l, <1>5, <1>10
<1>13. /\ SubSeq(kept, y, Len(kept)) \in Seq(Reading)
       /\ Len(SubSeq(kept, y, Len(kept))) = n + 2 - b
       /\ \A i \in 1 .. n + 2 - b : SubSeq(kept, y, Len(kept))[i] = k[b + i - 1]
  <2>1. /\ SubSeq(kept, y, Len(kept)) \in Seq(Reading)
        /\ Len(SubSeq(kept, y, Len(kept))) = Len(kept) - y + 1
        /\ \A i \in 1 .. Len(kept) - y + 1 : SubSeq(kept, y, Len(kept))[i] = kept[y + i - 1]
    BY <1>5, <1>12, TailOf
  <2>2. Len(kept) - y + 1 = n + 2 - b
    BY <1>l, <1>5, <1>10
  <2>3. ASSUME NEW i \in 1 .. n + 2 - b
        PROVE  kept[y + i - 1] = k[b + i - 1]
    <3>1. y + i - 1 \in 1 .. n + 1 - c /\ c + (y + i - 1) = b + i - 1
      BY <1>l, <1>5, <1>10
    <3> QED  BY <1>5, <3>1
  <2> QED  BY <2>1, <2>2, <2>3
<1>14. AddReading(h, r) = SubSeq(k, b, n + 1)
  <2>1. b \in 1 .. Len(k) + 1 /\ Len(k) - b + 1 = n + 2 - b
    BY <1>l, <1>12
  <2>2. /\ SubSeq(k, b, n + 1) \in Seq(Reading) /\ Len(SubSeq(k, b, n + 1)) = n + 2 - b
        /\ \A i \in 1 .. n + 2 - b : SubSeq(k, b, n + 1)[i] = k[b + i - 1]
    BY <1>l, <2>1, TailOf
  <2> DEFINE t == SubSeq(kept, y, Len(kept))
             u == SubSeq(k, b, n + 1)
  <2>3. t \in Seq(Reading) /\ u \in Seq(Reading) /\ Len(t) = n + 2 - b /\ Len(u) = n + 2 - b
    BY <1>13, <2>2
  <2>4. \A i \in 1 .. n + 2 - b : t[i] = u[i]
    BY <1>13, <2>2
  <2>5. AddReading(h, r) = t
    BY <1>11
  <2> HIDE DEF t, u
  <2>6. t = u
    <3>1. Len(t) = Len(u) /\ \A i \in 1 .. Len(t) : t[i] = u[i]
      BY <2>3, <2>4
    <3> QED  BY <2>3, <3>1, SeqEqual
  <2> QED  BY <2>5, <2>6 DEF u
<1>15. WithinOf(k, n + 1) = b .. n + 1
  <2>1. ASSUME NEW j \in 1 .. n + 1
        PROVE  n + 1 - j < H /\ k[j].time >= r.time - H <=> j >= b
    <3>1. CASE j <= c
      <4>1. ~(j >= b)
        BY <1>l, <1>5, <1>10, <3>1
      <4> QED  BY <1>6, <1>l, <1>t, <3>1, <4>1
    <3>2. CASE j > c
      <4>1. j - c \in 1 .. n + 1 - c /\ c + (j - c) = j /\ n + 1 - j < H
        BY <1>l, <1>5, <1>7, <1>t, <3>2
      <4>2. kept[j - c] = k[j]
        BY <1>5, <4>1
      <4>3. CASE j < b
        <5>1. j - c < y
          BY <1>l, <1>5, <1>10, <4>3
        <5>2. k[j].time < r.time - H
          BY <1>10, <4>1, <4>2, <5>1
        <5> QED  BY <1>l, <1>t, <1>12, <4>3, <5>2
      <4>4. CASE j >= b
        <5>1. c + y = b /\ kept[y] = k[b] /\ b \in 1 .. n + 1 /\ b <= j
          BY <1>5, <1>10, <1>12, <4>4
        <5>2. k[b].time <= k[j].time /\ k[b].time >= r.time - H
          BY <1>r, <1>10, <5>1
        <5> QED  BY <1>l, <1>t, <4>1, <4>4, <5>1, <5>2
      <4> QED  BY <1>l, <1>12, <4>3, <4>4
    <3> QED  BY <1>l, <1>5, <3>1, <3>2
  <2> HIDE DEF b
  <2>2. \A j : j \in b .. n + 1 <=> j \in 1 .. n + 1 /\ j >= b
    BY <1>l, <1>12
  <2>3. \A j : j \in WithinOf(k, n + 1) <=> j \in 1 .. n + 1 /\ n + 1 - j < H /\ k[j].time >= r.time - H
    BY <1>l DEF WithinOf
  <2> QED  BY <2>1, <2>2, <2>3
<1>16. IsWindow(AddReading(h, r), k)
  <2>1. b <= n + 1 /\ Len(k) = n + 1 /\ b \in 1 .. Len(k) + 1
    BY <1>l, <1>12
  <2> QED  BY <1>14, <1>15, <2>1 DEF IsWindow
<1> QED  BY <1>11, <1>13, <1>16 DEF k

-----------------------------------------------------------------------------
(* A reading against the average: what the monitor says of its window is    *)
(* what the log says.                                                       *)

LEMMA JudgedType ==
  ASSUME NEW l, NEW i \in Nat
  PROVE  /\ WithinOf(l, i) \subseteq 1 .. i /\ JudgedOf(l, i) \subseteq 1 .. i
         /\ IsFiniteSet(JudgedOf(l, i)) /\ Cardinality(JudgedOf(l, i)) \in Nat
<1>1. WithinOf(l, i) \subseteq 1 .. i /\ JudgedOf(l, i) \subseteq 1 .. i
  BY DEF WithinOf, JudgedOf
<1>2. IsFiniteSet(1 .. i)
  BY FS_Interval
<1> QED  BY <1>1, <1>2, FS_Subset, FS_CardinalityType

(* The readings before the last one are judged as they were.                *)
LEMMA AwayAppend ==
  ASSUME NEW l \in Seq(Reading), NEW r \in Reading, NEW p
  PROVE  AwayReadings(Append(l, r), p) =
           AwayReadings(l, p) \cup (IF Away(Append(l, r), Len(l) + 1, p) THEN {Len(l) + 1} ELSE {})
<1> DEFINE n == Len(l)
           k == Append(l, r)
<1>1. /\ k \in Seq(Reading) /\ Len(k) = n + 1 /\ n \in Nat
      /\ DOMAIN l = 1 .. n /\ DOMAIN k = 1 .. n + 1
      /\ \A i \in 1 .. n : k[i] = l[i]
  BY Appended
<1>2. ASSUME NEW i \in 1 .. n
      PROVE  JudgedOf(k, i) = JudgedOf(l, i) /\ JudgedOf(l, i) \subseteq 1 .. n
  <2>1. \A j \in 1 .. i : k[j] = l[j]
    BY <1>1
  <2>2. WithinOf(k, i) = WithinOf(l, i) /\ WithinOf(l, i) \subseteq 1 .. i
    BY <2>1 DEF WithinOf
  <2>3. JudgedOf(k, i) = JudgedOf(l, i) /\ JudgedOf(l, i) \subseteq 1 .. i
    BY <2>1, <2>2 DEF JudgedOf
  <2>4. 1 .. i \subseteq 1 .. n
    BY <1>1
  <2> QED  BY <2>3, <2>4
<1>3. ASSUME NEW i \in 1 .. n
      PROVE  Away(k, i, p) <=> Away(l, i, p)
  <2> DEFINE J == JudgedOf(l, i)
  <2>1. J \subseteq 1 .. n /\ JudgedOf(k, i) = J /\ k[i] = l[i]
    BY <1>1, <1>2
  <2> DEFINE c == 0
  <2>2. c \in Nat /\ c + Len(l) <= Len(k)
    BY <1>1
  <2>3. \A j \in 1 .. Len(l) : l[j] = k[c + j] /\ (j \in J <=> c + j \in J)
    BY <1>1, <2>1
  <2>4. J \subseteq c + 1 .. c + Len(l)
    BY <1>1, <2>1
  <2>5. k \in Seq(Reading)
    BY <1>1
  <2> HIDE DEF J, k, n, c
  <2>6. Total(k, J) = Total(l, J)
    <3>1. Moved(k, J, l, J, c)
      BY <2>2, <2>3, <2>4 DEF Moved
    <3> QED  BY <2>2, <2>5, <3>1, TotalMoved
  <2> QED  BY <2>1, <2>6 DEF Away, J
<1> HIDE DEF k, n
<1>4. ASSUME NEW i
      PROVE  i \in AwayReadings(k, p) <=> i \in AwayReadings(l, p) \/ (i = n + 1 /\ Away(k, n + 1, p))
  <2>1. i \in 1 .. n + 1 <=> i \in 1 .. n \/ i = n + 1
    BY <1>1
  <2>2. i \in 1 .. n => i # n + 1
    BY <1>1
  <2> QED  BY <1>1, <1>3, <2>1, <2>2 DEF AwayReadings
<1> QED  BY <1>4 DEF k, n

(* The monitor's arithmetic, for c readings of the sum t and the product x  *)
(* of c and the distance that is judged.                                    *)
LEMMA Judgement ==
  ASSUME NEW c \in Nat, NEW t \in Nat, NEW x \in Int, NEW d \in Int,
         d = IF x >= t THEN x - t ELSE t - x
  PROVE  /\ 10 * d > 50 * c /\ 10 * d > t <=>
              100 * (x - t) \notin (-10 * t) .. (10 * t) /\ x - t \notin (-5 * c) .. (5 * c)
         /\ (10 * d > 50 * c /\ 10 * d > t) /\ 2 * d > t <=>
              100 * (x - t) \notin (-50 * t) .. (50 * t) /\ x - t \notin (-5 * c) .. (5 * c)
OBVIOUS

LEMMA JudgeAgrees ==
  ASSUME NEW l \in Seq(Reading), Len(l) > 0, NEW h, IsWindow(h, l)
  PROVE  /\ Irregular(h, l[Len(l)]) <=> Away(l, Len(l), 10)
         /\ Irregular(h, l[Len(l)]) /\ Extreme(h, l[Len(l)]) <=> Away(l, Len(l), 50)
<1> DEFINE n == Len(l)
           r == l[n]
           S == Averaged(h, r.time)
           J == JudgedOf(l, n)
<1>1. n \in Nat /\ n > 0 /\ (\A i \in 1 .. n : l[i] \in Reading) /\ r \in Reading
  BY LenProperties, ElementOfSeq
<1>2. PICK a \in 1 .. n + 1 : h = SubSeq(l, a, n) /\ a <= n /\ WithinOf(l, n) = a .. n
  BY DEF IsWindow
<1>3. /\ h \in Seq(Reading) /\ Len(h) = n - a + 1
      /\ \A i \in 1 .. n - a + 1 : h[i] = l[a + i - 1]
  BY <1>2, TailOf
<1>4. DOMAIN h = 1 .. n - a + 1
  BY <1>3, LenProperties
<1>5. r.distance \in Nat
  BY <1>1 DEF Reading
<1>j. J \subseteq 1 .. n /\ IsFiniteSet(J) /\ Cardinality(J) \in Nat
  BY <1>1, JudgedType
<1> HIDE DEF n
<1>6. S = {i \in 1 .. n - a + 1 : h[i].time >= r.time - AverageSeconds}
  BY <1>4 DEF Averaged
<1>7. J = {j \in a .. n : l[j].time >= r.time - AverageSeconds}
  BY <1>2 DEF JudgedOf
<1> HIDE DEF S, J, r
<1>8. \A i \in 1 .. n - a + 1 : i \in S <=> a + i - 1 \in J
  <2> SUFFICES ASSUME NEW i \in 1 .. n - a + 1
               PROVE  i \in S <=> a + i - 1 \in J
    OBVIOUS
  <2>1. a + i - 1 \in a .. n /\ h[i] = l[a + i - 1]
    BY <1>1, <1>3
  <2> QED  BY <1>6, <1>7, <2>1
<1>9. S \subseteq 1 .. n - a + 1 /\ J \subseteq a .. n
  BY <1>6, <1>7
<1>10. Cardinality(S) = Cardinality(J)
  <2> DEFINE f == [j \in J |-> j - a + 1]
  <2>1. \A j \in J : j \in Int /\ j - a + 1 \in 1 .. n - a + 1 /\ a + (j - a + 1) - 1 = j
    BY <1>1, <1>9
  <2>2. f \in [J -> S]
    BY <1>8, <2>1
  <2>3. \A i, j \in J : f[i] = f[j] => i = j
    BY <1>1, <2>1
  <2>4. \A s \in S : \E j \in J : f[j] = s
    <3> SUFFICES ASSUME NEW s \in S
                 PROVE  \E j \in J : f[j] = s
      OBVIOUS
    <3>1. s \in 1 .. n - a + 1 /\ a + s - 1 \in J
      BY <1>8, <1>9
    <3>2. f[a + s - 1] = a + s - 1 - a + 1 /\ a + s - 1 - a + 1 = s
      BY <1>1, <3>1
    <3> QED  BY <3>1, <3>2
  <2> HIDE DEF f
  <2>5. f \in Bijection(J, S)
    BY <2>2, <2>3, <2>4 DEF Bijection, Injection, Surjection, IsInjective
  <2>6. ExistsBijection(J, S)
    BY <2>5 DEF ExistsBijection
  <2> QED  BY <1>j, <2>6, FS_Bijection
<1>11. Total(l, J) = Total(h, S)
  <2> DEFINE c == a - 1
  <2>1. c \in Nat /\ c + Len(h) <= Len(l)
    BY <1>1, <1>3 DEF n
  <2>2. \A i \in 1 .. Len(h) : h[i] = l[c + i] /\ (i \in S <=> c + i \in J)
    <3> SUFFICES ASSUME NEW i \in 1 .. n - a + 1
                 PROVE  h[i] = l[c + i] /\ (i \in S <=> c + i \in J)
      BY <1>3
    <3>1. c + i = a + i - 1
      BY <1>1
    <3> QED  BY <1>3, <1>8, <3>1
  <2>3. J \subseteq c + 1 .. c + Len(h)
    <3>1. c + 1 = a /\ c + Len(h) = n
      BY <1>1, <1>3
    <3> QED  BY <1>9, <3>1
  <2>4. h \in Seq(Reading)
    BY <1>3
  <2> HIDE DEF c
  <2>5. Moved(l, J, h, S, c)
    BY <2>1, <2>2, <2>3 DEF Moved
  <2> QED  BY <2>1, <2>4, <2>5, TotalMoved
<1> DEFINE c == Cardinality(J)
           t == Total(l, J)
           x == c * r.distance
           d == Deviation(h, S, r)
<1>12. c \in Nat /\ t \in Nat
  <2>1. J \in SUBSET (1 .. Len(l))
    BY <1>j DEF n
  <2> QED  BY <2>1, TotalBounds
<1>13. d = IF x >= t THEN x - t ELSE t - x
  BY <1>10, <1>11 DEF Deviation
<1>14. x \in Int
  BY <1>5, <1>12
<1>15. /\ Irregular(h, r) <=> c >= 3 /\ 10 * d > 50 * c /\ 10 * d > t
       /\ Extreme(h, r) <=> c >= 3 /\ 2 * d > t
  BY <1>10, <1>11 DEF Irregular, Extreme, HasAverage, S
<1>16. \A p : Away(l, n, p) <=> /\ c >= 3 /\ 100 * (x - t) \notin (-p * t) .. (p * t)
                                /\ x - t \notin (-5 * c) .. (5 * c)
  BY DEF Away, J, r
<1> HIDE DEF c, t, x, d
<1>17. d \in Int
  BY <1>12, <1>13, <1>14
<1>18. /\ 10 * d > 50 * c /\ 10 * d > t <=>
            100 * (x - t) \notin (-10 * t) .. (10 * t) /\ x - t \notin (-5 * c) .. (5 * c)
       /\ (10 * d > 50 * c /\ 10 * d > t) /\ 2 * d > t <=>
            100 * (x - t) \notin (-50 * t) .. (50 * t) /\ x - t \notin (-5 * c) .. (5 * c)
  BY <1>12, <1>13, <1>14, <1>17, Judgement
<1>19. Irregular(h, r) <=> Away(l, n, 10)
  BY <1>15, <1>16, <1>18
<1>20. Irregular(h, r) /\ Extreme(h, r) <=> Away(l, n, 50)
  BY <1>15, <1>16, <1>18
<1> QED  BY <1>19, <1>20 DEF r, n

(* The last k + 1 after one more.                                           *)
LEMMA LastOfGrows ==
  ASSUME NEW n \in Nat, NEW I \in SUBSET (1 .. n), NEW k \in Nat
  PROVE  /\ LastOf(I \cup {n + 1}, k + 1) = LastOf(I, k) \cup {n + 1}
         /\ IsFiniteSet(LastOf(I, k)) /\ LastOf(I, k) \subseteq I /\ n + 1 \notin I
<1> DEFINE K == I \cup {n + 1}
<1>1. IsFiniteSet(1 .. n)
  BY FS_Interval
<1>2. \A T \in SUBSET (1 .. n) : IsFiniteSet(T) /\ Cardinality(T) \in Nat
  BY <1>1, FS_Subset, FS_CardinalityType
<1>3. n + 1 \notin I /\ \A i \in I : i \in 1 .. n /\ i < n + 1
  OBVIOUS
<1>4. ASSUME NEW i \in I
      PROVE  i \in LastOf(K, k + 1) <=> i \in LastOf(I, k)
  <2> DEFINE after == {j \in I : j > i}
  <2>1. {j \in K : j > i} = after \cup {n + 1}
    BY <1>3
  <2>2. after \in SUBSET (1 .. n) /\ n + 1 \notin after
    BY <1>3
  <2>3. Cardinality(after \cup {n + 1}) = Cardinality(after) + 1 /\ Cardinality(after) \in Nat
    BY <1>2, <2>2, FS_AddElement
  <2>4. i \in LastOf(K, k + 1) <=> Cardinality(after) + 1 < k + 1
    BY <2>1, <2>3 DEF LastOf
  <2>5. i \in LastOf(I, k) <=> Cardinality(after) < k
    BY DEF LastOf
  <2> HIDE DEF after
  <2> QED  BY <2>3, <2>4, <2>5
<1>5. n + 1 \in LastOf(K, k + 1)
  <2>1. {j \in K : j > n + 1} = {}
    <3>1. \A j \in K : ~(j > n + 1)
      BY <1>3
    <3> HIDE DEF K
    <3> QED  BY <3>1
  <2>2. Cardinality({j \in K : j > n + 1}) < k + 1
    BY <2>1, FS_EmptySet
  <2> QED  BY <2>2 DEF LastOf
<1>6. LastOf(K, k + 1) \subseteq K /\ LastOf(I, k) \subseteq I
  BY DEF LastOf
<1>7. LastOf(K, k + 1) = LastOf(I, k) \cup {n + 1}
  BY <1>3, <1>4, <1>5, <1>6
<1> QED  BY <1>2, <1>3, <1>6, <1>7

(* The last of all is among the last k.                                     *)
LEMMA LastIsLast ==
  ASSUME NEW n \in Nat, NEW I \in SUBSET (1 .. n), I # {}, NEW k \in Nat \ {0}
  PROVE  \E i \in LastOf(I, k) : \A j \in I : j <= i
<1> DEFINE Bounding == {x \in 0 .. n : \A j \in I : j <= x}
<1>1. Bounding \in SUBSET Nat /\ n \in Bounding
  OBVIOUS
<1>2. PICK x \in Bounding : \A y \in Bounding : x <= y
  BY <1>1, LeastNatural
<1>3. x \in I
  <2> SUFFICES ASSUME x \notin I
               PROVE  FALSE
    OBVIOUS
  <2>1. PICK j \in I : TRUE
    OBVIOUS
  <2>2. x \in 0 .. n /\ j <= x /\ j >= 1 /\ \A i \in I : i <= x /\ i # x /\ i \in Int
    BY <1>2, <2>1
  <2>3. x - 1 \in Bounding
    BY <2>2
  <2> QED  BY <1>2, <2>2, <2>3
<1>4. {j \in I : j > x} = {}
  <2>1. \A j \in I : j \in Int /\ x \in Int /\ j <= x
    OBVIOUS
  <2>2. \A j \in I : ~(j > x)
    BY <2>1
  <2> QED  BY ONLY <2>2
<1>5. Cardinality({j \in I : j > x}) < k
  BY <1>4, FS_EmptySet
<1>6. x \in LastOf(I, k)
  BY <1>3, <1>5 DEF LastOf
<1> QED  BY <1>2, <1>6

-----------------------------------------------------------------------------
(* One reading more.                                                        *)

LEMMA AwayType ==
  ASSUME NEW l \in Seq(Reading), NEW p
  PROVE  /\ Len(l) \in Nat /\ AwayReadings(l, p) \in SUBSET (1 .. Len(l))
         /\ IsFiniteSet(AwayReadings(l, p)) /\ Cardinality(AwayReadings(l, p)) \in Nat
<1>1. Len(l) \in Nat /\ AwayReadings(l, p) \in SUBSET (1 .. Len(l))
  BY LenProperties DEF AwayReadings
<1>2. IsFiniteSet(1 .. Len(l))
  BY <1>1, FS_Interval
<1> QED  BY <1>1, <1>2, FS_Subset, FS_CardinalityType

(* A regular reading leaves the chain as it is.                             *)
LEMMA ChainedKept ==
  ASSUME NEW l \in Seq(Reading), NEW r \in Reading, NEW k \in Nat, Chained(l, k),
         AwayReadings(Append(l, r), 10) = AwayReadings(l, 10)
  PROVE  Chained(Append(l, r), k)
<1> DEFINE F == LastOf(AwayReadings(l, 10), k)
<1>1. F \subseteq 1 .. Len(l)
  BY AwayType DEF LastOf
<1>2. \A i \in F : Append(l, r)[i] = l[i]
  BY <1>1, Appended
<1>3. F = LastOf(AwayReadings(Append(l, r), 10), k)
  OBVIOUS
<1>4. /\ Cardinality(F) = k
      /\ \A i \in F : (\E j \in F : j < i) => \E j \in F : j < i /\ l[i].time - l[j].time <= 2
  BY DEF Chained
<1> HIDE DEF F
<1>5. \A i \in F : (\E j \in F : j < i) =>
         \E j \in F : j < i /\ Append(l, r)[i].time - Append(l, r)[j].time <= 2
  BY <1>2, <1>4
<1> QED  BY <1>3, <1>4, <1>5 DEF Chained

(* An irregular one begins a chain.                                         *)
LEMMA ChainBegins ==
  ASSUME NEW l \in Seq(Reading), NEW r \in Reading,
         AwayReadings(Append(l, r), 10) = AwayReadings(l, 10) \cup {Len(l) + 1}
  PROVE  Chained(Append(l, r), 1)
<1> DEFINE I == AwayReadings(l, 10)
           n == Len(l)
<1>1. n \in Nat /\ I \in SUBSET (1 .. n)
  BY AwayType
<1>2. LastOf(I, 0) = {}
  <2>1. \A T \in SUBSET (1 .. n) : Cardinality(T) \in Nat
    <3>1. IsFiniteSet(1 .. n)
      BY <1>1, FS_Interval
    <3> QED  BY <3>1, FS_Subset, FS_CardinalityType
  <2>2. \A i \in I : ~(Cardinality({j \in I : j > i}) < 0)
    <3> TAKE i \in I
    <3>1. {j \in I : j > i} \in SUBSET (1 .. n)
      BY <1>1
    <3>2. Cardinality({j \in I : j > i}) \in Nat
      BY <2>1, <3>1
    <3> QED  BY <3>2
  <2> QED  BY <2>2 DEF LastOf
<1>3. LastOf(I \cup {n + 1}, 0 + 1) = LastOf(I, 0) \cup {n + 1}
  BY <1>1, LastOfGrows
<1>4. LastOf(AwayReadings(Append(l, r), 10), 1) = {n + 1}
  <2>1. 0 + 1 = 1 /\ {} \cup {n + 1} = {n + 1}
    OBVIOUS
  <2>2. AwayReadings(Append(l, r), 10) = I \cup {n + 1}
    OBVIOUS
  <2> HIDE DEF I, n
  <2>3. LastOf(I \cup {n + 1}, 1) = {n + 1}
    BY <1>2, <1>3, <2>1
  <2> QED  BY <2>2, <2>3
<1>5. Cardinality({n + 1}) = 1
  BY FS_Singleton
<1>6. ~(n + 1 < n + 1)
  BY <1>1
<1> QED  BY <1>4, <1>5, <1>6 DEF Chained

(* Or it lengthens the chain, if it follows the last one in time.           *)
LEMMA ChainGrows ==
  ASSUME NEW l \in Seq(Reading), NEW r \in Reading, NEW k \in Nat \ {0}, NEW last \in Nat,
         Chained(l, k), r.time - last <= 2,
         \A i \in AwayReadings(l, 10) : (\A j \in AwayReadings(l, 10) : j <= i) => last = l[i].time,
         AwayReadings(Append(l, r), 10) = AwayReadings(l, 10) \cup {Len(l) + 1}
  PROVE  Chained(Append(l, r), k + 1)
<1> DEFINE I == AwayReadings(l, 10)
           n == Len(l)
           F == LastOf(I, k)
           G == LastOf(AwayReadings(Append(l, r), 10), k + 1)
           a == Append(l, r)
<1>1. n \in Nat /\ I \in SUBSET (1 .. n)
  BY AwayType
<1>2. G = F \cup {n + 1} /\ IsFiniteSet(F) /\ F \subseteq I /\ n + 1 \notin I
  <2>1. AwayReadings(Append(l, r), 10) = I \cup {n + 1}
    OBVIOUS
  <2> HIDE DEF I, n
  <2>2. /\ LastOf(I \cup {n + 1}, k + 1) = F \cup {n + 1}
        /\ IsFiniteSet(F) /\ F \subseteq I /\ n + 1 \notin I
    BY <1>1, LastOfGrows
  <2> QED  BY <2>1, <2>2
<1>3. /\ Cardinality(F) = k
      /\ \A i \in F : (\E j \in F : j < i) => \E j \in F : j < i /\ l[i].time - l[j].time <= 2
  BY DEF Chained
<1>4. I # {}
  <2>1. F # {}
    BY <1>3, FS_EmptySet
  <2> QED  BY <1>2, <2>1
<1>5. PICK x \in F : \A j \in I : j <= x
  BY <1>1, <1>4, LastIsLast
<1>6. last = l[x].time
  BY <1>2, <1>5
<1>a. (\A i \in 1 .. n : a[i] = l[i]) /\ a[n + 1] = r
  BY Appended
<1> HIDE DEF I, n, F, G, a
<1>7. Cardinality(G) = k + 1
  <2>1. n + 1 \notin F
    BY <1>2
  <2>2. Cardinality(F \cup {n + 1}) = Cardinality(F) + 1
    BY <1>2, <2>1, FS_AddElement
  <2> QED  BY <1>2, <1>3, <2>2
<1>8. ASSUME NEW i \in G, NEW z \in G, z < i
      PROVE  \E j \in G : j < i /\ a[i].time - a[j].time <= 2
  <2>1. CASE i = n + 1
    <3>1. x \in 1 .. n /\ x \in G /\ x < i /\ a[i] = r /\ a[x] = l[x]
      BY <1>1, <1>2, <1>a, <2>1
    <3> QED  BY <1>6, <3>1
  <2>2. CASE i \in F
    <3>1. i \in 1 .. n
      BY <1>1, <1>2, <2>2
    <3>2. z # n + 1
      BY <1>1, <1>8, <3>1
    <3>3. z \in F
      BY <1>2, <3>2
    <3>4. PICK j \in F : j < i /\ l[i].time - l[j].time <= 2
      BY <1>3, <1>8, <2>2, <3>3
    <3>5. j \in G /\ a[i] = l[i] /\ a[j] = l[j]
      BY <1>1, <1>2, <1>a, <3>1
    <3> QED  BY <3>4, <3>5
  <2> QED  BY <1>2, <2>1, <2>2
<1>9. \A i \in G : (\E j \in G : j < i) => \E j \in G : j < i /\ a[i].time - a[j].time <= 2
  BY <1>8
<1> QED  BY <1>7, <1>9 DEF Chained, G, a

(* The monitor after a reading tells what the longer log tells.             *)
LEMMA MonitoredMirrors ==
  ASSUME NEW m, MonitorTypeOK(m), NEW l \in Seq(Reading), NEW r \in Reading,
         Rising(l), \A i \in DOMAIN l : l[i].time <= r.time, Mirrors(m, l)
  PROVE  MonitorTypeOK(Monitored(m, r)) /\ Mirrors(Monitored(m, r), Append(l, r))
<1> DEFINE n == Len(l)
           k == Append(l, r)
           h == AddReading(m.history, r)
           irregular == Irregular(h, r)
           seconds == Counted(m, irregular, r)
           extreme == m.extreme + (IF irregular /\ Extreme(h, r) THEN 1 ELSE 0)
           new == Monitored(m, r)
           I == AwayReadings(l, 10)
           J == AwayReadings(k, 10)
<1>1. /\ new.history = h /\ new.irregular = seconds /\ new.extreme = extreme
      /\ new.last = (IF irregular THEN r.time ELSE m.last)
      /\ new.level = Level(irregular, seconds, extreme)
  BY DEF Monitored
<1>2. /\ k \in Seq(Reading) /\ Len(k) = n + 1 /\ n \in Nat /\ k[n + 1] = r
      /\ (\A i \in 1 .. n : k[i] = l[i]) /\ r.time \in Nat
  BY Appended
<1>3. IsWindow(h, k) /\ h \in Seq(Reading)
  BY WindowGrows DEF Mirrors
<1>4. /\ irregular <=> Away(k, n + 1, 10)
      /\ irregular /\ Extreme(h, r) <=> Away(k, n + 1, 50)
  <2>1. Len(k) > 0
    BY <1>2
  <2> QED  BY <1>2, <1>3, <2>1, JudgeAgrees
<1>5. /\ J = IF irregular THEN I \cup {n + 1} ELSE I
      /\ AwayReadings(k, 50) = AwayReadings(l, 50) \cup
                                 (IF irregular /\ Extreme(h, r) THEN {n + 1} ELSE {})
  BY <1>4, AwayAppend
<1>m. m.irregular \in Nat /\ m.last \in Nat /\ m.extreme \in Nat
  BY DEF MonitorTypeOK
<1>i. I \in SUBSET (1 .. n)
  BY AwayType
<1>l. \A i \in I : (\A j \in I : j <= i) => m.last = l[i].time
  BY DEF Mirrors
<1>c. \A j \in 1 .. m.irregular : m.irregular > 2 * (j - 1) => Chained(l, j)
  BY DEF Mirrors
<1>6. /\ irregular => seconds = (IF r.time - m.last > 2 THEN 0 ELSE m.irregular) + 2
      /\ ~irregular => seconds = IF m.irregular - 1 > 0 THEN m.irregular - 1 ELSE 0
  BY <1>m, Greatest DEF Counted
<1> HIDE DEF irregular, seconds
<1>7. seconds \in Nat
  BY <1>m, <1>6
<1>8. extreme \in Nat /\ extreme = Cardinality(AwayReadings(k, 50))
  <2>1. /\ m.extreme = Cardinality(AwayReadings(l, 50)) /\ IsFiniteSet(AwayReadings(l, 50))
        /\ AwayReadings(l, 50) \in SUBSET (1 .. n)
    BY AwayType DEF Mirrors
  <2>2. n + 1 \notin AwayReadings(l, 50)
    BY <1>2, <2>1
  <2>3. CASE irregular /\ Extreme(h, r)
    <3> DEFINE E == AwayReadings(l, 50) \cup {n + 1}
    <3>1. AwayReadings(k, 50) = E /\ extreme = m.extreme + 1
      BY <1>5, <2>3
    <3>2. Cardinality(E) = Cardinality(AwayReadings(l, 50)) + 1
      BY <2>1, <2>2, FS_AddElement
    <3> HIDE DEF extreme, E
    <3> QED  BY <1>m, <2>1, <3>1, <3>2
  <2>4. CASE ~(irregular /\ Extreme(h, r))
    <3>1. AwayReadings(k, 50) = AwayReadings(l, 50) /\ extreme = m.extreme + 0
      BY <1>5, <2>4
    <3> QED  BY <1>m, <2>1, <3>1
  <2> QED  BY <2>3, <2>4
<1> HIDE DEF extreme
<1>9. /\ new.level \in 0 .. 3
      /\ new.level = 3 <=> extreme >= 3
      /\ new.level = 2 => seconds >= 10
      /\ new.level = 1 => irregular
  BY <1>1, <1>7, <1>8 DEF Level
<1> HIDE DEF new
<1>10. MonitorTypeOK(new)
  <2>1. new.last \in Nat
    BY <1>1, <1>2, <1>m
  <2> QED  BY <1>1, <1>3, <1>7, <1>8, <1>9, <2>1 DEF MonitorTypeOK
<1>11. \A i \in J : (\A j \in J : j <= i) => new.last = k[i].time
  <2> SUFFICES ASSUME NEW i \in J, \A j \in J : j <= i
               PROVE  new.last = k[i].time
    OBVIOUS
  <2> HIDE DEF I, J, n, k
  <2>1. CASE irregular
    <3>1. n + 1 \in J /\ n + 1 <= i /\ (i \in 1 .. n \/ i = n + 1)
      BY <1>5, <1>i, <2>1
    <3>2. i = n + 1
      BY <1>2, <3>1
    <3> QED  BY <1>1, <1>2, <2>1, <3>2
  <2>2. CASE ~irregular
    <3>1. i \in I /\ (\A j \in I : j <= i) /\ i \in 1 .. n
      BY <1>5, <1>i, <2>2
    <3> QED  BY <1>1, <1>2, <1>l, <2>2, <3>1
  <2> QED  BY <2>1, <2>2
<1>12. \A j \in 1 .. seconds : seconds > 2 * (j - 1) => Chained(k, j)
  <2> SUFFICES ASSUME NEW j \in 1 .. seconds, seconds > 2 * (j - 1)
               PROVE  Chained(k, j)
    OBVIOUS
  <2>0. j \in Nat \ {0}
    BY <1>7
  <2>1. CASE ~irregular
    <3>1. j \in 1 .. m.irregular /\ m.irregular > 2 * (j - 1)
      BY <1>6, <1>m, <2>1
    <3>2. Chained(l, j) /\ J = I
      BY <1>5, <1>c, <2>1, <3>1
    <3> QED  BY <2>0, <3>2, ChainedKept
  <2>2. CASE irregular /\ j = 1
    BY <1>5, <2>2, ChainBegins
  <2>3. CASE irregular /\ j # 1
    <3>1. /\ ~(r.time - m.last > 2) /\ m.irregular > 2 * (j - 1 - 1)
          /\ j - 1 \in 1 .. m.irregular /\ j - 1 \in Nat \ {0} /\ (j - 1) + 1 = j
      BY <1>2, <1>6, <1>m, <2>0, <2>3
    <3>2. r.time - m.last <= 2
      BY <1>2, <1>m, <3>1
    <3>3. Chained(l, j - 1)
      BY <1>c, <3>1
    <3>4. J = I \cup {n + 1}
      BY <1>5, <2>3
    <3>5. Chained(k, (j - 1) + 1)
      BY <1>l, <1>m, <3>1, <3>2, <3>3, <3>4, ChainGrows
    <3> QED  BY <3>1, <3>5
  <2> QED  BY <2>1, <2>2, <2>3
<1>13. new.level = 1 => Len(k) > 0 /\ Away(k, Len(k), 10)
  BY <1>2, <1>4, <1>9
<1> HIDE DEF I, J, k, h
<1>14. Mirrors(new, k)
  BY <1>1, <1>3, <1>8, <1>9, <1>11, <1>12, <1>13 DEF Mirrors, J
<1> QED  BY <1>10, <1>14 DEF new, k

-----------------------------------------------------------------------------
(* A call.                                                                  *)

LEMMA HighestDanger ==
  ASSUME NEW D \in SUBSET (0 .. 3)
  PROVE  Max({0} \cup D) \in {0} \cup D /\ Max({0} \cup D) \in 0 .. 3
<1> DEFINE S == {0} \cup D
<1>1. S \in SUBSET (0 .. 3) /\ 0 \in S
  OBVIOUS
<1> HIDE DEF S
<1>2. \E x \in S : \A y \in S : x >= y
  <2>1. CASE 3 \in S
    BY <1>1, <2>1
  <2>2. CASE 3 \notin S /\ 2 \in S
    BY <1>1, <2>2
  <2>3. CASE 3 \notin S /\ 2 \notin S /\ 1 \in S
    BY <1>1, <2>3
  <2>4. CASE 3 \notin S /\ 2 \notin S /\ 1 \notin S
    BY <1>1, <2>4
  <2> QED  BY <2>1, <2>2, <2>3, <2>4
<1>3. Max(S) \in S
  BY <1>2 DEF Max
<1> QED  BY <1>1, <1>3 DEF S

Datum(s, offsets) == IF s \in Lidars THEN LidarDatum(s, offsets) ELSE LaserDatum(s)

(* A call does not read what is older than the log.                         *)
LEMMA DatumIsLatest ==
  ASSUME TypeOK, TimesRise, NEW s \in Sensors, NEW offsets \in BOOLEAN
  PROVE  /\ Latest(s).time \in Nat /\ Latest(s).time <= now
         /\ Datum(s, offsets).time = Latest(s).time
         /\ Valid(Datum(s, offsets)) => /\ Datum(s, offsets) \in Reading
                                        /\ Latest(s).distance > 0
<1>1. CASE s \in Lidars
  <2>1. table[s].time \in Nat /\ table[s].distance \in Nat /\ table[s].time <= now
    BY DEF TypeOK, Entry, TimesRise
  <2>2. Datum(s, offsets) = [time |-> table[s].time, distance |-> Corrected(s, offsets)]
    BY <1>1 DEF Datum, LidarDatum
  <2>3. Offset[s] \in Nat
    BY BerthingDataAssumption
  <2>4. /\ Corrected(s, offsets) \in Int
        /\ Corrected(s, offsets) > 0 => Corrected(s, offsets) \in Nat \ {0} /\ table[s].distance > 0
    BY <2>1, <2>3 DEF Corrected
  <2>5. Latest(s) = table[s]
    BY <1>1 DEF Latest
  <2> QED  BY <2>1, <2>2, <2>4, <2>5 DEF Valid, Reading
<1>2. CASE s \notin Lidars
  <2>1. s \in Lasers
    BY <1>2 DEF Sensors
  <2>2. /\ table[s] \in Entry /\ packet[s] \in Entry
        /\ table[s].time <= now /\ packet[s].time <= now
    BY <2>1 DEF TypeOK, TimesRise
  <2>3. LaserData(s) \in Entry /\ LaserData(s).time <= now
    BY <2>2 DEF LaserData
  <2>4. Datum(s, offsets) = [time |-> LaserData(s).time, distance |-> LaserData(s).distance]
    BY <1>2 DEF Datum, LaserDatum
  <2>5. Latest(s) = LaserData(s)
    BY <1>2 DEF Latest
  <2>6. LaserData(s).time \in Nat /\ LaserData(s).distance \in Nat
    BY <2>3 DEF Entry
  <2> HIDE DEF LaserData
  <2> QED  BY <2>3, <2>4, <2>5, <2>6 DEF Valid, Reading
<1> QED  BY <1>1, <1>2

(* One sensor after a call: what monitor m and log l became.                *)
SensorKept(s, m, l) ==
  /\ MonitorTypeOK(m) /\ l \in Seq(Reading) /\ Mirrors(m, l) /\ Rising(l)
  /\ \A i \in DOMAIN l : l[i].time <= now /\ (Latest(s).distance > 0 => l[i].time <= Latest(s).time)
  /\ Cardinality(AwayReadings(l, 50)) >= Cardinality(AwayReadings(log[s], 50))

LEMMA ReadingKeeps ==
  ASSUME DataInv, NEW s \in Sensors, NEW offsets \in BOOLEAN, Valid(Datum(s, offsets))
  PROVE  SensorKept(s, Monitored(monitor[s], Datum(s, offsets)), Append(log[s], Datum(s, offsets)))
<1> DEFINE m == monitor[s]
           l == log[s]
           r == Datum(s, offsets)
<1>1. MonitorTypeOK(m) /\ l \in Seq(Reading) /\ Mirrors(m, l)
  BY DEF DataInv, TypeOK
<1>2. /\ r \in Reading /\ r.time = Latest(s).time /\ Latest(s).time <= now
      /\ Latest(s).distance > 0
  BY DatumIsLatest DEF DataInv
<1>3. Rising(l) /\ \A i \in DOMAIN l : l[i].time <= now /\ l[i].time <= r.time
  BY <1>2 DEF DataInv, TimesRise
<1> HIDE DEF m, l, r
<1>4. /\ MonitorTypeOK(Monitored(m, r)) /\ Mirrors(Monitored(m, r), Append(l, r))
      /\ Rising(Append(l, r)) /\ Append(l, r) \in Seq(Reading)
  BY <1>1, <1>2, <1>3, MonitoredMirrors, RisingAppend, Appended
<1>5. ASSUME NEW i \in DOMAIN Append(l, r)
      PROVE  Append(l, r)[i].time <= now /\ Append(l, r)[i].time <= Latest(s).time
  <2>1. (i \in DOMAIN l /\ Append(l, r)[i] = l[i]) \/ Append(l, r)[i] = r
    BY <1>1, <1>2, Appended
  <2>2. CASE Append(l, r)[i] = r
    <3>1. Latest(s).time <= Latest(s).time
      <4>1. Latest(s).time \in Nat
        BY DatumIsLatest DEF DataInv
      <4> QED  BY <4>1
    <3> QED  BY <1>2, <2>2, <3>1
  <2>3. CASE i \in DOMAIN l /\ Append(l, r)[i] = l[i]
    BY <1>2, <1>3, <2>3
  <2> QED  BY <2>1, <2>2, <2>3
<1>6. Cardinality(AwayReadings(Append(l, r), 50)) >= Cardinality(AwayReadings(l, 50))
  <2>1. AwayReadings(l, 50) \subseteq AwayReadings(Append(l, r), 50)
    BY <1>1, <1>2, AwayAppend
  <2>2. /\ IsFiniteSet(AwayReadings(Append(l, r), 50))
        /\ Cardinality(AwayReadings(Append(l, r), 50)) \in Nat
        /\ Cardinality(AwayReadings(l, 50)) \in Nat
    BY <1>1, <1>4, AwayType
  <2>3. Cardinality(AwayReadings(l, 50)) <= Cardinality(AwayReadings(Append(l, r), 50))
    BY <2>1, <2>2, FS_Subset
  <2> QED  BY <2>2, <2>3
<1> QED  BY <1>4, <1>5, <1>6 DEF SensorKept, m, l, r

LEMMA FetchedKeeps ==
  ASSUME DataInv, NEW w \in Watchers, NEW offsets \in BOOLEAN, NEW inDrift \in BOOLEAN,
         Fetched(w, offsets, inDrift)
  PROVE  /\ \A s \in Sensors : SensorKept(s, monitor'[s], log'[s])
         /\ shown' \in [Watchers -> {Nothing} \cup 0 .. 3]
         /\ \A v \in Watchers : shown'[v] = 3 =>
              \E s \in Sensors : Cardinality(AwayReadings(log'[s], 50)) >= 3
<1> DEFINE active == {s \in Lidars : LidarActive(s, offsets)} \cup {s \in Lasers : LaserActive(s)}
           datum == [s \in active |-> IF s \in Lidars THEN LidarDatum(s, offsets) ELSE LaserDatum(s)]
           dangers == {Danger(monitor[s], datum[s]) : s \in active}
<1>1. /\ Watched(active, datum)
      /\ shown' = [shown EXCEPT ![w] = IF inDrift THEN Max({0} \cup dangers) ELSE Nothing]
  BY DEF Fetched
<1>2. active \subseteq Sensors /\ \A s \in active : datum[s] = Datum(s, offsets)
  BY DEF Sensors, Datum
<1> HIDE DEF active, datum
<1>3. ASSUME NEW s \in Sensors
      PROVE  /\ SensorKept(s, monitor'[s], log'[s])
             /\ s \in active /\ Valid(datum[s]) => monitor'[s] = Monitored(monitor[s], datum[s])
  <2>1. CASE s \in active /\ Valid(datum[s])
    <3>1. monitor'[s] = Monitored(monitor[s], datum[s]) /\ log'[s] = Append(log[s], datum[s])
      BY <1>1, <2>1 DEF Watched, Processed
    <3> QED  BY <1>2, <2>1, <3>1, ReadingKeeps
  <2>2. CASE ~(s \in active /\ Valid(datum[s]))
    <3>1. monitor'[s] = monitor[s] /\ log'[s] = log[s]
      BY <1>1, <2>2 DEF Watched, Processed
    <3>2. log[s] \in Seq(Reading) /\ Cardinality(AwayReadings(log[s], 50)) \in Nat
      BY AwayType DEF DataInv, TypeOK
    <3>3. SensorKept(s, monitor[s], log[s])
      BY <3>2 DEF SensorKept, DataInv, TypeOK, TimesRise
    <3> QED  BY <2>2, <3>1, <3>3
  <2> QED  BY <2>1, <2>2
<1>4. ASSUME NEW s \in active
      PROVE  /\ Danger(monitor[s], datum[s]) \in 0 .. 3
             /\ Danger(monitor[s], datum[s]) = 3 => Cardinality(AwayReadings(log'[s], 50)) >= 3
  <2>1. CASE Valid(datum[s])
    <3>1. s \in Sensors /\ monitor'[s] = Monitored(monitor[s], datum[s])
      BY <1>2, <1>3, <2>1
    <3>2. Danger(monitor[s], datum[s]) = monitor'[s].level
      BY <2>1, <3>1 DEF Danger
    <3>3. MonitorTypeOK(monitor'[s]) /\ Mirrors(monitor'[s], log'[s])
      BY <1>3, <3>1 DEF SensorKept
    <3> QED  BY <3>2, <3>3 DEF MonitorTypeOK, Mirrors
  <2>2. CASE ~Valid(datum[s])
    BY <2>2 DEF Danger
  <2> QED  BY <2>1, <2>2
<1>5. Max({0} \cup dangers) \in {0} \cup dangers /\ Max({0} \cup dangers) \in 0 .. 3
  <2>1. dangers \in SUBSET (0 .. 3)
    BY <1>4
  <2> QED  BY <2>1, HighestDanger
<1>6. Max({0} \cup dangers) = 3 => \E s \in Sensors : Cardinality(AwayReadings(log'[s], 50)) >= 3
  BY <1>2, <1>4, <1>5
<1>7. shown \in [Watchers -> {Nothing} \cup 0 .. 3] /\ Nothing # 3
  BY DEF DataInv, TypeOK, Nothing
<1> HIDE DEF dangers
<1>8. shown' \in [Watchers -> {Nothing} \cup 0 .. 3]
  BY <1>1, <1>5, <1>7
<1>9. ASSUME NEW v \in Watchers, shown'[v] = 3
      PROVE  \E s \in Sensors : Cardinality(AwayReadings(log'[s], 50)) >= 3
  <2>1. CASE v = w
    <3>1. inDrift /\ Max({0} \cup dangers) = 3
      BY <1>1, <1>7, <1>9, <2>1
    <3> QED  BY <1>6, <3>1
  <2>2. CASE v # w
    <3>1. shown[v] = 3
      BY <1>1, <1>7, <1>9, <2>2
    <3>2. PICK s \in Sensors : Cardinality(AwayReadings(log[s], 50)) >= 3
      BY <3>1 DEF DataInv, ShownEarned
    <3>3. Cardinality(AwayReadings(log'[s], 50)) >= Cardinality(AwayReadings(log[s], 50))
      BY <1>3 DEF SensorKept
    <3>4. /\ Cardinality(AwayReadings(log[s], 50)) \in Nat
          /\ Cardinality(AwayReadings(log'[s], 50)) \in Nat
      <4>1. log[s] \in Seq(Reading) /\ log'[s] \in Seq(Reading)
        BY <1>3 DEF SensorKept, DataInv, TypeOK
      <4> QED  BY <4>1, AwayType
    <3> QED  BY <3>2, <3>3, <3>4
  <2> QED  BY <2>1, <2>2
<1> QED  BY <1>3, <1>8, <1>9

LEMMA FetchedData ==
  ASSUME DataInv, NEW w \in Watchers, NEW offsets \in BOOLEAN, NEW inDrift \in BOOLEAN,
         Fetched(w, offsets, inDrift),
         UNCHANGED <<fitted, now, drift, on, connected, table, packet, changes>>,
         reads' \in 0 .. Bounds[fitted].reads,
         call' \in [Watchers -> [at : {"idle", "query"}, drift : BOOLEAN, began : 0 .. Bounds[fitted].time]]
  PROVE  DataInv'
<1>1. /\ \A s \in Sensors : SensorKept(s, monitor'[s], log'[s])
      /\ shown' \in [Watchers -> {Nothing} \cup 0 .. 3]
      /\ \A v \in Watchers : shown'[v] = 3 =>
           \E s \in Sensors : Cardinality(AwayReadings(log'[s], 50)) >= 3
  BY FetchedKeeps
<1>2. \A s \in Sensors : Latest(s)' = Latest(s)
  BY DEF Latest, LaserData
<1>3. TypeOK'
  <2>1. \A s \in Sensors : MonitorTypeOK(monitor'[s]) /\ log'[s] \in Seq(Reading)
    BY <1>1 DEF SensorKept
  <2> QED  BY <1>1, <2>1 DEF DataInv, TypeOK
<1>4. TimesRise'
  <2>1. \A s \in Sensors :
          /\ Rising(log'[s])
          /\ \A i \in DOMAIN log'[s] : /\ log'[s][i].time <= now
                                       /\ Latest(s).distance > 0 => log'[s][i].time <= Latest(s).time
    BY <1>1 DEF SensorKept
  <2>2. (\A s \in Sensors : table[s].time <= now) /\ \A s \in Lasers : packet[s].time <= now
    BY DEF DataInv, TimesRise
  <2> QED  BY <1>2, <2>1, <2>2 DEF TimesRise
<1>5. ShownEarned'
  BY <1>1 DEF ShownEarned
<1>6. \A s \in Sensors : Mirrors(monitor'[s], log'[s])
  BY <1>1 DEF SensorKept
<1> QED  BY <1>3, <1>4, <1>5, <1>6 DEF DataInv

LEMMA ChangeCounts ==
  ASSUME TypeOK, Change
  PROVE  changes' \in 0 .. Bounds[fitted].changes
<1>1. Bounds[fitted].changes \in Nat
  BY BerthingDataAssumption DEF TypeOK
<1> QED  BY <1>1 DEF TypeOK, Change

-----------------------------------------------------------------------------
(* The steps.                                                               *)

LEMMA InitData == Init => DataInv
<1> SUFFICES ASSUME Init
             PROVE  DataInv
  OBVIOUS
<1>1. <<>> \in Seq(Reading) /\ Len(<<>>) = 0 /\ DOMAIN <<>> = {}
  BY EmptySeq
<1>2. \A p : AwayReadings(<<>>, p) = {}
  BY <1>1 DEF AwayReadings
<1>3. Mirrors(NewMonitor, <<>>)
  <2>1. /\ NewMonitor.history = <<>> /\ NewMonitor.irregular = 0 /\ NewMonitor.last = 0
        /\ NewMonitor.extreme = 0 /\ NewMonitor.level = 0
    BY DEF NewMonitor
  <2>2. IsWindow(<<>>, <<>>)
    <3>1. 1 \in 1 .. Len(<<>>) + 1 /\ Len(<<>>) - 1 + 1 = 0
      BY <1>1
    <3> DEFINE t == SubSeq(<<>>, 1, Len(<<>>))
    <3>2. t \in Seq(Reading) /\ Len(t) = 0
      BY <1>1, <3>1, TailOf
    <3> HIDE DEF t
    <3>3. t = <<>>
      BY <3>2, EmptySeq
    <3> QED  BY <1>1, <3>1, <3>3 DEF IsWindow, t
  <2>3. Cardinality({}) = 0
    BY FS_EmptySet
  <2>4. \A i \in AwayReadings(<<>>, 10) : (\A j \in AwayReadings(<<>>, 10) : j <= i) =>
           NewMonitor.last = <<>>[i].time
    BY <1>2
  <2>5. \A k \in 1 .. NewMonitor.irregular : NewMonitor.irregular > 2 * (k - 1) => Chained(<<>>, k)
    BY <2>1
  <2>6. NewMonitor.extreme = Cardinality(AwayReadings(<<>>, 50))
    BY <1>2, <2>1, <2>3
  <2>7. /\ ~(NewMonitor.level = 3) /\ ~(NewMonitor.extreme >= 3)
        /\ ~(NewMonitor.level = 2) /\ ~(NewMonitor.level = 1)
    BY <2>1
  <2>8. IsWindow(NewMonitor.history, <<>>)
    BY <2>1, <2>2
  <2> QED  BY <2>4, <2>5, <2>6, <2>7, <2>8 DEF Mirrors
<1>4. MonitorTypeOK(NewMonitor)
  BY <1>1 DEF MonitorTypeOK, NewMonitor
<1>5. NoEntry \in Entry /\ NoEntry.time = 0
  BY DEF NoEntry, Entry
<1>6. /\ fitted \in Fittings /\ now = 1 /\ 1 \in 1 .. Bounds[fitted].time /\ 0 \in 0 .. Bounds[fitted].time
      /\ 0 \in 0 .. Bounds[fitted].reads /\ 0 \in 0 .. Bounds[fitted].changes
  <2>1. Bounds[fitted] \in [time : Nat \ {0}, reads : Nat, changes : Nat]
    BY BerthingDataAssumption DEF Init
  <2>2. Bounds[fitted].time \in Nat \ {0} /\ Bounds[fitted].reads \in Nat /\ Bounds[fitted].changes \in Nat
    BY <2>1
  <2> QED  BY <2>2 DEF Init
<1>7. TypeOK
  <2>1. call \in [Watchers -> [at : {"idle", "query"}, drift : BOOLEAN, began : 0 .. Bounds[fitted].time]]
    BY <1>6 DEF Init, NoCall
  <2>2. shown \in [Watchers -> {Nothing} \cup 0 .. 3]
    BY DEF Init
  <2>3. \A s \in Sensors : MonitorTypeOK(monitor[s]) /\ log[s] \in Seq(Reading)
    BY <1>1, <1>4 DEF Init
  <2>4. table \in [Sensors -> Entry] /\ packet \in [Lasers -> Entry]
    BY <1>5 DEF Init
  <2>5. on \subseteq fitted /\ drift \in BOOLEAN /\ connected \in BOOLEAN /\ reads = 0 /\ changes = 0
    BY DEF Init
  <2> QED  BY <1>6, <2>1, <2>2, <2>3, <2>4, <2>5 DEF TypeOK
<1>8. TimesRise
  <2>1. \A s \in Sensors : log[s] = <<>> /\ table[s] = NoEntry
    BY DEF Init
  <2>2. \A s \in Lasers : packet[s] = NoEntry
    BY DEF Init
  <2> QED  BY <1>1, <1>5, <1>6, <2>1, <2>2 DEF TimesRise, Rising
<1>9. ShownEarned
  BY DEF ShownEarned, Init, Nothing
<1>10. \A s \in Sensors : Mirrors(monitor[s], log[s])
  BY <1>3 DEF Init
<1> QED  BY <1>7, <1>8, <1>9, <1>10 DEF DataInv

(* A step that makes no call: what is read next is what was read last, or   *)
(* nothing, or of this second.                                              *)
LEMMA QuietKeeps ==
  ASSUME DataInv, TypeOK', UNCHANGED <<monitor, log, shown>>, now <= now',
         \A s \in Sensors : table'[s].time <= now',
         \A s \in Lasers : packet'[s].time <= now',
         \A s \in Sensors : Latest(s)'.distance > 0 => Latest(s)' = Latest(s) \/ now <= Latest(s)'.time
  PROVE  DataInv'
<1>1. now \in Nat /\ now' \in Nat
  <2>1. (\E b \in Nat : now \in 1 .. b) /\ \E b \in Nat : now' \in 1 .. b
    BY BerthingDataAssumption DEF DataInv, TypeOK
  <2> QED  BY <2>1
<1>2. ASSUME NEW s \in Sensors
      PROVE  /\ Rising(log'[s])
             /\ \A i \in DOMAIN log'[s] : /\ log'[s][i].time <= now'
                                          /\ Latest(s)'.distance > 0 => log'[s][i].time <= Latest(s)'.time
  <2>1. log'[s] = log[s] /\ Rising(log[s])
    BY DEF DataInv, TimesRise
  <2>2. ASSUME NEW i \in DOMAIN log[s]
        PROVE  /\ log[s][i].time <= now'
               /\ Latest(s)'.distance > 0 => log[s][i].time <= Latest(s)'.time
    <3>1. /\ log[s][i].time <= now
          /\ Latest(s).distance > 0 => log[s][i].time <= Latest(s).time
      BY DEF DataInv, TimesRise
    <3>2. log[s][i].time \in Nat
      <4>1. log[s] \in Seq(Reading)
        BY DEF DataInv, TypeOK
      <4>2. log[s][i] \in Reading
        BY <4>1, LenProperties, ElementOfSeq
      <4> QED  BY <4>2 DEF Reading
    <3>3. Latest(s)'.time \in Nat
      <4>1. table'[s] \in Entry /\ (s \in Lasers => packet'[s] \in Entry)
        BY DEF TypeOK
      <4>2. Latest(s)' \in Entry
        BY <4>1 DEF Latest, LaserData, Sensors
      <4> QED  BY <4>2 DEF Entry
    <3> QED  BY <1>1, <3>1, <3>2, <3>3
  <2> QED  BY <2>1, <2>2
<1>3. TimesRise'
  BY <1>2 DEF TimesRise
<1>4. ShownEarned'
  BY DEF DataInv, ShownEarned
<1>5. \A s \in Sensors : Mirrors(monitor'[s], log'[s])
  BY DEF DataInv
<1> QED  BY <1>3, <1>4, <1>5 DEF DataInv

(* The same, when no entry changes.                                         *)
LEMMA NothingRead ==
  ASSUME DataInv, TypeOK', UNCHANGED <<now, table, packet, monitor, log, shown>>
  PROVE  DataInv'
<1>1. now \in Nat
  <2>1. \E b \in Nat : now \in 1 .. b
    BY BerthingDataAssumption DEF DataInv, TypeOK
  <2> QED  BY <2>1
<1>2. \A s \in Sensors : Latest(s)' = Latest(s)
  BY DEF Latest, LaserData
<1>3. (\A s \in Sensors : table'[s].time <= now') /\ \A s \in Lasers : packet'[s].time <= now'
  BY DEF DataInv, TimesRise
<1>4. now <= now'
  BY <1>1
<1> QED  BY <1>2, <1>3, <1>4, QuietKeeps

LEMMA SecondData ==
  ASSUME DataInv, NEW pause \in Pauses, NEW seen, NEW measured \in Measurements,
         NEW lasersToo \in BOOLEAN, Second(pause, seen, measured, lasersToo)
  PROVE  DataInv'
<1>1. /\ pause \in Nat /\ now \in Nat /\ now' = now + pause /\ now <= now' /\ now' \in Nat
      /\ now' \in 1 .. Bounds[fitted].time
  <2>1. Bounds[fitted].time \in Nat /\ now \in 1 .. Bounds[fitted].time /\ pause \in Nat \ {0}
    BY BerthingDataAssumption DEF DataInv, TypeOK
  <2> QED  BY <2>1 DEF Second
<1>2. \A s \in Lidars : measured[s] \in Nat
  BY BerthingDataAssumption DEF Measurements, Sensors
<1>3. ASSUME NEW s \in Lasers
      PROVE  /\ s \in Sensors /\ s \notin Lidars /\ packet[s] \in Entry /\ table[s] \in Entry
             /\ packet[s].time <= now /\ table[s].time <= now
             /\ table'[s] = IF lasersToo THEN LaserEntry(s, now') ELSE table[s]
  <2>1. s \in Sensors /\ s \notin Lidars
    BY BerthingDataAssumption DEF Sensors
  <2> QED  BY <2>1 DEF DataInv, TypeOK, TimesRise, Second
<1>4. ASSUME NEW s \in Sensors, s \notin Lasers
      PROVE  /\ s \in Lidars /\ table[s] \in Entry /\ table[s].time <= now
             /\ table'[s] = IF s \in on THEN LidarEntry(s, now', seen, measured[s]) ELSE table[s]
  BY <1>4 DEF DataInv, TypeOK, TimesRise, Second, Sensors
<1>5. ASSUME NEW s \in Sensors
      PROVE  /\ table'[s] \in Entry /\ table'[s].time <= now'
             /\ Latest(s)' = Latest(s) \/ now <= Latest(s)'.time
  <2>1. CASE s \in Lasers
    <3>1. /\ packet[s] \in Entry /\ table[s] \in Entry /\ s \notin Lidars
          /\ packet[s].time <= now /\ table[s].time <= now /\ packet'[s] = packet[s]
          /\ Latest(s)' = LaserData(s)' /\ Latest(s) = LaserData(s)
      BY <1>3, <2>1 DEF Latest, Second
    <3>2. CASE lasersToo /\ packet[s].known /\ packet[s].time >= now' - 1
      <4>1. table'[s] = [packet[s] EXCEPT !.time = now']
        BY <1>3, <2>1, <3>2 DEF LaserEntry
      <4>2. table'[s] \in Entry /\ table'[s].time = now' /\ table'[s].known
        BY <1>1, <3>1, <3>2, <4>1 DEF Entry
      <4>3. Latest(s)'.time = now'
        BY <3>1, <4>2 DEF LaserData
      <4> QED  BY <1>1, <4>2, <4>3
    <3>3. CASE ~(lasersToo /\ packet[s].known /\ packet[s].time >= now' - 1)
      <4>1. table'[s] = table[s]
        BY <1>3, <2>1, <3>3 DEF LaserEntry
      <4>2. LaserData(s)' = LaserData(s)
        BY <3>1, <4>1 DEF LaserData
      <4>3. table[s].time \in Nat
        BY <3>1 DEF Entry
      <4> QED  BY <1>1, <3>1, <4>1, <4>2, <4>3
    <3> QED  BY <3>2, <3>3
  <2>2. CASE s \notin Lasers
    <3>1. s \in Lidars /\ table[s] \in Entry /\ table[s].time <= now
          /\ Latest(s)' = table'[s] /\ Latest(s) = table[s]
      BY <1>4, <2>2 DEF Latest
    <3>2. CASE s \in on
      <4>1. table'[s] = LidarEntry(s, now', seen, measured[s])
        BY <1>4, <2>2, <3>2
      <4>2. table'[s] \in Entry /\ table'[s].time = now'
        BY <1>1, <1>2, <3>1, <4>1 DEF LidarEntry, Entry
      <4> QED  BY <1>1, <3>1, <4>2
    <3>3. CASE s \notin on
      <4>1. table'[s] = table[s] /\ table[s].time \in Nat
        BY <1>4, <2>2, <3>1, <3>3 DEF Entry
      <4> QED  BY <1>1, <3>1, <4>1
    <3> QED  BY <3>2, <3>3
  <2> QED  BY <2>1, <2>2
<1>6. TypeOK'
  <2>1. table' \in [Sensors -> Entry]
    <3>1. DOMAIN table' = Sensors /\ table' = [s \in Sensors |-> table'[s]]
      BY DEF Second
    <3> QED  BY <1>5, <3>1
  <2> QED  BY <1>1, <2>1 DEF DataInv, TypeOK, Second
<1>7. \A s \in Lasers : packet'[s].time <= now'
  <2>1. \A s \in Lasers : packet[s].time \in Nat
    BY DEF DataInv, TypeOK, Entry
  <2> QED  BY <1>1, <1>3, <2>1 DEF Second
<1> QED  BY <1>1, <1>5, <1>6, <1>7, QuietKeeps DEF Second

LEMMA PacketData ==
  ASSUME DataInv, NEW s \in Lasers \cap fitted, NEW distance \in Distances[s], LaserPacket(s, distance)
  PROVE  DataInv'
<1>1. now \in Nat /\ distance \in Nat /\ s \in Sensors
  <2>1. \E b \in Nat : now \in 1 .. b
    BY BerthingDataAssumption DEF DataInv, TypeOK
  <2>2. s \in Sensors /\ distance \in Nat
    BY BerthingDataAssumption DEF Sensors
  <2> QED  BY <2>1, <2>2
<1>2. packet' = [packet EXCEPT ![s] = [time |-> now, distance |-> distance, known |-> TRUE]]
  BY DEF LaserPacket
<1>3. packet \in [Lasers -> Entry] /\ [time |-> now, distance |-> distance, known |-> TRUE] \in Entry
  BY <1>1 DEF DataInv, TypeOK, Entry
<1>4. TypeOK'
  <2>1. packet' \in [Lasers -> Entry]
    BY <1>2, <1>3
  <2>2. on' \subseteq fitted
    BY DEF DataInv, TypeOK, LaserPacket
  <2> QED  BY <2>1, <2>2 DEF DataInv, TypeOK, LaserPacket
<1>5. \A z \in Lasers : packet'[z].time <= now
  <2>1. \A z \in Lasers : packet[z].time <= now
    BY DEF DataInv, TimesRise
  <2> QED  BY <1>1, <1>2, <1>3, <2>1
<1>6. ASSUME NEW z \in Sensors
      PROVE  Latest(z)' = Latest(z) \/ now <= Latest(z)'.time
  <2>1. CASE z = s /\ ~table[s].known /\ s \notin Lidars
    <3>1. Latest(z)' = packet'[s]
      BY <2>1 DEF Latest, LaserData, LaserPacket
    <3> QED  BY <1>1, <1>2, <1>3, <3>1
  <2>2. CASE z # s
    <3>1. packet'[z] = packet[z] \/ z \in Lidars
      BY <1>2, <1>3, <2>2 DEF Sensors
    <3> QED  BY <3>1 DEF Latest, LaserData, LaserPacket
  <2>3. CASE table[z].known \/ z \in Lidars
    BY <2>3 DEF Latest, LaserData, LaserPacket
  <2> QED  BY <2>1, <2>2, <2>3
<1>7. \A z \in Sensors : table[z].time <= now
  BY DEF DataInv, TimesRise
<1>8. UNCHANGED <<monitor, log, shown, now, table>> /\ now <= now'
  BY <1>1 DEF LaserPacket
<1> QED  BY <1>4, <1>5, <1>6, <1>7, <1>8, QuietKeeps

LEMMA LidarStartsData ==
  ASSUME DataInv, NEW s \in Lidars \cap fitted, LidarStarts(s)
  PROVE  DataInv'
<1>1. now \in Nat
  <2>1. \E b \in Nat : now \in 1 .. b
    BY BerthingDataAssumption DEF DataInv, TypeOK
  <2> QED  BY <2>1
<1>2. table \in [Sensors -> Entry] /\ table' = [table EXCEPT ![s] = NoEntry] /\ s \in Sensors /\ s \notin Lasers
  BY BerthingDataAssumption DEF DataInv, TypeOK, LidarStarts, Sensors
<1>3. NoEntry \in Entry /\ NoEntry.time = 0 /\ NoEntry.distance = 0
  BY DEF NoEntry, Entry
<1>4. TypeOK'
  <2>1. table' \in [Sensors -> Entry]
    BY <1>2, <1>3
  <2>2. on' \subseteq fitted
    BY DEF DataInv, TypeOK, LidarStarts
  <2>3. changes' \in 0 .. Bounds[fitted].changes
    BY ChangeCounts DEF LidarStarts, DataInv
  <2> QED  BY <2>1, <2>2, <2>3 DEF DataInv, TypeOK, LidarStarts
<1>5. ASSUME NEW z \in Sensors
      PROVE  table'[z].time <= now /\ (Latest(z)'.distance > 0 => Latest(z)' = Latest(z))
  <2>1. CASE z = s
    <3>1. Latest(z)' = NoEntry /\ table'[z] = NoEntry
      BY <1>2, <2>1 DEF Latest
    <3> QED  BY <1>1, <1>3, <3>1
  <2>2. CASE z # s
    <3>1. table'[z] = table[z]
      BY <1>2, <2>2
    <3>2. Latest(z)' = Latest(z)
      BY <3>1 DEF Latest, LaserData, LidarStarts
    <3> QED  BY <3>1, <3>2 DEF DataInv, TimesRise
  <2> QED  BY <2>1, <2>2
<1>6. \A z \in Lasers : packet[z].time <= now
  BY DEF DataInv, TimesRise
<1>7. UNCHANGED <<monitor, log, shown, now, packet>> /\ now <= now'
  BY <1>1 DEF LidarStarts
<1> QED  BY <1>4, <1>5, <1>6, <1>7, QuietKeeps

LEMMA CallsData ==
  ASSUME DataInv, NEW w \in Watchers, Calls(w)
  PROVE  DataInv'
<1>1. UNCHANGED <<fitted, now, drift, on, connected, table, packet, changes>>
  BY DEF Calls
<1>2. now \in 0 .. Bounds[fitted].time /\ reads' \in 0 .. Bounds[fitted].reads
  <2>1. Bounds[fitted].time \in Nat /\ Bounds[fitted].reads \in Nat
    BY BerthingDataAssumption DEF DataInv, TypeOK
  <2> QED  BY <2>1 DEF DataInv, TypeOK, Calls
<1>3. call' \in [Watchers -> [at : {"idle", "query"}, drift : BOOLEAN, began : 0 .. Bounds[fitted].time]]
  <2>1. call \in [Watchers -> [at : {"idle", "query"}, drift : BOOLEAN, began : 0 .. Bounds[fitted].time]]
    BY DEF DataInv, TypeOK
  <2>2. CASE drift
    <3>1. call' = [call EXCEPT ![w] = [at |-> "query", drift |-> TRUE, began |-> now]]
      BY <2>2 DEF Calls
    <3> QED  BY <1>2, <2>1, <3>1
  <2>3. CASE ~drift
    <3>1. call' = [call EXCEPT ![w].began = now]
      BY <2>3 DEF Calls
    <3> QED  BY <1>2, <2>1, <3>1
  <2> QED  BY <2>2, <2>3
<1>4. CASE drift
  <2>1. UNCHANGED <<shown, monitor, log>>
    BY <1>4 DEF Calls
  <2>2. TypeOK'
    BY <1>1, <1>2, <1>3, <2>1 DEF DataInv, TypeOK
  <2> QED  BY <1>1, <2>1, <2>2, NothingRead
<1>5. CASE ~drift
  <2>1. Fetched(w, FALSE, FALSE)
    BY <1>5 DEF Calls
  <2> QED  BY <1>1, <1>2, <1>3, <2>1, FetchedData
<1> QED  BY <1>4, <1>5

LEMMA QueryReturnsData ==
  ASSUME DataInv, NEW w \in Watchers, NEW offsets \in BOOLEAN, QueryReturns(w, offsets)
  PROVE  DataInv'
<1>1. /\ UNCHANGED <<fitted, now, drift, on, connected, table, packet, changes>> /\ reads' = reads
      /\ Fetched(w, offsets, call[w].drift) /\ call' = [call EXCEPT ![w].at = "idle"]
  BY DEF QueryReturns
<1>2. call \in [Watchers -> [at : {"idle", "query"}, drift : BOOLEAN, began : 0 .. Bounds[fitted].time]]
      /\ reads \in 0 .. Bounds[fitted].reads
  BY DEF DataInv, TypeOK
<1>3. call[w].drift \in BOOLEAN
  BY <1>2
<1>4. call' \in [Watchers -> [at : {"idle", "query"}, drift : BOOLEAN, began : 0 .. Bounds[fitted].time]]
  BY <1>1, <1>2
<1> QED  BY <1>1, <1>2, <1>3, <1>4, FetchedData

LEMMA NextData == DataInv /\ [Next]_vars => DataInv'
<1> SUFFICES ASSUME DataInv, [Next]_vars
             PROVE  DataInv'
  OBVIOUS
<1>0. TypeOK
  BY DEF DataInv
<1>1. ASSUME NEW pause \in Pauses, NEW seen \in SUBSET (Lidars \cap on), NEW measured \in Measurements,
             NEW lasersToo \in BOOLEAN, Second(pause, seen, measured, lasersToo)
      PROVE  DataInv'
  BY <1>1, SecondData
<1>2. ASSUME NEW s \in Lasers \cap fitted, NEW d \in Distances[s], LaserPacket(s, d)
      PROVE  DataInv'
  BY <1>2, PacketData
<1>3. ASSUME NEW s \in Lidars \cap fitted, LidarStarts(s)
      PROVE  DataInv'
  BY <1>3, LidarStartsData
<1>4. ASSUME NEW s \in Lidars \cap fitted, LidarStops(s)
      PROVE  DataInv'
  <2>1. TypeOK'
    BY <1>0, <1>4, ChangeCounts DEF TypeOK, LidarStops
  <2> QED  BY <1>4, <2>1, NothingRead DEF LidarStops
<1>5. ASSUME LasersConnect
      PROVE  DataInv'
  <2>1. TypeOK'
    BY <1>0, <1>5, ChangeCounts DEF TypeOK, LasersConnect
  <2> QED  BY <1>5, <2>1, NothingRead DEF LasersConnect
<1>6. ASSUME LasersDisconnect
      PROVE  DataInv'
  <2>1. TypeOK'
    BY <1>0, <1>6, ChangeCounts DEF TypeOK, LasersDisconnect
  <2> QED  BY <1>6, <2>1, NothingRead DEF LasersDisconnect
<1>7. ASSUME NEW isDrift \in BOOLEAN, OperationChanges(isDrift)
      PROVE  DataInv'
  <2>1. TypeOK'
    BY <1>0, <1>7, ChangeCounts DEF TypeOK, OperationChanges
  <2> QED  BY <1>7, <2>1, NothingRead DEF OperationChanges
<1>8. ASSUME NEW w \in Watchers, Calls(w)
      PROVE  DataInv'
  BY <1>8, CallsData
<1>9. ASSUME NEW w \in Watchers, NEW offsets \in BOOLEAN, QueryReturns(w, offsets)
      PROVE  DataInv'
  BY <1>9, QueryReturnsData
<1>10. CASE UNCHANGED vars
  <2>1. TypeOK'
    BY <1>0, <1>10 DEF TypeOK, vars
  <2> QED  BY <1>10, <2>1, NothingRead DEF vars
<1> QED  BY <1>1, <1>2, <1>3, <1>4, <1>5, <1>6, <1>7, <1>8, <1>9, <1>10 DEF Next

(* However the watchers share the monitor: its window is what the log's last *)
(* readings are, the time of the last irregular reading is known, as many of *)
(* the last irregular ones as irregular_seconds stands for followed each     *)
(* other within two seconds, and every extreme reading is counted once.      *)
THEOREM MonitorMirrorsLog == Spec => []DataInv
<1> QED  BY InitData, NextData, PTL DEF Spec

(* Every entry, call, danger level and monitor keeps its type.               *)
THEOREM DataTypeCorrect == Spec => []TypeOK
<1>1. DataInv => TypeOK
  BY DEF DataInv
<1> QED  BY <1>1, MonitorMirrorsLog, PTL

-----------------------------------------------------------------------------
(* What the invariant says of the properties.                               *)

(* The window of a sensor is what its last readings are, none too old, none  *)
(* lost and none twice, through restarts, pauses and changes of operation    *)
(* (add_distance_reading).                                                   *)
THEOREM WindowStaysTail == Spec => []WindowIsTail
<1>1. DataInv => WindowIsTail
  <2> SUFFICES ASSUME DataInv, NEW s \in Sensors
               PROVE  LET n == Len(log[s]) IN
                        /\ Len(monitor[s].history) = (IF n = 0 THEN 0 ELSE Cardinality(Within(s, n)))
                        /\ monitor[s].history = SubSeq(log[s], n - Len(monitor[s].history) + 1, n)
    BY DEF WindowIsTail
  <2> DEFINE n == Len(log[s])
             h == monitor[s].history
  <2>1. log[s] \in Seq(Reading) /\ n \in Nat
    BY LenProperties DEF DataInv, TypeOK
  <2>2. PICK a \in 1 .. n + 1 : /\ h = SubSeq(log[s], a, n)
                                /\ n > 0 => a <= n /\ WithinOf(log[s], n) = a .. n
    BY DEF DataInv, Mirrors, IsWindow
  <2>3. Len(h) = n - a + 1
    BY <2>1, <2>2, TailOf
  <2>4. Within(s, n) = WithinOf(log[s], n)
    BY DEF Within, WithinOf
  <2> HIDE DEF n, h
  <2>5. n - Len(h) + 1 = a
    BY <2>1, <2>3
  <2>6. Len(h) = IF n = 0 THEN 0 ELSE Cardinality(Within(s, n))
    <3>1. CASE n = 0
      BY <2>1, <2>3, <3>1
    <3>2. CASE n > 0
      <4>1. a <= n /\ Within(s, n) = a .. n
        BY <2>2, <2>4, <3>2
      <4>2. Cardinality(a .. n) = n - a + 1
        BY <2>1, <4>1, FS_Interval
      <4> QED  BY <2>1, <2>3, <3>2, <4>1, <4>2
    <3> QED  BY <2>1, <3>1, <3>2
  <2> QED  BY <2>2, <2>5, <2>6 DEF n, h
<1> QED  BY <1>1, MonitorMirrorsLog, PTL

(* The judgement of the log is that of the properties.                      *)
LEMMA SameAway ==
  ASSUME NEW s
  PROVE  /\ \A i : Within(s, i) = WithinOf(log[s], i) /\ Judged(s, i) = JudgedOf(log[s], i)
         /\ IrregularReadings(s) = AwayReadings(log[s], 10)
         /\ ExtremeReadings(s) = AwayReadings(log[s], 50)
<1>1. \A i : Within(s, i) = WithinOf(log[s], i)
  BY DEF Within, WithinOf
<1>2. \A i : Judged(s, i) = JudgedOf(log[s], i)
  BY <1>1 DEF Judged, JudgedOf
<1>3. \A i, p : AwayBy(s, i, p) <=> Away(log[s], i, p)
  BY <1>2 DEF AwayBy, Away
<1> QED  BY <1>1, <1>2, <1>3 DEF IrregularReadings, ExtremeReadings, AwayReadings

LEMMA CauseOfWarning == DataInv => WarningHasCause
<1> SUFFICES ASSUME DataInv, NEW s \in Sensors, monitor[s].level = 1
             PROVE  LET n == Len(log[s]) IN
                      /\ Cardinality({j \in Within(s, n) : log[s][j].time >= log[s][n].time - AverageSeconds}) >= 3
                      /\ \E j \in Within(s, n) : log[s][j].distance - log[s][n].distance \notin -5 .. 5
  BY DEF WarningHasCause
<1> DEFINE l == log[s]
           n == Len(l)
           J == JudgedOf(l, n)
           c == Cardinality(J)
           t == Total(l, J)
           d == l[n].distance
<1>1. l \in Seq(Reading) /\ n \in Nat /\ n > 0 /\ Away(l, n, 10)
  BY LenProperties DEF DataInv, TypeOK, Mirrors
<1>2. c >= 3 /\ c * d - t \notin (-5 * c) .. (5 * c)
  BY <1>1 DEF Away
<1>3. Within(s, n) = WithinOf(l, n) /\ {j \in Within(s, n) : l[j].time >= l[n].time - AverageSeconds} = J
  BY SameAway DEF JudgedOf
<1>4. J \in SUBSET (1 .. n) /\ J \subseteq WithinOf(l, n)
  BY <1>1, JudgedType DEF JudgedOf
<1>5. d \in Nat
  <2>1. l[n] \in Reading
    BY <1>1, ElementOfSeq
  <2> QED  BY <2>1 DEF Reading
<1>6. /\ t \in Nat /\ c \in Nat
      /\ (\A i \in J : l[i].distance - d \in -5 .. 5) => t - c * d <= 5 * c /\ c * d - t <= 5 * c
  BY <1>1, <1>4, <1>5, TotalBounds
<1> HIDE DEF l, n, J, c, t, d
<1>7. ~(\A i \in J : l[i].distance - d \in -5 .. 5)
  <2> SUFFICES ASSUME t - c * d <= 5 * c, c * d - t <= 5 * c
               PROVE  FALSE
    BY <1>6
  <2> DEFINE x == c * d
  <2>1. x \in Int
    BY <1>5, <1>6
  <2>2. x - t \notin (-5 * c) .. (5 * c) /\ t - x <= 5 * c /\ x - t <= 5 * c
    BY <1>2
  <2> HIDE DEF x
  <2> QED  BY <1>6, <2>1, <2>2
<1>8. PICK j \in J : l[j].distance - d \notin -5 .. 5
  BY <1>7
<1>9. j \in Within(s, n)
  BY <1>3, <1>4, <1>8
<1> QED  BY <1>2, <1>3, <1>8, <1>9 DEF l, n, c, d

LEMMA AlarmCounts == DataInv => AlarmCountsCalls
<1> SUFFICES ASSUME DataInv
             PROVE  AlarmCountsCalls
  OBVIOUS
<1>1. ASSUME NEW s \in Sensors
      PROVE  LET I == IrregularReadings(s)
                 F == {i \in I : Cardinality({j \in I : j > i}) < 5}
             IN /\ monitor[s].level = 2 =>
                     /\ Cardinality(F) = 5
                     /\ \A i \in F : (\E j \in F : j < i) =>
                          \E j \in F : j < i /\ log[s][i].time - log[s][j].time <= 2
                /\ monitor[s].level = 3 <=> Cardinality(ExtremeReadings(s)) >= 3
  <2> DEFINE I == IrregularReadings(s)
             F == {i \in I : Cardinality({j \in I : j > i}) < 5}
             m == monitor[s]
  <2>1. Mirrors(m, log[s]) /\ m.irregular \in Nat
    BY DEF DataInv, TypeOK, MonitorTypeOK
  <2>2. I = AwayReadings(log[s], 10) /\ ExtremeReadings(s) = AwayReadings(log[s], 50)
    BY SameAway
  <2>3. m.level = 2 => Chained(log[s], 5)
    BY <2>1 DEF Mirrors
  <2>4. F = LastOf(AwayReadings(log[s], 10), 5)
    BY <2>2 DEF LastOf
  <2>5. m.level = 3 <=> Cardinality(ExtremeReadings(s)) >= 3
    BY <2>1, <2>2 DEF Mirrors
  <2> HIDE DEF F, I, m
  <2>6. m.level = 2 =>
           /\ Cardinality(F) = 5
           /\ \A i \in F : (\E j \in F : j < i) =>
                \E j \in F : j < i /\ log[s][i].time - log[s][j].time <= 2
    BY <2>3, <2>4 DEF Chained
  <2> QED  BY <2>5, <2>6 DEF F, I, m
<1>2. ASSUME NEW w \in Watchers, shown[w] = 3
      PROVE  \E s \in Sensors : Cardinality(ExtremeReadings(s)) >= 3
  BY <1>2, SameAway DEF DataInv, ShownEarned
<1> QED  BY <1>1, <1>2 DEF AlarmCountsCalls

(* No level without the calls that it counts: a warning has another reading  *)
(* more than half a metre away, level 2 has five irregular readings within   *)
(* two seconds of each other, whoever read them and however often, and level *)
(* 3, also as it is shown to a client, has three extreme ones                *)
(* (check_irregularity, monitor_sensor_drift).  It says nothing of seconds.  *)
THEOREM LevelsStayCounted == Spec => []LevelsCountCalls
<1>1. DataInv => LevelsCountCalls
  BY CauseOfWarning, AlarmCounts DEF LevelsCountCalls
<1> QED  BY <1>1, MonitorMirrorsLog, PTL
=============================================================================
