------------------------ MODULE DeviceShutdown_proofs ------------------------
(***************************************************************************)
(* Theorems about TaskQueue and DeviceShutdown, for any devices, workers,  *)
(* tasks, attempts and size of the heap.  First what heappush and heappop  *)
(* do to the entries of a heap, by the least position for which a claim    *)
(* would fail; then one invariant in three parts: the types (TypeInv),     *)
(* which call of _graceful_shutdown waits for which device (HandlerInv),   *)
(* and where tasks are (TaskInv).  Each part is shown to be kept by every  *)
(* step, with the help of the parts before it.                             *)
(***************************************************************************)
EXTENDS DeviceShutdown, SequenceTheorems, FiniteSetTheorems, WellFoundedInduction, TLAPS

-----------------------------------------------------------------------------
(* The heap.                                                                *)

(* Every nonempty set of natural numbers has a least element.               *)
LEMMA LeastNatural ==
  ASSUME NEW S \in SUBSET Nat, S # {}
  PROVE  \E n \in S : \A m \in S : n <= m
<1>1. PICK n \in S : \A m \in S : ~(<<m, n>> \in OpToRel(<, Nat))
  BY WFMin, NatLessThanWellFounded
<1>2. ASSUME NEW m \in S, ~(n <= m)
      PROVE  FALSE
  <2>1. m < n /\ <<m, n>> \in Nat \X Nat
    BY <1>2
  <2>2. <<m, n>> \in OpToRel(<, Nat)
    BY <2>1 DEF OpToRel
  <2> QED  BY <1>1, <2>2
<1> QED  BY <1>2

Once(h) == \A i, j \in DOMAIN h : h[i] = h[j] => i = j
Entries(h) == {h[i] : i \in DOMAIN h}

(* h and g have the same entries, and g has none twice if h has none.       *)
Rearranged(g, h) ==
  /\ g \in Seq(Tasks) /\ Len(g) = Len(h)
  /\ Entries(g) = Entries(h)
  /\ Once(h) => Once(g)

(* Two of the entries are equal to the comparison.                          *)
Tied(key, h) == \E x, y \in Entries(h) : x # y /\ key[x] = key[y]

(* What sifting makes of h.                                                 *)
Reorders(r, key, h) == Rearranged(r.heap, h) /\ (Once(h) /\ ~r.ok => Tied(key, h))

LEMMA SwappedRearranged ==
  ASSUME NEW h \in Seq(Tasks), NEW i \in 1 .. Len(h), NEW j \in 1 .. Len(h)
  PROVE  Rearranged(Swapped(h, i, j), h)
<1> DEFINE g == Swapped(h, i, j)
<1>1. /\ Len(h) \in Nat /\ DOMAIN h = 1 .. Len(h) /\ \A k \in 1 .. Len(h) : h[k] \in Tasks
      /\ h \in [1 .. Len(h) -> Tasks]
  BY LenProperties, ElementOfSeq
<1>2. /\ g \in [1 .. Len(h) -> Tasks]
      /\ \A k \in 1 .. Len(h) : g[k] = IF k = j THEN h[i] ELSE IF k = i THEN h[j] ELSE h[k]
  BY <1>1 DEF Swapped
<1> HIDE DEF g
<1>3. g \in Seq(Tasks) /\ Len(g) = Len(h) /\ DOMAIN g = 1 .. Len(h)
  BY <1>1, <1>2, SeqDef, LenProperties
<1>4. Entries(g) = Entries(h)
  <2>1. \A k \in 1 .. Len(h) : \E m \in 1 .. Len(h) : g[k] = h[m]
    BY <1>2
  <2>2. \A k \in 1 .. Len(h) : \E m \in 1 .. Len(h) : h[k] = g[m]
    <3> SUFFICES ASSUME NEW k \in 1 .. Len(h)
                 PROVE  \E m \in 1 .. Len(h) : h[k] = g[m]
      OBVIOUS
    <3>1. CASE k = i
      BY <1>2, <3>1
    <3>2. CASE k = j
      BY <1>2, <3>2
    <3>3. CASE k # i /\ k # j
      BY <1>2, <3>3
    <3> QED  BY <3>1, <3>2, <3>3
  <2>3. ASSUME NEW x \in Entries(g)
        PROVE  x \in Entries(h)
    <3>1. PICK k \in 1 .. Len(h) : x = g[k]
      BY <1>3 DEF Entries
    <3> QED  BY <1>1, <2>1, <3>1 DEF Entries
  <2>4. ASSUME NEW x \in Entries(h)
        PROVE  x \in Entries(g)
    <3>1. PICK k \in 1 .. Len(h) : x = h[k]
      BY <1>1 DEF Entries
    <3> QED  BY <1>3, <2>2, <3>1 DEF Entries
  <2> QED  BY <2>3, <2>4
<1>5. ASSUME Once(h)
      PROVE  Once(g)
  BY <1>1, <1>2, <1>3, <1>5 DEF Once
<1> QED  BY <1>3, <1>4, <1>5 DEF Rearranged, g

LEMMA ReordersAfter ==
  ASSUME NEW r, NEW key, NEW g, NEW h, Reorders(r, key, g), Rearranged(g, h)
  PROVE  Reorders(r, key, h)
BY DEF Reorders, Rearranged, Tied

LEMMA DoneReorders ==
  ASSUME NEW key, NEW h \in Seq(Tasks)
  PROVE  Reorders(Done(h), key, h)
BY DEF Reorders, Rearranged, Done

LEMMA RaisedReorders ==
  ASSUME NEW key, NEW h \in Seq(Tasks),
         NEW i \in 1 .. Len(h), NEW j \in 1 .. Len(h), i # j, key[h[i]] = key[h[j]]
  PROVE  Reorders(Raised(h), key, h)
<1>1. DOMAIN h = 1 .. Len(h)
  BY LenProperties
<1>2. ASSUME Once(h)
      PROVE  Tied(key, h)
  <2>1. h[i] # h[j] /\ h[i] \in Entries(h) /\ h[j] \in Entries(h)
    BY <1>1, <1>2 DEF Once, Entries
  <2> QED  BY <2>1 DEF Tied
<1> QED  BY <1>2 DEF Reorders, Rearranged, Raised

LEMMA SiftRearranges ==
  ASSUME NEW key, NEW heap \in Seq(Tasks), NEW pos \in 1 .. Len(heap)
  PROVE  Reorders(Sift(key, heap, pos), key, heap)
<1> DEFINE n == Len(heap)
           Tops(p, h) == p = 1 \/ key[h[p]] > key[h[p \div 2]]
           Ties(p, h) == key[h[p]] = key[h[p \div 2]]
           Step(up, p, h) == IF Tops(p, h) THEN Done(h)
                             ELSE IF Ties(p, h) THEN Raised(h)
                             ELSE up[p \div 2][Swapped(h, p, p \div 2)]
           Solves(f, k) == f = [p \in 1 .. k |-> [h \in Seq(Tasks) |-> Step(f, p, h)]]
           Up == CHOOSE f : Solves(f, n)
<1>t. n \in Nat /\ n >= 1 /\ pos \in 1 .. n
  BY LenProperties
<1>0. Sift(key, heap, pos) = Up[pos][heap]
  BY DEF Sift
<1>1. \A p, h : ~Tops(p, h) => p # 1
  OBVIOUS
<1> HIDE DEF Tops, Ties
<1>2. \A p \in 1 .. n : p # 1 => p \div 2 \in 1 .. p - 1
  BY <1>t
<1> HIDE DEF Step, n
<1>3. ASSUME ~\E f : Solves(f, n)
      PROVE  FALSE
  <2> DEFINE Missing == {k \in 1 .. n : ~\E f : Solves(f, k)}
  <2>1. Missing \in SUBSET Nat /\ n \in Missing
    BY <1>t, <1>3
  <2>2. PICK m \in Missing : \A k \in Missing : m <= k
    BY <2>1, LeastNatural
  <2>3. m \in 1 .. n /\ ~\E f : Solves(f, m)
    OBVIOUS
  <2>4. PICK f : m # 1 => Solves(f, m - 1)
    <3>1. m # 1 => m - 1 \in 1 .. n /\ ~(m <= m - 1)
      BY <1>t, <2>3
    <3>2. m # 1 => \E f : Solves(f, m - 1)
      BY <2>2, <3>1
    <3> HIDE DEF Solves
    <3> QED  BY <3>2
  <2> DEFINE g == [p \in 1 .. m |-> [h \in Seq(Tasks) |-> Step(f, p, h)]]
  <2>5. \A q \in 1 .. m - 1 : g[q] = f[q]
    BY <1>t, <2>3, <2>4
  <2>6. ASSUME NEW p \in 1 .. m, NEW h
        PROVE  Step(g, p, h) = Step(f, p, h)
    <3>1. p \in 1 .. n /\ (p # 1 => p \div 2 \in 1 .. m - 1)
      BY <1>t, <1>2, <2>3
    <3>2. ASSUME p # 1
          PROVE  g[p \div 2] = f[p \div 2]
      <4> HIDE DEF g
      <4> QED  BY <1>t, <2>3, <2>5, <3>1, <3>2
    <3>3. CASE p = 1
      <4>1. Tops(p, h)
        BY <3>3, <1>1
      <4> QED  BY <4>1 DEF Step
    <3> HIDE DEF g
    <3> QED  BY <3>2, <3>3 DEF Step
  <2>7. Solves(g, m)
    BY <2>6
  <2> QED  BY <2>3, <2>7
<1>4. \A p \in 1 .. n, h \in Seq(Tasks) : Up[p][h] = Step(Up, p, h)
  <2>1. Solves(Up, n)
    BY <1>3
  <2> HIDE DEF Up
  <2> QED
    <3> SUFFICES ASSUME NEW p \in 1 .. n, NEW h \in Seq(Tasks)
                 PROVE  Up[p][h] = Step(Up, p, h)
      OBVIOUS
    <3>1. Up[p] = [hh \in Seq(Tasks) |-> Step(Up, p, hh)]
      BY <2>1
    <3> QED  BY <3>1
<1> HIDE DEF Up, Solves
<1> DEFINE Good(p) == \A h \in Seq(Tasks) : Len(h) = n => Reorders(Up[p][h], key, h)
<1>5. ASSUME ~Good(pos)
      PROVE  FALSE
  <2> DEFINE Bad == {p \in 1 .. n : ~Good(p)}
  <2>1. Bad \in SUBSET Nat /\ pos \in Bad
    BY <1>t, <1>5
  <2>2. PICK p \in Bad : \A k \in Bad : p <= k
    BY <2>1, LeastNatural
  <2>3. p \in 1 .. n /\ ~Good(p)
    OBVIOUS
  <2>4. PICK h \in Seq(Tasks) : Len(h) = n /\ ~Reorders(Up[p][h], key, h)
    BY <2>3
  <2>5. CASE Tops(p, h)
    <3>1. Up[p][h] = Done(h)
      BY <1>4, <2>3, <2>5 DEF Step
    <3> QED  BY <2>4, <3>1, DoneReorders
  <2>6. CASE ~Tops(p, h)
    <3> DEFINE q == p \div 2
    <3>1. q \in 1 .. p - 1
      BY <1>1, <1>2, <2>3, <2>6
    <3>2. q \in 1 .. n /\ ~(p <= q)
      BY <1>t, <2>3, <3>1
    <3>r. CASE Ties(p, h)
      <4>1. Up[p][h] = Raised(h)
        BY <1>4, <2>3, <2>6, <3>r DEF Step
      <4>2. p # q /\ key[h[p]] = key[h[q]]
        BY <1>1, <2>6, <3>1, <3>r DEF Ties
      <4> QED  BY <2>3, <2>4, <3>2, <4>1, <4>2, RaisedReorders
    <3>3. Rearranged(Swapped(h, p, q), h)
      BY <2>3, <2>4, <3>2, SwappedRearranged
    <3>4. Good(q)
      BY <2>2, <3>2
    <3>5. Reorders(Up[q][Swapped(h, p, q)], key, Swapped(h, p, q))
      BY <2>4, <3>3, <3>4 DEF Rearranged
    <3>s. CASE ~Ties(p, h)
      <4>1. Up[p][h] = Up[q][Swapped(h, p, q)]
        BY <1>4, <2>3, <2>6, <3>s DEF Step
      <4> QED  BY <2>4, <3>3, <3>5, <4>1, ReordersAfter
    <3> QED  BY <3>r, <3>s
  <2> QED  BY <2>5, <2>6
<1> QED  BY <1>0, <1>5 DEF n

(* What is left of the heap without its last entry, with that one on top.   *)
LEMMA TopReplaced ==
  ASSUME NEW heap \in Seq(Tasks), Len(heap) > 1
  PROVE  LET h == [Front(heap) EXCEPT ![1] = Last(heap)]
         IN /\ h \in Seq(Tasks) /\ Len(h) = Len(heap) - 1 /\ Len(Front(heap)) = Len(h)
            /\ Front(heap) # <<>>
            /\ Once(heap) => Once(h) /\ Entries(h) = Entries(heap) \ {Head(heap)}
<1> DEFINE n == Len(heap) - 1
           h == [Front(heap) EXCEPT ![1] = Last(heap)]
<1>1. /\ n \in Nat /\ n >= 1 /\ Len(heap) = n + 1 /\ DOMAIN heap = 1 .. n + 1
      /\ \A k \in 1 .. n + 1 : heap[k] \in Tasks
  BY LenProperties, ElementOfSeq
<1>2. /\ Front(heap) \in Seq(Tasks) /\ Len(Front(heap)) = n /\ Front(heap) \in [1 .. n -> Tasks]
      /\ \A k \in 1 .. n : Front(heap)[k] = heap[k]
  <2>1. 1 \in Int /\ n \in Int /\ 1 <= n /\ (n - 1) + 1 = n /\ \A k \in 1 .. n : k \in 1 .. n + 1 /\ 1 + k - 1 = k
    BY <1>1
  <2>2. \A k \in 1 .. n : heap[k] \in Tasks
    BY <1>1, <2>1
  <2>3. Front(heap) = SubSeq(heap, 1, n)
    BY DEF Front
  <2> HIDE DEF n
  <2>4. /\ Front(heap) \in Seq(Tasks) /\ Len(Front(heap)) = n
        /\ \A k \in 1 .. n : Front(heap)[k] = heap[k]
    BY <2>1, <2>2, <2>3, SubSeqProperties
  <2> QED  BY <2>4, LenProperties
<1>3. h \in [1 .. n -> Tasks] /\ \A k \in 1 .. n : h[k] = IF k = 1 THEN heap[n + 1] ELSE heap[k]
  BY <1>1, <1>2 DEF Last
<1>4. Head(heap) = heap[1]
  BY <1>1
<1>5. Front(heap) # <<>>
  BY <1>1, <1>2, EmptySeq
<1> HIDE DEF h, n
<1>6. h \in Seq(Tasks) /\ Len(h) = n /\ DOMAIN h = 1 .. n
  BY <1>1, <1>3, SeqDef, LenProperties
<1>7. ASSUME Once(heap)
      PROVE  Once(h) /\ Entries(h) = Entries(heap) \ {Head(heap)}
  <2>1. \A i, j \in 1 .. n + 1 : heap[i] = heap[j] => i = j
    BY <1>1, <1>7 DEF Once
  <2>2. \A i \in 1 .. n : i \in 1 .. n + 1 /\ n + 1 \in 1 .. n + 1 /\ i # n + 1
    BY <1>1
  <2>3. Once(h)
    BY <1>3, <1>6, <2>1, <2>2 DEF Once
  <2>4. ASSUME NEW x \in Entries(h)
        PROVE  x \in Entries(heap) \ {Head(heap)}
    <3>1. PICK k \in 1 .. n : x = h[k]
      BY <1>6 DEF Entries
    <3>2. PICK m \in 1 .. n + 1 : x = heap[m] /\ m # 1
      BY <1>1, <1>3, <2>2, <3>1
    <3>3. heap[m] # heap[1]
      BY <1>1, <2>1, <3>2
    <3> QED  BY <1>1, <1>4, <3>2, <3>3 DEF Entries
  <2>5. ASSUME NEW x \in Entries(heap) \ {Head(heap)}
        PROVE  x \in Entries(h)
    <3>1. PICK m \in 1 .. n + 1 : x = heap[m]
      BY <1>1 DEF Entries
    <3>2. m # 1
      BY <1>4, <3>1
    <3>3. \E k \in 1 .. n : x = h[k]
      <4>1. CASE m = n + 1
        BY <1>1, <1>3, <3>1, <4>1
      <4>2. CASE m # n + 1
        <5>1. m \in 1 .. n
          BY <1>1, <4>2
        <5> QED  BY <1>3, <3>1, <3>2, <5>1
      <4> QED  BY <4>1, <4>2
    <3> QED  BY <1>6, <3>3 DEF Entries
  <2> QED  BY <2>3, <2>4, <2>5
<1> QED  BY <1>1, <1>2, <1>5, <1>6, <1>7 DEF h, n

LEMMA PopTakes ==
  ASSUME NEW key, NEW heap \in Seq(Tasks), heap # <<>>
  PROVE  LET h == Pop(key, heap).heap
         IN /\ h \in Seq(Tasks) /\ Len(h) = Len(heap) - 1
            /\ Once(heap) => /\ Once(h) /\ Entries(h) = Entries(heap) \ {Head(heap)}
                             /\ ~Pop(key, heap).ok => Tied(key, heap)
<1> DEFINE rest == Front(heap)
           n == Len(rest)
           top == [rest EXCEPT ![1] = Last(heap)]
           two(p) == 2 * p + 1 <= n
           Child(p, h) == IF two(p) /\ key[h[2 * p]] >= key[h[2 * p + 1]] THEN 2 * p + 1 ELSE 2 * p
           Ties(p, h) == two(p) /\ key[h[2 * p]] = key[h[2 * p + 1]]
           Step(down, p, h) == IF 2 * p > n THEN Sift(key, h, p)
                               ELSE IF Ties(p, h) THEN Raised(h)
                               ELSE down[Child(p, h)][Swapped(h, p, Child(p, h))]
           Solves(f, k) == f = [p \in k .. n |-> [h \in Seq(Tasks) |-> Step(f, p, h)]]
           Sink == CHOOSE f : Solves(f, 1)
<1>0. Pop(key, heap) = IF rest = <<>> THEN Done(rest) ELSE Sink[1][top]
  BY DEF Pop
<1>1. CASE Len(heap) = 1
  <2>1. heap \in [1 .. 1 -> Tasks] /\ DOMAIN heap = {1} /\ Head(heap) = heap[1]
    BY <1>1, LenProperties
  <2>2. rest = <<>>
    BY <1>1 DEF Front
  <2>3. Pop(key, heap).heap = <<>> /\ Pop(key, heap).ok
    BY <1>0, <2>2 DEF Done
  <2>4. Entries(heap) = {heap[1]}
    BY <2>1 DEF Entries
  <2>5. <<>> \in Seq(Tasks) /\ Len(<<>>) = 0 /\ DOMAIN <<>> = {}
    OBVIOUS
  <2>6. Once(<<>>) /\ Entries(<<>>) = {}
    BY <2>5 DEF Once, Entries
  <2> QED  BY <1>1, <2>1, <2>3, <2>4, <2>5, <2>6
<1>2. CASE Len(heap) > 1
  <2>l. Len(heap) \in Nat
    BY LenProperties
  <2>t. /\ n \in Nat /\ n >= 1 /\ Len(heap) = n + 1 /\ rest # <<>>
        /\ top \in Seq(Tasks) /\ Len(top) = n
        /\ Once(heap) => Once(top) /\ Entries(top) = Entries(heap) \ {Head(heap)}
    <3>1. /\ top \in Seq(Tasks) /\ Len(top) = Len(heap) - 1 /\ n = Len(top) /\ rest # <<>>
          /\ Once(heap) => Once(top) /\ Entries(top) = Entries(heap) \ {Head(heap)}
      BY <1>2, TopReplaced
    <3> HIDE DEF rest, n, top
    <3> QED  BY <1>2, <2>l, <3>1
  <2>0. Pop(key, heap) = Sink[1][top]
    BY <1>0, <2>t
  <2>1. \A h : \A p \in 1 .. n : ~(2 * p > n) => Child(p, h) \in p + 1 .. n
    BY <2>t
  <2> HIDE DEF rest, n, top, two, Child, Ties, Sink
  <2> SUFFICES Reorders(Sink[1][top], key, top)
    BY <2>t, <2>0 DEF Reorders, Rearranged, Tied
  <2> USE DEF Sink
  <2> HIDE DEF Step
  <2>2. ASSUME ~\E f : Solves(f, 1)
        PROVE  FALSE
    <3> DEFINE Missing == {k \in 0 .. n - 1 : ~\E f : Solves(f, n - k)}
    <3>1. Missing \in SUBSET Nat /\ n - 1 \in Missing
      <4>1. n - 1 \in 0 .. n - 1 /\ n - (n - 1) = 1 /\ 0 .. n - 1 \subseteq Nat
        BY <2>t
      <4> HIDE DEF Solves
      <4> QED  BY <2>2, <4>1
    <3>2. PICK k \in Missing : \A j \in Missing : k <= j
      BY <3>1, LeastNatural
    <3> DEFINE m == n - k
    <3>3. m \in 1 .. n /\ ~(\E f : Solves(f, m)) /\ k \in 0 .. n - 1
      BY <2>t
    <3>4. PICK f : m # n => Solves(f, m + 1)
      <4>1. m # n => k - 1 \in 0 .. n - 1 /\ ~(k <= k - 1) /\ n - (k - 1) = m + 1
        BY <2>t, <3>3
      <4> HIDE DEF Solves, m
      <4>2. m # n => \E f : Solves(f, m + 1)
        BY <3>2, <4>1
      <4> QED  BY <4>2
    <3> HIDE DEF m
    <3> DEFINE g == [p \in m .. n |-> [h \in Seq(Tasks) |-> Step(f, p, h)]]
    <3>5. \A q \in m + 1 .. n : g[q] = f[q]
      BY <2>t, <3>3, <3>4
    <3>6. ASSUME NEW p \in m .. n, NEW h
          PROVE  Step(g, p, h) = Step(f, p, h)
      <4>1. p \in 1 .. n
        BY <2>t, <3>3
      <4>2. ASSUME ~(2 * p > n)
            PROVE  g[Child(p, h)] = f[Child(p, h)]
        <5>1. Child(p, h) \in m + 1 .. n
          BY <2>t, <2>1, <3>3, <4>1, <4>2
        <5> HIDE DEF g
        <5> QED  BY <3>5, <5>1
      <4> HIDE DEF g
      <4> QED  BY <4>2 DEF Step
    <3>7. Solves(g, m)
      BY <3>6
    <3> QED  BY <3>3, <3>7
  <2>3. \A p \in 1 .. n, h \in Seq(Tasks) : Sink[p][h] = Step(Sink, p, h)
    <3>1. Solves(Sink, 1)
      BY <2>2
    <3> HIDE DEF Sink
    <3> SUFFICES ASSUME NEW p \in 1 .. n, NEW h \in Seq(Tasks)
                 PROVE  Sink[p][h] = Step(Sink, p, h)
      OBVIOUS
    <3>2. Sink[p] = [hh \in Seq(Tasks) |-> Step(Sink, p, hh)]
      BY <3>1
    <3> QED  BY <3>2
  <2> HIDE DEF Sink, Solves
  <2> DEFINE Good(p) == \A h \in Seq(Tasks) : Len(h) = n => Reorders(Sink[p][h], key, h)
  <2>4. ASSUME ~Good(1)
        PROVE  FALSE
    <3> DEFINE Bad == {k \in 0 .. n - 1 : ~Good(n - k)}
    <3>1. Bad \in SUBSET Nat /\ n - 1 \in Bad
      <4>1. n - 1 \in 0 .. n - 1 /\ n - (n - 1) = 1 /\ 0 .. n - 1 \subseteq Nat
        BY <2>t
      <4> HIDE DEF Good
      <4> QED  BY <2>4, <4>1
    <3>2. PICK k \in Bad : \A j \in Bad : k <= j
      BY <3>1, LeastNatural
    <3> DEFINE p == n - k
    <3>3. p \in 1 .. n /\ ~Good(p) /\ k \in 0 .. n - 1
      BY <2>t
    <3>4. \A q \in p + 1 .. n : Good(q)
      <4> SUFFICES ASSUME NEW q \in p + 1 .. n
                   PROVE  Good(q)
        OBVIOUS
      <4>1. n - q \in 0 .. n - 1 /\ ~(k <= n - q) /\ n - (n - q) = q
        BY <2>t, <3>3
      <4> HIDE DEF Good, p
      <4> QED  BY <3>2, <4>1
    <3> HIDE DEF p
    <3>5. PICK h \in Seq(Tasks) : Len(h) = n /\ ~Reorders(Sink[p][h], key, h)
      BY <3>3
    <3>6. CASE 2 * p > n
      <4>1. Sink[p][h] = Sift(key, h, p)
        BY <2>3, <3>3, <3>6 DEF Step
      <4> QED  BY <3>3, <3>5, <4>1, SiftRearranges
    <3>7. CASE ~(2 * p > n) /\ Ties(p, h)
      <4>1. Sink[p][h] = Raised(h)
        BY <2>3, <3>3, <3>7 DEF Step
      <4>2. /\ 2 * p \in 1 .. n /\ 2 * p + 1 \in 1 .. n /\ 2 * p # 2 * p + 1
            /\ key[h[2 * p]] = key[h[2 * p + 1]]
        BY <2>t, <3>3, <3>7 DEF Ties, two
      <4> QED  BY <3>5, <4>1, <4>2, RaisedReorders
    <3>8. CASE ~(2 * p > n) /\ ~Ties(p, h)
      <4> DEFINE c == Child(p, h)
      <4>1. c \in p + 1 .. n
        BY <2>1, <3>3, <3>8
      <4>2. c \in 1 .. n
        BY <2>t, <3>3, <4>1
      <4>3. Rearranged(Swapped(h, p, c), h)
        BY <3>3, <3>5, <4>2, SwappedRearranged
      <4>4. Good(c)
        BY <3>4, <4>1
      <4>5. Reorders(Sink[c][Swapped(h, p, c)], key, Swapped(h, p, c))
        BY <3>5, <4>3, <4>4 DEF Rearranged
      <4>6. Sink[p][h] = Sink[c][Swapped(h, p, c)]
        BY <2>3, <3>3, <3>8 DEF Step
      <4> QED  BY <3>5, <4>3, <4>5, <4>6, ReordersAfter
    <3> QED  BY <3>6, <3>7, <3>8
  <2> QED  BY <2>t, <2>4
<1>3. Len(heap) = 1 \/ Len(heap) > 1
  <2>1. Len(heap) \in Nat /\ Len(heap) # 0
    BY LenProperties, EmptySeq
  <2>2. \A m \in Nat : m # 0 => m = 1 \/ m > 1
    OBVIOUS
  <2> QED  BY <2>1, <2>2, Zenon
<1> QED  BY <1>1, <1>2, <1>3

LEMMA PushAdds ==
  ASSUME NEW key, NEW heap \in Seq(Tasks), NEW t \in Tasks
  PROVE  LET h == Push(key, heap, t).heap
         IN /\ h \in Seq(Tasks) /\ Len(h) = Len(heap) + 1
            /\ Entries(h) = Entries(heap) \cup {t}
            /\ Once(heap) /\ t \notin Entries(heap) => Once(h)
<1> DEFINE g == Append(heap, t)
           n == Len(heap)
<1>1. /\ n \in Nat /\ DOMAIN heap = 1 .. n
      /\ g \in Seq(Tasks) /\ Len(g) = n + 1 /\ DOMAIN g = 1 .. n + 1
      /\ g[n + 1] = t /\ \A k \in 1 .. n : g[k] = heap[k]
  BY LenProperties, AppendProperties
<1> HIDE DEF g, n
<1>2. n + 1 \in 1 .. Len(g) /\ \A k \in 1 .. n + 1 : k \in 1 .. n \/ k = n + 1
  BY <1>1
<1>3. Rearranged(Push(key, heap, t).heap, g)
  BY <1>1, <1>2, SiftRearranges DEF Push, Reorders, g, n
<1>4. Entries(g) = Entries(heap) \cup {t}
  <2>1. ASSUME NEW x \in Entries(g)
        PROVE  x \in Entries(heap) \cup {t}
    <3>1. PICK k \in 1 .. n + 1 : x = g[k]
      BY <1>1 DEF Entries
    <3> QED  BY <1>1, <1>2, <3>1 DEF Entries
  <2>2. ASSUME NEW x \in Entries(heap) \cup {t}
        PROVE  x \in Entries(g)
    <3>1. \E k \in 1 .. n + 1 : x = g[k]
      <4>1. CASE x = t
        BY <1>1, <4>1
      <4>2. CASE x # t
        <5>1. PICK k \in 1 .. n : x = heap[k]
          BY <1>1, <4>2 DEF Entries
        <5> QED  BY <1>1, <5>1
      <4> QED  BY <4>1, <4>2
    <3> QED  BY <1>1, <3>1 DEF Entries
  <2> QED  BY <2>1, <2>2
<1>5. ASSUME Once(heap), t \notin Entries(heap)
      PROVE  Once(g)
  <2>1. \A k \in 1 .. n : heap[k] # t
    BY <1>1, <1>5 DEF Entries
  <2> QED  BY <1>1, <1>2, <1>5, <2>1 DEF Once
<1> QED  BY <1>1, <1>3, <1>4, <1>5 DEF Rearranged, n

-----------------------------------------------------------------------------
(* The inductive invariant.                                                 *)

Holding == {"delayed", "run", "pause"}
Busy == {"run", "pause"}

(* A worker has a task while it waits with one, and no attempt too many     *)
(* behind it when it pauses.                                                *)
HoldsOrNot ==
  \A w \in Workers :
    /\ worker[w].task \in Tasks <=> worker[w].st \in Holding
    /\ worker[w].st = "pause" => worker[w].attempt < MaxAttempts

TypeInv == TypeOK /\ HoldsOrNot

Joining == {"stop", "cancelling", "interrupted"}
Unborn(d) == init[d] \in {"new", "adding"}

(* Before its workers are started a device has nothing at all, and its      *)
(* handler is registered with them.                                         *)
NothingBeforeStart ==
  \A d \in Devices :
    Unborn(d) =>
      /\ d \notin Entries(handlers)
      /\ pool[d] = "open" /\ ~is_running[d] /\ processing_tasks[d] = {}
      /\ \A w \in WorkersOf(d) : worker[w].st = "none" /\ ~worker[w].cancel

(* The cleanup of initialize runs after a failed test, the handlers run one *)
(* after the other, each once, and after a force none runs.                 *)
RunsInOrder ==
  /\ \A d \in Devices : run[<<"init", d>>] # "none" => init[d] \in {"failing", "failed", "cancelled"}
  /\ Once(handlers) /\ Once(todo) /\ Entries(todo) \subseteq Entries(handlers)
  /\ phase = "starting" => \A d \in Devices : run[<<"handler", d>>] = "none"
  /\ phase = "cleanup" =>
       /\ todo # <<>>
       /\ \A i \in DOMAIN todo : i # 1 => run[<<"handler", todo[i]>>] = "none"
  /\ \A d \in Devices : run[<<"handler", d>>] \notin {"none", "done"} =>
       phase = "cleanup" /\ d = todo[1]
  /\ Forced => /\ \A k \in Runs : run[k] \in {"none", "done"}
               /\ \A d \in Devices : init[d] \notin {"adding", "testing", "failing"}

(* A call that has come to the queue has stopped it, and what is stopped    *)
(* with work in hand is waited for.                                         *)
StoppedIsJoined ==
  /\ \A k \in Runs : run[k] \in Joining \cup {"close"} => ~is_running[k[2]]
  /\ \A d \in Devices : pool[d] # "open" => ~is_running[d]
  /\ \A d \in Devices : ~is_running[d] /\ ~AllEnded(d) /\ ~Forced =>
       \E k \in Runs : k[2] = d /\ run[k] \in Joining

(* What a device that is up has, until its handler comes to it.             *)
UpIsRunning ==
  \A d \in Devices :
    /\ init[d] \in {"testing", "up"} => d \in Entries(handlers)
    /\ init[d] = "up" => heartbeat[d] # "none"
    /\ init[d] \in {"testing", "up"} /\ run[<<"handler", d>>] \in {"none", "heartbeat"} => is_running[d]

Clean(d) == AllEnded(d) /\ heartbeat[d] \in {"none", "ended"} /\ pool[d] = "closed"

(* The devices of the signal are cleaned up or still to be.                 *)
ReadyIsCleaned ==
  \A d \in ready :
    /\ phase # "starting" /\ init[d] = "up"
    /\ run[<<"handler", d>>] \in Joining \cup {"close"} => heartbeat[d] = "ended"
    /\ run[<<"handler", d>>] = "close" => AllEnded(d)
    /\ phase = "cleanup" => d \in Entries(todo) \/ Clean(d)
    /\ phase = "completed" => Clean(d)

HandlerInv == NothingBeforeStart /\ RunsInOrder /\ StoppedIsJoined /\ UpIsRunning /\ ReadyIsCleaned

(* A task is with its device, and nowhere before it is put.                 *)
Unput(t) == client[t] \in {"idle", "put"} \/ completed_tasks[t] # "none"
Places ==
  /\ \A d \in Devices : Once(pending_tasks[d])
  /\ \A d \in Devices : \A t \in Entries(pending_tasks[d]) : DeviceOf[t] = d /\ ~Unput(t)
  /\ \A w \in Workers : worker[w].task \in Tasks =>
       /\ DeviceOf[worker[w].task] = Of(w) /\ ~Unput(worker[w].task)
       /\ worker[w].task \notin Entries(pending_tasks[Of(w)])
       /\ \A v \in Workers : worker[v].task = worker[w].task => v = w
  /\ \A t \in Tasks : completed_tasks[t] # "none" => client[t] \notin {"idle", "put"}

(* Nothing is cancelled in a queue that runs.                               *)
CancelledIsStopped ==
  \A w \in Workers : worker[w].cancel => ~is_running[Of(w)] \/ Forced

(* What is executed is in the table, and what else is there is a leftover   *)
(* of a queue that was stopped.                                             *)
TableFollows ==
  \A d \in Devices :
    /\ Executing(d) \subseteq processing_tasks[d]
    /\ processing_tasks[d] # Executing(d) => ~is_running[d] \/ Forced

(* What is in the table has been put, has no result, does not wait and is   *)
(* held by nobody who does not execute it.                                  *)
Recorded ==
  \A d \in Devices : \A t \in processing_tasks[d] :
    /\ DeviceOf[t] = d /\ ~Unput(t)
    /\ t \notin Entries(pending_tasks[d])
    /\ \A w \in Workers : worker[w].task = t => worker[w].st \in Busy

TaskInv == Places /\ CancelledIsStopped /\ TableFollows /\ Recorded

-----------------------------------------------------------------------------
(* Type correctness.                                                        *)

LEMMA Owners ==
  /\ \A w \in Workers : Of(w) \in Devices
  /\ \A k \in Runs : k[2] \in Devices /\ k = <<k[1], k[2]>> /\ k[1] \in {"init", "handler"}
  /\ \A d \in Devices : <<"init", d>> \in Runs /\ <<"handler", d>> \in Runs
BY DEF Workers, Of, Runs

LEMMA IdleRecords ==
  /\ Waiting \in Worker /\ Waiting.st = "get" /\ Waiting.task \notin Tasks /\ ~Waiting.cancel
  /\ Ended \in Worker /\ Ended.st = "ended" /\ Ended.task \notin Tasks /\ ~Ended.cancel
<1>1. MaxAttempts \in Nat /\ 0 \in 0 .. MaxAttempts /\ NoTask \notin Tasks
  BY QueueAssumption
<1>2. Waiting \in Worker /\ Waiting.st = "get" /\ Waiting.task \notin Tasks /\ ~Waiting.cancel
  BY <1>1 DEF Waiting, Worker
<1>3. Ended \in Worker /\ Ended.st = "ended" /\ Ended.task = Waiting.task /\ ~Ended.cancel
  BY <1>2 DEF Ended, Worker
<1> QED  BY <1>2, <1>3

LEMMA RunRecord ==
  ASSUME NEW r \in Worker, NEW t \in Tasks
  PROVE  LET a == [r EXCEPT !.st = "run", !.task = t, !.attempt = 1, !.cancel = FALSE]
         IN a \in Worker /\ a.st = "run" /\ a.task = t /\ ~a.cancel
<1>1. 1 \in 0 .. MaxAttempts
  BY QueueAssumption
<1> QED  BY <1>1 DEF Worker

LEMMA DelayedRecord ==
  ASSUME NEW r \in Worker, NEW t \in Tasks
  PROVE  LET b == [r EXCEPT !.st = "delayed", !.task = t, !.cancel = FALSE]
         IN b \in Worker /\ b.st = "delayed" /\ b.task = t /\ ~b.cancel
BY DEF Worker

LEMMA ChangedRecords ==
  ASSUME NEW r \in Worker
  PROVE  LET c == [r EXCEPT !.st = "pause", !.cancel = FALSE]
             e == [r EXCEPT !.cancel = TRUE]
         IN /\ c \in Worker /\ c.st = "pause" /\ c.task = r.task /\ ~c.cancel
            /\ c.attempt = r.attempt
            /\ e \in Worker /\ e.st = r.st /\ e.task = r.task /\ e.attempt = r.attempt /\ e.cancel
BY DEF Worker

LEMMA RetriedRecord ==
  ASSUME NEW r \in Worker, r.attempt < MaxAttempts
  PROVE  LET f == [r EXCEPT !.st = "run", !.attempt = @ + 1]
         IN f \in Worker /\ f.st = "run" /\ f.task = r.task /\ f.cancel = r.cancel
<1>1. r.attempt \in 0 .. MaxAttempts /\ r.attempt + 1 \in 0 .. MaxAttempts
  <2>1. r.attempt \in 0 .. MaxAttempts /\ MaxAttempts \in Nat
    BY QueueAssumption DEF Worker
  <2> QED  BY <2>1
<1> QED  BY <1>1 DEF Worker

(* What put() and get() do to a heap.                                       *)
OneMore(g, h, t) ==
  /\ g \in Seq(Tasks) /\ Len(g) = Len(h) + 1 /\ Entries(g) = Entries(h) \cup {t}
  /\ Once(h) /\ t \notin Entries(h) => Once(g)

LEMMA PutsTask ==
  ASSUME TypeInv, NEW t \in Tasks, NEW key, Puts(t, key)
  PROVE  LET d == DeviceOf[t] IN
           \/ pending_tasks' = pending_tasks /\ client' = [client EXCEPT ![t] = "put"]
           \/ /\ \E h : OneMore(h, pending_tasks[d], t) /\ pending_tasks' = [pending_tasks EXCEPT ![d] = h]
              /\ Len(pending_tasks[d]) < MaxQueueSize
              /\ \E c \in {"poll", "over"} : client' = [client EXCEPT ![t] = c]
<1> DEFINE d == DeviceOf[t]
           pushed == Push(key, pending_tasks[d], t)
<1>1. d \in Devices /\ pending_tasks[d] \in Seq(Tasks) /\ MaxQueueSize \in Nat
  BY QueueAssumption DEF TypeInv, TypeOK, QueueTypeOK
<1>2. OneMore(pushed.heap, pending_tasks[d], t)
  BY <1>1, PushAdds DEF OneMore
<1>3. Len(pending_tasks[d]) \in Nat
  BY <1>1, LenProperties
<1> HIDE DEF pushed
<1> QED  BY <1>1, <1>2, <1>3 DEF Puts, Full, pushed

LEMMA TakenTask ==
  ASSUME TypeInv, NEW w \in Workers, pending_tasks[Of(w)] # <<>>
  PROVE  LET h == pending_tasks[Of(w)]
             p == Pop(scheduled_at, h)
         IN /\ h \in Seq(Tasks) /\ Head(h) \in Tasks /\ Head(h) \in Entries(h)
            /\ p.heap \in Seq(Tasks) /\ Len(p.heap) = Len(h) - 1
            /\ Once(h) => /\ Once(p.heap) /\ Entries(p.heap) = Entries(h) \ {Head(h)}
                          /\ ~p.ok => Tied(scheduled_at, h)
<1>1. Of(w) \in Devices /\ pending_tasks[Of(w)] \in Seq(Tasks)
  BY Owners DEF TypeInv, TypeOK, QueueTypeOK
<1>2. \A h \in Seq(Tasks) : h # <<>> => Head(h) \in Tasks /\ Head(h) \in Entries(h)
  <2> SUFFICES ASSUME NEW h \in Seq(Tasks), h # <<>>
               PROVE  Head(h) \in Tasks /\ Head(h) \in Entries(h)
    OBVIOUS
  <2>1. Len(h) \in Nat /\ Len(h) # 0 /\ DOMAIN h = 1 .. Len(h)
    BY LenProperties, EmptySeq
  <2>2. \A m \in Nat : m # 0 => 1 \in 1 .. m
    OBVIOUS
  <2>3. 1 \in DOMAIN h /\ Head(h) = h[1]
    BY <2>1, <2>2
  <2> QED  BY <2>1, <2>3, ElementOfSeq DEF Entries
<1> QED  BY <1>1, <1>2, PopTakes

(* A change of worker w alone keeps what TypeInv says of the workers.       *)
LEMMA OneWorker ==
  ASSUME TypeInv, NEW w \in Workers, NEW r \in Worker, worker' = [worker EXCEPT ![w] = r],
         r.task \in Tasks <=> r.st \in Holding, r.st = "pause" => r.attempt < MaxAttempts
  PROVE  worker' \in [Workers -> Worker] /\ HoldsOrNot'
BY DEF TypeInv, TypeOK, QueueTypeOK, HoldsOrNot

LEMMA TurnTypes ==
  ASSUME TypeInv, NEW w \in Workers, NEW b, Turn(w, b)
  PROVE  worker' \in [Workers -> Worker] /\ HoldsOrNot'
<1>1. PICK r \in {Waiting, Ended} : worker' = [worker EXCEPT ![w] = r]
  BY DEF Turn
<1>2. r \in Worker /\ r.task \notin Tasks /\ r.st \notin Holding /\ r.st # "pause"
  BY <1>1, IdleRecords DEF Holding
<1> QED  BY <1>1, <1>2, OneWorker

LEMMA ExecutesTypes ==
  ASSUME TypeInv, NEW w \in Workers, NEW t \in Tasks, Executes(w, t)
  PROVE  worker' \in [Workers -> Worker] /\ HoldsOrNot' /\ processing_tasks' \in [Devices -> SUBSET Tasks]
<1> DEFINE r == [worker[w] EXCEPT !.st = "run", !.task = t, !.attempt = 1, !.cancel = FALSE]
<1>1. worker[w] \in Worker /\ worker' = [worker EXCEPT ![w] = r]
  BY DEF TypeInv, TypeOK, QueueTypeOK, Executes
<1>2. r \in Worker /\ r.task \in Tasks /\ r.st = "run"
  <2>1. r \in Worker /\ r.st = "run" /\ r.task = t /\ ~r.cancel
    BY <1>1, RunRecord, Zenon
  <2> QED  BY <2>1
<1> HIDE DEF r
<1>3. worker' \in [Workers -> Worker] /\ HoldsOrNot'
  BY <1>1, <1>2, OneWorker DEF Holding
<1>4. processing_tasks' \in [Devices -> SUBSET Tasks]
  BY Owners DEF TypeInv, TypeOK, QueueTypeOK, Executes
<1> QED  BY <1>3, <1>4

LEMMA ClientTypes ==
  ASSUME TypeInv, NEW t \in Tasks, Enqueue(t) \/ PutGoesOn(t) \/ GetsResult(t)
  PROVE  QueueTypeOK' /\ HoldsOrNot'
<1> USE DEF TypeInv, TypeOK
<1>1. ASSUME Enqueue(t) \/ PutGoesOn(t)
      PROVE  scheduled_at' \in [Tasks -> 0 .. MaxTick] /\ \E key : Puts(t, key)
  <2>1. CASE Enqueue(t)
    <3>1. PICK delay \in {n \in Delays : now + n <= MaxTick} :
            /\ scheduled_at' = [scheduled_at EXCEPT ![t] = now + delay]
            /\ Puts(t, [scheduled_at EXCEPT ![t] = now + delay])
      BY <2>1 DEF Enqueue
    <3>2. now + delay \in 0 .. MaxTick
      BY <3>1, QueueAssumption DEF QueueTypeOK
    <3> QED  BY <3>1, <3>2 DEF QueueTypeOK
  <2>2. CASE PutGoesOn(t)
    BY <2>2 DEF PutGoesOn, QueueTypeOK
  <2> QED  BY <1>1, <2>1, <2>2
<1>2. ASSUME NEW key, Puts(t, key)
      PROVE  /\ pending_tasks' \in [Devices -> Seq(Tasks)]
             /\ \A d \in Devices : Len(pending_tasks'[d]) <= MaxQueueSize
             /\ client' \in [Tasks -> ClientStates]
  <2>1. CASE pending_tasks' = pending_tasks /\ client' = [client EXCEPT ![t] = "put"]
    BY <2>1 DEF QueueTypeOK, ClientStates
  <2>2. CASE /\ \E h : OneMore(h, pending_tasks[DeviceOf[t]], t)
                       /\ pending_tasks' = [pending_tasks EXCEPT ![DeviceOf[t]] = h]
             /\ Len(pending_tasks[DeviceOf[t]]) < MaxQueueSize
             /\ \E c \in {"poll", "over"} : client' = [client EXCEPT ![t] = c]
    <3>1. PICK h : /\ h \in Seq(Tasks) /\ Len(h) = Len(pending_tasks[DeviceOf[t]]) + 1
                   /\ pending_tasks' = [pending_tasks EXCEPT ![DeviceOf[t]] = h]
      BY <2>2 DEF OneMore
    <3>2. Len(h) <= MaxQueueSize
      <4>1. Len(pending_tasks[DeviceOf[t]]) \in Nat /\ MaxQueueSize \in Nat
        BY QueueAssumption, LenProperties DEF QueueTypeOK
      <4>2. \A m, n \in Nat : m < n => m + 1 <= n
        OBVIOUS
      <4> QED  BY <2>2, <3>1, <4>1, <4>2, Zenon
    <3>3. client' \in [Tasks -> ClientStates]
      BY <2>2 DEF QueueTypeOK, ClientStates
    <3>4. pending_tasks' \in [Devices -> Seq(Tasks)]
      BY <3>1 DEF QueueTypeOK
    <3>5. \A d \in Devices : pending_tasks'[d] = IF d = DeviceOf[t] THEN h ELSE pending_tasks[d]
      BY <3>1 DEF QueueTypeOK
    <3> QED  BY <3>2, <3>3, <3>4, <3>5 DEF QueueTypeOK
  <2> QED  BY <1>2, <2>1, <2>2, PutsTask
<1>3. CASE Enqueue(t) \/ PutGoesOn(t)
  BY <1>1, <1>2, <1>3 DEF Enqueue, PutGoesOn, QueueTypeOK, HoldsOrNot
<1>4. CASE GetsResult(t)
  BY <1>4 DEF GetsResult, QueueTypeOK, ClientStates, HoldsOrNot
<1> QED  BY <1>3, <1>4

LEMMA FinishTypes ==
  ASSUME TypeInv, NEW w \in Workers, NEW status \in Statuses, Stores(w, status)
  PROVE  completed_tasks' \in [Tasks -> Statuses] /\ processing_tasks' \in [Devices -> SUBSET Tasks]
BY Owners DEF TypeInv, TypeOK, QueueTypeOK, Stores

LEMMA WorkerTypes ==
  ASSUME TypeInv, NEW w \in Workers,
         \/ Takes(w) \/ PutsBack(w) \/ IdleEnds(w) \/ Succeeds(w)
         \/ Fails(w) \/ Retries(w) \/ Cancelled(w)
  PROVE  QueueTypeOK' /\ HoldsOrNot'
<1>t. QueueTypeOK /\ HoldsOrNot /\ worker[w] \in Worker /\ Of(w) \in Devices
  BY Owners DEF TypeInv, TypeOK, QueueTypeOK
<1>h. ASSUME NEW h \in Seq(Tasks), Len(h) <= MaxQueueSize,
             pending_tasks' = [pending_tasks EXCEPT ![Of(w)] = h]
      PROVE  /\ pending_tasks' \in [Devices -> Seq(Tasks)]
             /\ \A d \in Devices : Len(pending_tasks'[d]) <= MaxQueueSize
  <2>1. \A d \in Devices : pending_tasks'[d] = IF d = Of(w) THEN h ELSE pending_tasks[d]
    BY <1>t, <1>h DEF QueueTypeOK
  <2> QED  BY <1>t, <1>h, <2>1 DEF QueueTypeOK
<1>l. MaxQueueSize \in Nat /\ Len(pending_tasks[Of(w)]) \in Nat /\ Len(pending_tasks[Of(w)]) <= MaxQueueSize
  BY <1>t, QueueAssumption, LenProperties DEF QueueTypeOK
<1>n. /\ \A m, n \in Nat : m <= n => m - 1 <= n
      /\ \A m, n \in Nat : ~(m >= n) => m + 1 <= n
  OBVIOUS
<1>1. CASE Takes(w)
  <2> DEFINE h == pending_tasks[Of(w)]
             p == Pop(scheduled_at, h)
             t == Head(h)
  <2>1. p.heap \in Seq(Tasks) /\ Len(p.heap) = Len(h) - 1 /\ t \in Tasks
    BY <1>1, TakenTask DEF Takes
  <2>2. /\ pending_tasks' \in [Devices -> Seq(Tasks)]
        /\ \A d \in Devices : Len(pending_tasks'[d]) <= MaxQueueSize
    <3>1. Len(p.heap) <= MaxQueueSize
      BY <1>l, <1>n, <2>1, Zenon
    <3>2. pending_tasks' = [pending_tasks EXCEPT ![Of(w)] = p.heap]
      BY <1>1 DEF Takes
    <3> HIDE DEF p
    <3> QED  BY <1>h, <2>1, <3>1, <3>2
  <2> HIDE DEF p
  <2>3. /\ worker' \in [Workers -> Worker] /\ HoldsOrNot'
        /\ processing_tasks' \in [Devices -> SUBSET Tasks]
    <3>1. CASE ~p.ok
      BY <1>1, <1>t, <3>1, TurnTypes DEF Takes, QueueTypeOK, p
    <3>2. CASE p.ok /\ scheduled_at[t] > now
      <4> DEFINE r == [worker[w] EXCEPT !.st = "delayed", !.task = t, !.cancel = FALSE]
      <4>1. worker' = [worker EXCEPT ![w] = r] /\ UNCHANGED processing_tasks
        BY <1>1, <3>2 DEF Takes, p
      <4>2. r \in Worker /\ r.st = "delayed" /\ r.task = t /\ ~r.cancel
        BY <1>t, <2>1, DelayedRecord, Zenon
      <4> HIDE DEF r
      <4> QED  BY <1>t, <2>1, <4>1, <4>2, OneWorker DEF Holding, QueueTypeOK
    <3>3. CASE p.ok /\ ~(scheduled_at[t] > now)
      <4>1. Executes(w, t)
        BY <1>1, <3>3 DEF Takes, p
      <4> QED  BY <2>1, <4>1, ExecutesTypes
    <3> QED  BY <3>1, <3>2, <3>3
  <2> QED  BY <1>t, <1>1, <2>2, <2>3 DEF Takes, QueueTypeOK
<1>2. CASE PutsBack(w)
  <2> DEFINE h == Push(scheduled_at, pending_tasks[Of(w)], worker[w].task).heap
  <2>1. h \in Seq(Tasks) /\ Len(h) = Len(pending_tasks[Of(w)]) + 1
    <3>1. worker[w].task \in Tasks
      BY <1>t, <1>2 DEF PutsBack, HoldsOrNot, Holding
    <3>2. pending_tasks[Of(w)] \in Seq(Tasks)
      BY <1>t DEF QueueTypeOK
    <3> QED  BY <3>1, <3>2, PushAdds
  <2>2. Len(h) <= MaxQueueSize
    BY <1>2, <1>l, <1>n, <2>1 DEF PutsBack, Full
  <2>3. pending_tasks' = [pending_tasks EXCEPT ![Of(w)] = h]
    BY <1>2 DEF PutsBack
  <2>4. worker' \in [Workers -> Worker] /\ HoldsOrNot'
    BY <1>2, TurnTypes DEF PutsBack
  <2> HIDE DEF h
  <2>5. /\ pending_tasks' \in [Devices -> Seq(Tasks)]
        /\ \A d \in Devices : Len(pending_tasks'[d]) <= MaxQueueSize
    BY <1>h, <2>1, <2>2, <2>3
  <2> QED  BY <1>t, <1>2, <2>4, <2>5 DEF PutsBack, QueueTypeOK
<1>3. CASE IdleEnds(w)
  BY <1>t, <1>3, TurnTypes DEF IdleEnds, QueueTypeOK
<1>4. ASSUME NEW status \in Statuses, Finishes(w, status)
      PROVE  QueueTypeOK' /\ HoldsOrNot'
  BY <1>t, <1>4, TurnTypes, FinishTypes DEF Finishes, QueueTypeOK
<1>5. CASE Succeeds(w)
  BY <1>4, <1>5 DEF Succeeds, Statuses
<1>6. CASE Fails(w)
  <2>1. CASE worker[w].attempt < MaxAttempts
    <3> DEFINE r == [worker[w] EXCEPT !.st = "pause", !.cancel = FALSE]
    <3>1. worker' = [worker EXCEPT ![w] = r]
      BY <1>6, <2>1 DEF Fails
    <3>2. r \in Worker /\ r.st = "pause" /\ r.task = worker[w].task /\ r.attempt = worker[w].attempt
      BY <1>t, ChangedRecords
    <3>3. worker[w].task \in Tasks
      BY <1>t, <1>6 DEF Fails, HoldsOrNot, Holding
    <3> HIDE DEF r
    <3>4. worker' \in [Workers -> Worker] /\ HoldsOrNot'
      BY <2>1, <3>1, <3>2, <3>3, OneWorker DEF Holding
    <3> QED  BY <1>t, <1>6, <2>1, <3>4 DEF Fails, QueueTypeOK
  <2>2. CASE ~(worker[w].attempt < MaxAttempts)
    BY <1>4, <1>6, <2>2 DEF Fails, Statuses
  <2> QED  BY <2>1, <2>2
<1>7. CASE Retries(w)
  <2> DEFINE r == [worker[w] EXCEPT !.st = "run", !.attempt = @ + 1]
  <2>1. worker' = [worker EXCEPT ![w] = r]
    BY <1>7, <1>t DEF Retries, QueueTypeOK
  <2>2. worker[w].task \in Tasks /\ worker[w].attempt < MaxAttempts
    BY <1>t, <1>7 DEF Retries, HoldsOrNot, Holding
  <2>3. r \in Worker /\ r.st = "run" /\ r.task = worker[w].task
    BY <1>t, <2>2, RetriedRecord
  <2> HIDE DEF r
  <2>4. worker' \in [Workers -> Worker] /\ HoldsOrNot'
    BY <2>1, <2>2, <2>3, OneWorker DEF Holding
  <2> QED  BY <1>t, <1>7, <2>4 DEF Retries, QueueTypeOK
<1>8. CASE Cancelled(w)
  <2>1. worker' \in [Workers -> Worker] /\ HoldsOrNot'
    BY <1>8, TurnTypes DEF Cancelled
  <2>2. completed_tasks' \in [Tasks -> Statuses] /\ processing_tasks' \in [Devices -> SUBSET Tasks]
    BY <1>t, <1>8, FinishTypes DEF Cancelled, Statuses, QueueTypeOK
  <2> QED  BY <1>t, <1>8, <2>1, <2>2 DEF Cancelled, QueueTypeOK
<1> QED  BY <1>1, <1>2, <1>3, <1>5, <1>6, <1>7, <1>8

(* What a call of _graceful_shutdown changes when it begins.                *)
LEMMA StopsQueueTypes ==
  ASSUME TypeInv, NEW k \in Runs, NEW runs \in [Runs -> RunStates],
         NEW pools \in [Devices -> {"open", "closing", "closed"}], StopsQueue(k, runs, pools)
  PROVE  /\ is_running' \in [Devices -> BOOLEAN]
         /\ run' \in [Runs -> RunStates]
         /\ pool' \in [Devices -> {"open", "closing", "closed"}]
<1>1. is_running \in [Devices -> BOOLEAN] /\ k[2] \in Devices
  BY Owners DEF TypeInv, TypeOK, QueueTypeOK
<1>2. "stop" \in RunStates /\ "close" \in RunStates
  BY DEF RunStates
<1> QED  BY <1>1, <1>2 DEF StopsQueue

LEMMA BeginsTypes ==
  ASSUME TypeInv, NEW k \in Runs, NEW runs \in [Runs -> RunStates],
         NEW pools \in [Devices -> {"open", "closing", "closed"}], Begins(k, runs, pools)
  PROVE  /\ is_running' \in [Devices -> BOOLEAN]
         /\ run' \in [Runs -> RunStates]
         /\ pool' \in [Devices -> {"open", "closing", "closed"}]
         /\ device_running' \in [Devices -> BOOLEAN]
         /\ heartbeat' \in [Devices -> {"none", "live", "cancelled", "ended"}]
<1>1. /\ is_running \in [Devices -> BOOLEAN] /\ k[2] \in Devices
      /\ device_running \in [Devices -> BOOLEAN]
      /\ heartbeat \in [Devices -> {"none", "live", "cancelled", "ended"}]
  BY Owners DEF TypeInv, TypeOK, QueueTypeOK
<1>2. "heartbeat" \in RunStates
  BY DEF RunStates
<1>3. CASE heartbeat[k[2]] = "none"
  BY <1>1, <1>3, StopsQueueTypes DEF Begins
<1>4. CASE heartbeat[k[2]] # "none"
  BY <1>1, <1>2, <1>4 DEF Begins
<1> QED  BY <1>3, <1>4

(* A cancel changes nothing of a worker but its flag.                       *)
LEMMA CancelKeeps ==
  ASSUME TypeInv, NEW ds, CancelWorkers(ds)
  PROVE  /\ worker' \in [Workers -> Worker] /\ HoldsOrNot'
         /\ \A w \in Workers :
              /\ worker'[w].st = worker[w].st /\ worker'[w].task = worker[w].task
              /\ worker'[w].cancel => worker[w].cancel \/ (Of(w) \in ds /\ worker[w].st \notin {"none", "ended"})
<1>1. worker \in [Workers -> Worker]
  BY DEF TypeInv, TypeOK, QueueTypeOK
<1>2. \A w \in Workers : worker'[w] = IF Of(w) \in ds /\ worker[w].st \notin {"none", "ended"}
                                     THEN [worker[w] EXCEPT !.cancel = TRUE] ELSE worker[w]
  BY DEF CancelWorkers
<1>3. \A w \in Workers : worker'[w] \in Worker /\ worker'[w].attempt = worker[w].attempt
                         /\ worker'[w].st = worker[w].st /\ worker'[w].task = worker[w].task
  <2> SUFFICES ASSUME NEW w \in Workers
               PROVE  worker'[w] \in Worker /\ worker'[w].attempt = worker[w].attempt
                      /\ worker'[w].st = worker[w].st /\ worker'[w].task = worker[w].task
    OBVIOUS
  <2>1. worker[w] \in Worker
    BY <1>1
  <2> QED  BY <1>2, <2>1, ChangedRecords
<1>4. worker' \in [Workers -> Worker]
  <2>1. DOMAIN worker' = Workers /\ worker' = [w \in Workers |-> worker'[w]]
    BY DEF CancelWorkers
  <2> QED  BY <1>3, <2>1
<1> QED  BY <1>2, <1>3, <1>4 DEF TypeInv, HoldsOrNot

LEMMA StartTypes ==
  ASSUME TypeInv, NEW d \in Devices, StartWorkers(d)
  PROVE  /\ worker' \in [Workers -> Worker] /\ HoldsOrNot'
         /\ is_running' \in [Devices -> BOOLEAN]
<1>t. worker \in [Workers -> Worker] /\ is_running \in [Devices -> BOOLEAN] /\ HoldsOrNot
  BY DEF TypeInv, TypeOK, QueueTypeOK
<1>1. CASE is_running[d]
  <2>1. worker' = worker /\ is_running' = is_running
    BY <1>1 DEF StartWorkers
  <2> QED  BY <1>t, <2>1 DEF HoldsOrNot
<1>2. CASE ~is_running[d]
  <2>1. /\ is_running' = [is_running EXCEPT ![d] = TRUE]
        /\ worker' = [w \in Workers |-> IF Of(w) = d THEN Waiting ELSE worker[w]]
    BY <1>2 DEF StartWorkers
  <2>2. is_running' \in [Devices -> BOOLEAN]
    BY <1>t, <2>1
  <2>3. worker' \in [Workers -> Worker]
    BY <1>t, <2>1, IdleRecords
  <2>4. Waiting.task \notin Tasks /\ Waiting.st \notin Holding /\ Waiting.st # "pause"
    BY IdleRecords DEF Holding
  <2>5. ASSUME NEW w \in Workers
        PROVE  /\ worker'[w].task \in Tasks <=> worker'[w].st \in Holding
               /\ worker'[w].st = "pause" => worker'[w].attempt < MaxAttempts
    <3>1. worker'[w] = Waiting \/ worker'[w] = worker[w]
      BY <2>1
    <3>2. CASE worker'[w] = Waiting
      BY <3>2, <2>4
    <3>3. CASE worker'[w] = worker[w]
      BY <3>3, <1>t DEF HoldsOrNot
    <3> QED  BY <3>1, <3>2, <3>3
  <2> QED  BY <2>2, <2>3, <2>5 DEF HoldsOrNot
<1> QED  BY <1>1, <1>2

LEMMA RunTypes ==
  ASSUME TypeInv, NEW k \in Runs,
         HeartbeatGathered(k) \/ WorkersJoined(k) \/ JoinTimesOut(k) \/ PoolCloses(k)
  PROVE  TypeInv'
<1>t. TypeOK /\ QueueTypeOK /\ HoldsOrNot /\ k[2] \in Devices /\ k = <<k[1], k[2]>>
  BY Owners DEF TypeInv, TypeOK
<1>s. RunStates = {"none", "heartbeat", "stop", "cancelling", "close", "interrupted", "done"}
  BY DEF RunStates
<1>1. CASE HeartbeatGathered(k)
  <2>1. /\ is_running' \in [Devices -> BOOLEAN]
        /\ run' \in [Runs -> RunStates]
        /\ pool' \in [Devices -> {"open", "closing", "closed"}]
    BY <1>1, <1>t, StopsQueueTypes DEF HeartbeatGathered, TypeOK
  <2> QED  BY <1>1, <1>t, <2>1 DEF HeartbeatGathered, TypeInv, TypeOK, QueueTypeOK, HoldsOrNot
<1>2. CASE WorkersJoined(k)
  BY <1>2, <1>t, <1>s DEF WorkersJoined, TypeInv, TypeOK, QueueTypeOK, queueVars, HoldsOrNot
<1>3. CASE JoinTimesOut(k)
  <2>1. worker' \in [Workers -> Worker] /\ HoldsOrNot'
    BY <1>3, CancelKeeps DEF JoinTimesOut
  <2> QED  BY <1>3, <1>t, <1>s, <2>1 DEF JoinTimesOut, TypeInv, TypeOK, QueueTypeOK, deviceVars
<1>4. CASE PoolCloses(k)
  <2> DEFINE runs == [run EXCEPT ![k] = "done"]
             pools == [pool EXCEPT ![k[2]] = "closed"]
  <2>1. /\ runs \in [Runs -> RunStates]
        /\ pools \in [Devices -> {"open", "closing", "closed"}]
    BY <1>t, <1>s DEF TypeOK
  <2>w. HoldsOrNot' /\ UNCHANGED <<now, scheduled_at, pending_tasks, processing_tasks, completed_tasks,
                                   worker, client, handlers, ready>>
    BY <1>4, <1>t DEF PoolCloses, HoldsOrNot
  <2>2. CASE k[1] = "handler" /\ Len(todo) > 1
    <3>1. Tail(todo) \in Seq(Devices) /\ todo[2] \in Devices
      <4>1. Len(todo) \in Nat /\ todo # <<>>
        BY <1>t, <2>2, EmptySeq DEF TypeOK
      <4>2. 2 \in 1 .. Len(todo)
        BY <2>2, <4>1
      <4> QED  BY <1>t, <4>1, <4>2, HeadTailProperties, ElementOfSeq DEF TypeOK
    <3>2. <<"handler", todo[2]>> \in Runs
      BY <3>1, Owners
    <3>3. Begins(<<"handler", todo[2]>>, runs, pools) /\ todo' = Tail(todo) /\ UNCHANGED <<phase, init>>
      BY <1>4, <2>2 DEF PoolCloses
    <3> HIDE DEF runs, pools
    <3>4. /\ is_running' \in [Devices -> BOOLEAN]
          /\ run' \in [Runs -> RunStates]
          /\ pool' \in [Devices -> {"open", "closing", "closed"}]
          /\ device_running' \in [Devices -> BOOLEAN]
          /\ heartbeat' \in [Devices -> {"none", "live", "cancelled", "ended"}]
      BY <2>1, <3>2, <3>3, BeginsTypes
    <3> QED  BY <1>t, <2>w, <3>1, <3>3, <3>4 DEF TypeInv, TypeOK, QueueTypeOK
  <2>3. CASE ~(k[1] = "handler" /\ Len(todo) > 1)
    <3>1. /\ run' = runs /\ pool' = pools
          /\ init' = IF k[1] = "init" THEN [init EXCEPT ![k[2]] = "failed"] ELSE init
          /\ phase' = IF k[1] = "handler" THEN "completed" ELSE phase
          /\ UNCHANGED <<todo, device_running, heartbeat, is_running>>
      BY <1>4, <2>3 DEF PoolCloses
    <3> HIDE DEF runs, pools
    <3>2. /\ init' \in [Devices -> {"new", "adding", "testing", "up", "failing", "failed", "cancelled"}]
          /\ phase' \in Phases
      BY <1>t, <3>1 DEF TypeOK, Phases
    <3> QED  BY <1>t, <2>1, <2>w, <3>1, <3>2 DEF TypeInv, TypeOK, QueueTypeOK
  <2> QED  BY <2>2, <2>3
<1> QED  BY <1>1, <1>2, <1>3, <1>4

LEMMA InitializeTypes ==
  ASSUME TypeInv, NEW d \in Devices,
         Initialize(d) \/ Added(d) \/ Tested(d) \/ TestFails(d) \/ HeartbeatEnds(d)
  PROVE  TypeInv'
<1>t. TypeOK /\ QueueTypeOK /\ HoldsOrNot
  BY DEF TypeInv, TypeOK
<1>1. CASE Initialize(d)
  BY <1>1, <1>t DEF Initialize, TypeInv, TypeOK, QueueTypeOK, queueVars, shutdownVars, HoldsOrNot
<1>2. CASE Added(d)
  <2>1. /\ worker' \in [Workers -> Worker] /\ HoldsOrNot'
        /\ is_running' \in [Devices -> BOOLEAN]
    BY <1>2, StartTypes DEF Added
  <2>2. handlers' \in Seq(Devices)
    BY <1>2, <1>t, AppendProperties DEF Added, TypeOK
  <2> QED  BY <1>2, <1>t, <2>1, <2>2 DEF Added, TypeInv, TypeOK, QueueTypeOK, shutdownVars
<1>3. CASE Tested(d)
  BY <1>3, <1>t DEF Tested, TypeInv, TypeOK, QueueTypeOK, queueVars, shutdownVars, HoldsOrNot
<1>4. CASE TestFails(d)
  <2>1. /\ is_running' \in [Devices -> BOOLEAN]
        /\ run' \in [Runs -> RunStates]
        /\ pool' \in [Devices -> {"open", "closing", "closed"}]
        /\ device_running' \in [Devices -> BOOLEAN]
        /\ heartbeat' \in [Devices -> {"none", "live", "cancelled", "ended"}]
    BY <1>4, <1>t, Owners, BeginsTypes DEF TestFails, TypeOK
  <2> QED  BY <1>4, <1>t, <2>1 DEF TestFails, TypeInv, TypeOK, QueueTypeOK, HoldsOrNot
<1>5. CASE HeartbeatEnds(d)
  BY <1>5, <1>t DEF HeartbeatEnds, TypeInv, TypeOK, QueueTypeOK, queueVars, shutdownVars, HoldsOrNot
<1> QED  BY <1>1, <1>2, <1>3, <1>4, <1>5

LEMMA SignalTypes ==
  ASSUME TypeInv, Signal \/ HandlerTimesOut \/ ForceShutdown \/ ForceAgain \/ ForceEnds
  PROVE  TypeInv'
<1>t. TypeOK /\ QueueTypeOK /\ HoldsOrNot
  BY DEF TypeInv, TypeOK
<1>s. RunStates = {"none", "heartbeat", "stop", "cancelling", "close", "interrupted", "done"}
  BY DEF RunStates
<1>1. CASE Signal
  <2>1. CASE handlers = <<>>
    BY <1>1, <1>t, <2>1 DEF Signal, TypeInv, TypeOK, QueueTypeOK, HoldsOrNot, Phases
  <2>2. CASE handlers # <<>>
    <3>1. Head(handlers) \in Devices
      BY <1>t, <2>2, HeadTailProperties DEF TypeOK
    <3>2. <<"handler", Head(handlers)>> \in Runs
      BY <3>1, Owners
    <3>3. Begins(<<"handler", Head(handlers)>>, run, pool) /\ phase' = "cleanup"
      BY <1>1, <2>2 DEF Signal
    <3>4. /\ is_running' \in [Devices -> BOOLEAN]
          /\ run' \in [Runs -> RunStates]
          /\ pool' \in [Devices -> {"open", "closing", "closed"}]
          /\ device_running' \in [Devices -> BOOLEAN]
          /\ heartbeat' \in [Devices -> {"none", "live", "cancelled", "ended"}]
      BY <1>t, <3>2, <3>3, BeginsTypes DEF TypeOK
    <3> QED  BY <1>1, <1>t, <3>3, <3>4 DEF Signal, TypeInv, TypeOK, QueueTypeOK, HoldsOrNot, Phases
  <2> QED  BY <2>1, <2>2
<1>2. CASE HandlerTimesOut
  <2>1. worker' \in [Workers -> Worker] /\ HoldsOrNot'
    BY <1>2, CancelKeeps DEF HandlerTimesOut
  <2>2. run' \in [Runs -> RunStates]
    BY <1>2, <1>t, <1>s DEF HandlerTimesOut, TypeOK
  <2> QED  BY <1>2, <1>t, <2>1, <2>2 DEF HandlerTimesOut, TypeInv, TypeOK, QueueTypeOK, deviceVars
<1>3. CASE ForceShutdown
  <2>1. worker' \in [Workers -> Worker] /\ HoldsOrNot'
    BY <1>3, CancelKeeps DEF ForceShutdown, ForceCancels
  <2>2. /\ run' \in [Runs -> RunStates] /\ phase' \in Phases
        /\ heartbeat' \in [Devices -> {"none", "live", "cancelled", "ended"}]
        /\ client' \in [Tasks -> ClientStates]
        /\ init' \in [Devices -> {"new", "adding", "testing", "up", "failing", "failed", "cancelled"}]
    BY <1>3, <1>t, <1>s DEF ForceShutdown, ForceCancels, TypeOK, QueueTypeOK, ClientStates, Phases
  <2> QED  BY <1>3, <1>t, <2>1, <2>2 DEF ForceShutdown, TypeInv, TypeOK, QueueTypeOK
<1>4. CASE ForceAgain
  <2>1. worker' \in [Workers -> Worker] /\ HoldsOrNot'
    BY <1>4, CancelKeeps DEF ForceAgain
  <2> QED  BY <1>4, <1>t, <2>1 DEF ForceAgain, TypeInv, TypeOK, QueueTypeOK, deviceVars, Phases
<1>5. CASE ForceEnds
  BY <1>5, <1>t DEF ForceEnds, TypeInv, TypeOK, QueueTypeOK, queueVars, deviceVars, HoldsOrNot, Phases
<1> QED  BY <1>1, <1>2, <1>3, <1>4, <1>5

LEMMA TypeInvInductive ==
  /\ Init => TypeInv
  /\ TypeInv /\ [Next]_vars => TypeInv'
<1>1. ASSUME Init
      PROVE  TypeInv
  <2>1. LET r == [Waiting EXCEPT !.st = "none"]
        IN r \in Worker /\ r.st = "none" /\ r.task \notin Tasks
    BY IdleRecords DEF Worker
  <2>2. worker \in [Workers -> Worker] /\ HoldsOrNot
    BY <1>1, <2>1 DEF Init, QueueInit, HoldsOrNot, Holding
  <2>3. /\ <<>> \in Seq(Tasks) /\ <<>> \in Seq(Devices) /\ Len(<<>>) = 0
        /\ 0 \in 0 .. MaxTick /\ 0 <= MaxQueueSize
    BY QueueAssumption
  <2> QED  BY <1>1, <2>2, <2>3 DEF Init, QueueInit, TypeInv, TypeOK, QueueTypeOK, Statuses, ClientStates,
                                   RunStates, Phases
<1>2. ASSUME TypeInv, Next
      PROVE  TypeInv'
  <2>t. TypeOK /\ QueueTypeOK /\ HoldsOrNot
    BY <1>2 DEF TypeInv, TypeOK
  <2>0. ASSUME QueueTypeOK', HoldsOrNot', UNCHANGED <<deviceVars, shutdownVars>>
        PROVE  TypeInv'
    BY <2>t, <2>0 DEF TypeInv, TypeOK, deviceVars, shutdownVars
  <2>1. CASE Tick /\ UNCHANGED <<deviceVars, shutdownVars>>
    <3>1. now' \in 0 .. MaxTick
      BY <2>t, <2>1, QueueAssumption DEF Tick, QueueTypeOK
    <3> QED  BY <2>0, <2>t, <2>1, <3>1 DEF Tick, QueueTypeOK, HoldsOrNot
  <2>2. ASSUME NEW t \in Tasks, Enqueue(t) \/ PutGoesOn(t) \/ GetsResult(t),
               UNCHANGED <<deviceVars, shutdownVars>>
        PROVE  TypeInv'
    BY <1>2, <2>0, <2>2, ClientTypes
  <2>3. ASSUME NEW w \in Workers,
               \/ Takes(w) \/ PutsBack(w) \/ IdleEnds(w) \/ Succeeds(w)
               \/ Fails(w) \/ Retries(w) \/ Cancelled(w),
               UNCHANGED <<deviceVars, shutdownVars>>
        PROVE  TypeInv'
    BY <1>2, <2>0, <2>3, WorkerTypes
  <2> QED  BY <1>2, <2>1, <2>2, <2>3, RunTypes, InitializeTypes, SignalTypes DEF Next, QueueNext
<1>3. ASSUME TypeInv, UNCHANGED vars
      PROVE  TypeInv'
  BY <1>3 DEF TypeInv, TypeOK, QueueTypeOK, HoldsOrNot, vars, queueVars, deviceVars, shutdownVars
<1> QED  BY <1>1, <1>2, <1>3

LEMMA TypeInvHolds == Spec => []TypeInv
<1> QED  BY TypeInvInductive, PTL DEF Spec

(* The types of all fields: in particular no heap holds more than           *)
(* max_queue_size tasks, and no task is attempted more often than allowed.  *)
THEOREM ShutdownTypeCorrect == Spec => []TypeOK
<1>1. TypeInv => TypeOK
  BY DEF TypeInv
<1> QED  BY TypeInvHolds, <1>1, PTL

-----------------------------------------------------------------------------
(* The calls of _graceful_shutdown.                                         *)

LEMMA AppendOnce ==
  ASSUME NEW S, NEW s \in Seq(S), NEW x \in S
  PROVE  /\ Entries(Append(s, x)) = Entries(s) \cup {x}
         /\ Once(s) /\ x \notin Entries(s) => Once(Append(s, x))
<1> DEFINE g == Append(s, x)
           n == Len(s)
<1>1. /\ n \in Nat /\ DOMAIN s = 1 .. n /\ DOMAIN g = 1 .. n + 1
      /\ g[n + 1] = x /\ \A k \in 1 .. n : g[k] = s[k]
  BY LenProperties, AppendProperties
<1>2. /\ n + 1 \in 1 .. n + 1 /\ \A k \in 1 .. n + 1 : k \in 1 .. n \/ k = n + 1
      /\ \A k \in 1 .. n : k \in 1 .. n + 1
  BY <1>1
<1> HIDE DEF g, n
<1>3. Entries(g) = Entries(s) \cup {x}
  <2>1. ASSUME NEW y \in Entries(g)
        PROVE  y \in Entries(s) \cup {x}
    <3>1. PICK k \in 1 .. n + 1 : y = g[k]
      BY <1>1 DEF Entries
    <3> QED  BY <1>1, <1>2, <3>1 DEF Entries
  <2>2. ASSUME NEW y \in Entries(s) \cup {x}
        PROVE  \E k \in 1 .. n + 1 : y = g[k]
    <3>1. CASE y = x
      BY <1>1, <1>2, <3>1
    <3>2. CASE y # x
      <4>1. PICK k \in 1 .. n : y = s[k]
        BY <1>1, <2>2, <3>2 DEF Entries
      <4> QED  BY <1>1, <1>2, <4>1
    <3> QED  BY <3>1, <3>2
  <2>3. ASSUME NEW y \in Entries(s) \cup {x}
        PROVE  y \in Entries(g)
    BY <1>1, <2>2, <2>3 DEF Entries
  <2> QED  BY <2>1, <2>3
<1>4. ASSUME Once(s), x \notin Entries(s)
      PROVE  Once(g)
  <2>1. \A k \in 1 .. n : s[k] # x
    BY <1>1, <1>4 DEF Entries
  <2> QED  BY <1>1, <1>2, <1>4, <2>1 DEF Once
<1> QED  BY <1>3, <1>4 DEF g

LEMMA TailOnce ==
  ASSUME NEW S, NEW s \in Seq(S), Len(s) > 1
  PROVE  /\ Tail(s) \in Seq(S) /\ Tail(s) # <<>> /\ Tail(s)[1] = s[2] /\ s[2] \in S /\ 2 \in DOMAIN s
         /\ Entries(Tail(s)) \subseteq Entries(s) /\ Entries(s) \subseteq Entries(Tail(s)) \cup {s[1]}
         /\ \A i \in DOMAIN Tail(s) : i + 1 \in DOMAIN s /\ i + 1 # 1 /\ Tail(s)[i] = s[i + 1]
         /\ Once(s) => Once(Tail(s))
<1> DEFINE g == Tail(s)
           n == Len(s)
<1>1. /\ n \in Nat /\ n > 1 /\ DOMAIN s = 1 .. n /\ s # <<>> /\ s[2] \in S
  <2>1. n \in Nat /\ n > 1 /\ DOMAIN s = 1 .. n
    BY LenProperties
  <2>2. s # <<>>
    BY EmptySeq
  <2>3. 2 \in 1 .. n
    BY <2>1
  <2> QED  BY <2>1, <2>2, <2>3, ElementOfSeq
<1>2. g \in Seq(S) /\ DOMAIN g = 1 .. n - 1 /\ \A i \in 1 .. n - 1 : g[i] = s[i + 1]
  <2>1. g \in Seq(S) /\ Len(g) = n - 1 /\ \A i \in 1 .. Len(g) : g[i] = s[i + 1]
    BY <1>1, HeadTailProperties
  <2> QED  BY <2>1, LenProperties
<1> HIDE DEF g, n
<1>3. \A i \in 1 .. n - 1 : i + 1 \in 1 .. n /\ i + 1 # 1
  BY <1>1
<1>4. 1 \in 1 .. n - 1 /\ 1 + 1 = 2 /\ 2 \in 1 .. n
  BY <1>1
<1>5. g # <<>> /\ g[1] = s[2]
  <2>1. DOMAIN <<>> = {} /\ DOMAIN g # {}
    BY <1>2, <1>4
  <2> QED  BY <1>2, <1>4, <2>1
<1>6. Entries(g) \subseteq Entries(s)
  <2> SUFFICES ASSUME NEW y \in Entries(g)
               PROVE  y \in Entries(s)
    OBVIOUS
  <2>1. PICK i \in 1 .. n - 1 : y = g[i]
    BY <1>2 DEF Entries
  <2> QED  BY <1>1, <1>2, <1>3, <2>1 DEF Entries
<1>7. Entries(s) \subseteq Entries(g) \cup {s[1]}
  <2> SUFFICES ASSUME NEW y \in Entries(s), y # s[1]
               PROVE  y \in Entries(g)
    OBVIOUS
  <2>1. PICK j \in 1 .. n : y = s[j]
    BY <1>1 DEF Entries
  <2>2. j # 1 /\ j - 1 \in 1 .. n - 1 /\ (j - 1) + 1 = j
    BY <1>1, <2>1
  <2>3. y = g[j - 1]
    BY <1>2, <2>1, <2>2
  <2> QED  BY <1>2, <2>2, <2>3 DEF Entries
<1>8. ASSUME Once(s)
      PROVE  Once(g)
  <2>1. \A i, j \in 1 .. n - 1 : i + 1 = j + 1 => i = j
    BY <1>1
  <2> QED  BY <1>1, <1>2, <1>3, <1>8, <2>1 DEF Once
<1> QED  BY <1>1, <1>2, <1>3, <1>4, <1>5, <1>6, <1>7, <1>8 DEF g

LEMMA FirstOf ==
  ASSUME NEW S, NEW s \in Seq(S), s # <<>>
  PROVE  Head(s) = s[1] /\ s[1] \in S /\ s[1] \in Entries(s) /\ 1 \in DOMAIN s
<1>1. Len(s) \in Nat /\ Len(s) # 0 /\ DOMAIN s = 1 .. Len(s)
  BY LenProperties, EmptySeq
<1>2. \A m \in Nat : m # 0 => 1 \in 1 .. m
  OBVIOUS
<1>3. 1 \in DOMAIN s
  BY <1>1, <1>2
<1>4. Head(s) = s[1]
  BY <1>3
<1> QED  BY <1>1, <1>3, <1>4, ElementOfSeq DEF Entries

LEMMA RunNames ==
  /\ \A k \in Runs, d \in Devices :
       /\ k = <<"init", d>> <=> k[1] = "init" /\ k[2] = d
       /\ k = <<"handler", d>> <=> k[1] = "handler" /\ k[2] = d
  /\ \A d \in Devices : /\ <<"init", d>>[2] = d /\ <<"handler", d>>[2] = d
                        /\ <<"init", d>>[1] = "init" /\ <<"handler", d>>[1] = "handler"
BY DEF Runs

LEMMA AllEndedKept ==
  ASSUME \A w \in Workers : worker'[w].st = worker[w].st
  PROVE  \A d \in Devices : AllEnded(d)' <=> AllEnded(d)
BY DEF AllEnded, WorkersOf

(* A step of the queue moves one worker, which has not ended, or none.      *)
LEMMA QueueMoves ==
  ASSUME TypeInv, QueueNext
  PROVE  /\ is_running' = is_running
         /\ \/ UNCHANGED <<worker, processing_tasks>>
            \/ \E w \in Workers :
                 /\ worker[w].st # "ended" /\ (worker[w].st = "none" => worker[w].cancel)
                 /\ worker[w].st = "none" => worker'[w].st = "ended"
                 /\ \A v \in Workers : v # w => worker'[v] = worker[v]
                 /\ \A d \in Devices : d # Of(w) => processing_tasks'[d] = processing_tasks[d]
<1>t. worker \in [Workers -> Worker] /\ processing_tasks \in [Devices -> SUBSET Tasks]
  BY DEF TypeInv, TypeOK, QueueTypeOK
<1>1. CASE Tick
  BY <1>1 DEF Tick
<1>2. CASE \E t \in Tasks : Enqueue(t) \/ PutGoesOn(t) \/ GetsResult(t)
  BY <1>2 DEF Enqueue, PutGoesOn, GetsResult
<1>3. ASSUME NEW w \in Workers,
             \/ Takes(w) \/ PutsBack(w) \/ IdleEnds(w) \/ Succeeds(w)
             \/ Fails(w) \/ Retries(w) \/ Cancelled(w)
      PROVE  /\ is_running' = is_running
             /\ worker[w].st # "ended" /\ (worker[w].st = "none" => worker[w].cancel)
             /\ worker[w].st = "none" => worker'[w].st = "ended"
             /\ \A v \in Workers : v # w => worker'[v] = worker[v]
             /\ \A d \in Devices : d # Of(w) => processing_tasks'[d] = processing_tasks[d]
  <2>a. ASSUME NEW b, Turn(w, b)
        PROVE  \A v \in Workers : v # w => worker'[v] = worker[v]
    BY <1>t, <2>a DEF Turn
  <2>b. ASSUME NEW status, Stores(w, status)
        PROVE  \A d \in Devices : d # Of(w) => processing_tasks'[d] = processing_tasks[d]
    BY <1>t, <2>b DEF Stores
  <2>1. CASE Takes(w)
    <3>1. worker[w].st = "get" /\ is_running' = is_running
      BY <2>1 DEF Takes
    <3>2. CASE ~Pop(scheduled_at, pending_tasks[Of(w)]).ok
      BY <2>1, <2>a, <3>1, <3>2 DEF Takes
    <3>3. CASE /\ Pop(scheduled_at, pending_tasks[Of(w)]).ok
               /\ scheduled_at[Head(pending_tasks[Of(w)])] > now
      BY <1>t, <2>1, <3>1, <3>3 DEF Takes
    <3>4. CASE /\ Pop(scheduled_at, pending_tasks[Of(w)]).ok
               /\ ~(scheduled_at[Head(pending_tasks[Of(w)])] > now)
      BY <1>t, <2>1, <3>1, <3>4 DEF Takes, Executes
    <3> QED  BY <3>2, <3>3, <3>4
  <2>2. CASE PutsBack(w)
    BY <2>2, <2>a DEF PutsBack
  <2>3. CASE IdleEnds(w)
    BY <2>3, <2>a DEF IdleEnds
  <2>4. ASSUME NEW status, Finishes(w, status)
        PROVE  /\ is_running' = is_running
               /\ \A v \in Workers : v # w => worker'[v] = worker[v]
               /\ \A d \in Devices : d # Of(w) => processing_tasks'[d] = processing_tasks[d]
    BY <2>4, <2>a, <2>b DEF Finishes
  <2>5. CASE Succeeds(w)
    BY <2>4, <2>5 DEF Succeeds
  <2>6. CASE Fails(w)
    BY <1>t, <2>4, <2>6 DEF Fails
  <2>7. CASE Retries(w)
    BY <1>t, <2>7 DEF Retries
  <2>8. CASE Cancelled(w)
    <3>1. worker[w].st = "none" => worker'[w].st = "ended"
      BY <1>t, <2>8, IdleRecords DEF Cancelled, Turn
    <3> QED  BY <1>t, <2>8, <2>a, <2>b, <3>1 DEF Cancelled
  <2> QED  BY <1>3, <2>1, <2>2, <2>3, <2>5, <2>6, <2>7, <2>8
<1> QED  BY <1>1, <1>2, <1>3 DEF QueueNext

LEMMA QueueKeepsHandlers ==
  ASSUME TypeInv, HandlerInv, QueueNext, UNCHANGED <<deviceVars, shutdownVars>>
  PROVE  HandlerInv'
<1>u. UNCHANGED <<init, device_running, heartbeat, pool, handlers, run, phase, todo, ready, is_running>>
  BY QueueMoves DEF deviceVars, shutdownVars
<1>1. \A d \in Devices : AllEnded(d) => AllEnded(d)'
  BY QueueMoves DEF AllEnded, WorkersOf
<1>2. NothingBeforeStart'
  <2> SUFFICES ASSUME NEW d \in Devices, Unborn(d)
               PROVE  /\ processing_tasks'[d] = processing_tasks[d]
                      /\ \A w \in WorkersOf(d) : worker'[w] = worker[w]
    BY <1>u DEF HandlerInv, NothingBeforeStart, Unborn, WorkersOf
  <2>1. \A w \in Workers : Of(w) = d => worker[w].st = "none" /\ ~worker[w].cancel
    BY DEF HandlerInv, NothingBeforeStart, WorkersOf
  <2> QED  BY <2>1, QueueMoves DEF WorkersOf
<1>3. RunsInOrder'
  BY <1>u DEF HandlerInv, RunsInOrder, Forced
<1>4. StoppedIsJoined'
  BY <1>u, <1>1 DEF HandlerInv, StoppedIsJoined, Forced
<1>5. UpIsRunning'
  BY <1>u DEF HandlerInv, UpIsRunning
<1>6. ReadyIsCleaned'
  BY <1>u, <1>1 DEF HandlerInv, ReadyIsCleaned, Clean, TypeInv, TypeOK
<1> QED  BY <1>2, <1>3, <1>4, <1>5, <1>6 DEF HandlerInv

(* What a call does to the queue and the pool of its device.                *)
LEMMA StopsQueueEffect ==
  ASSUME TypeInv, NEW k \in Runs, NEW runs \in [Runs -> RunStates],
         NEW pools \in [Devices -> {"open", "closing", "closed"}], StopsQueue(k, runs, pools)
  PROVE  /\ ~is_running'[k[2]]
         /\ \A e \in Devices : e # k[2] => is_running'[e] = is_running[e] /\ pool'[e] = pools[e]
         /\ \/ run' = [runs EXCEPT ![k] = "stop"] /\ is_running[k[2]] /\ pool' = pools
            \/ run' = [runs EXCEPT ![k] = "close"] /\ ~is_running[k[2]]
<1>1. is_running \in [Devices -> BOOLEAN] /\ k[2] \in Devices
  BY Owners DEF TypeInv, TypeOK, QueueTypeOK
<1> QED  BY <1>1 DEF StopsQueue

LEMMA BeginsEffect ==
  ASSUME TypeInv, NEW k \in Runs, NEW runs \in [Runs -> RunStates],
         NEW pools \in [Devices -> {"open", "closing", "closed"}], Begins(k, runs, pools)
  PROVE  /\ \A e \in Devices : e # k[2] => /\ is_running'[e] = is_running[e] /\ pool'[e] = pools[e]
                                           /\ heartbeat'[e] = heartbeat[e]
         /\ heartbeat'[k[2]] = "none" <=> heartbeat[k[2]] = "none"
         /\ heartbeat[k[2]] = "ended" => heartbeat'[k[2]] = "ended"
         /\ \/ /\ run' = [runs EXCEPT ![k] = "heartbeat"] /\ heartbeat[k[2]] # "none"
               /\ is_running' = is_running /\ pool' = pools
            \/ /\ run' = [runs EXCEPT ![k] = "stop"] /\ heartbeat[k[2]] = "none"
               /\ is_running[k[2]] /\ ~is_running'[k[2]] /\ pool' = pools
            \/ /\ run' = [runs EXCEPT ![k] = "close"] /\ heartbeat[k[2]] = "none"
               /\ ~is_running[k[2]] /\ ~is_running'[k[2]]
<1>1. heartbeat \in [Devices -> {"none", "live", "cancelled", "ended"}] /\ k[2] \in Devices
  BY Owners DEF TypeInv, TypeOK, QueueTypeOK
<1>2. CASE heartbeat[k[2]] = "none"
  <2>1. StopsQueue(k, runs, pools) /\ UNCHANGED heartbeat
    BY <1>2 DEF Begins
  <2> QED  BY <1>2, <2>1, StopsQueueEffect
<1>3. CASE heartbeat[k[2]] # "none"
  <2>1. /\ heartbeat' = [heartbeat EXCEPT ![k[2]] = IF @ = "live" THEN "cancelled" ELSE @]
        /\ run' = [runs EXCEPT ![k] = "heartbeat"]
        /\ pool' = pools
        /\ UNCHANGED is_running
    BY <1>3 DEF Begins
  <2> QED  BY <1>1, <1>3, <2>1
<1> QED  BY <1>2, <1>3

(* Whoever stops a queue with work in hand waits for it.                    *)
LEMMA StillJoined ==
  ASSUME TypeInv, NEW k \in Runs, NEW runs \in [Runs -> RunStates],
         NEW pools \in [Devices -> {"open", "closing", "closed"}],
         \A j \in Runs : runs[j] \in Joining \cup {"close"} => ~is_running[j[2]],
         \A d \in Devices : pools[d] # "open" => ~is_running[d],
         \A d \in Devices : ~is_running[d] /\ ~AllEnded(d) => \E j \in Runs : j[2] = d /\ runs[j] \in Joining,
         runs[k] \notin Joining, UNCHANGED worker,
         StopsQueue(k, runs, pools) \/ Begins(k, runs, pools)
  PROVE  StoppedIsJoined'
<1>1. PICK s \in {"heartbeat", "stop", "close"} :
        /\ run' = [runs EXCEPT ![k] = s]
        /\ s = "heartbeat" => is_running'[k[2]] = is_running[k[2]] /\ pool'[k[2]] = pools[k[2]]
        /\ s # "heartbeat" => ~is_running'[k[2]]
        /\ s = "close" => ~is_running[k[2]]
  BY StopsQueueEffect, BeginsEffect
<1>2. \A e \in Devices : e # k[2] => is_running'[e] = is_running[e] /\ pool'[e] = pools[e]
  BY StopsQueueEffect, BeginsEffect
<1>3. k[2] \in Devices /\ \A j \in Runs : j[2] \in Devices
  BY Owners
<1>4. \A d \in Devices : AllEnded(d)' <=> AllEnded(d)
  BY DEF AllEnded, WorkersOf
<1>5. \A j \in Runs : run'[j] = IF j = k THEN s ELSE runs[j]
  BY <1>1
<1>6. ASSUME NEW j \in Runs, run'[j] \in Joining \cup {"close"}
      PROVE  ~is_running'[j[2]]
  <2>1. CASE j = k
    BY <1>1, <1>5, <1>6, <2>1 DEF Joining
  <2>2. CASE j # k
    <3>1. ~is_running[j[2]]
      BY <1>5, <1>6, <2>2
    <3> QED  BY <1>1, <1>2, <1>3, <3>1
  <2> QED  BY <2>1, <2>2
<1>7. ASSUME NEW d \in Devices, pool'[d] # "open"
      PROVE  ~is_running'[d]
  BY <1>1, <1>2, <1>3, <1>7
<1>8. ASSUME NEW d \in Devices, ~is_running'[d], ~AllEnded(d)
      PROVE  \E j \in Runs : j[2] = d /\ run'[j] \in Joining
  <2>1. CASE ~is_running[d]
    <3>1. PICK j \in Runs : j[2] = d /\ runs[j] \in Joining
      BY <1>8, <2>1
    <3> QED  BY <1>5, <3>1
  <2>2. CASE is_running[d]
    <3>1. d = k[2] /\ s = "stop"
      BY <1>1, <1>2, <1>8, <2>2
    <3> QED  BY <1>5, <3>1 DEF Joining
  <2> QED  BY <2>1, <2>2
<1> QED  BY <1>4, <1>6, <1>7, <1>8 DEF StoppedIsJoined

(* A call that is under way is one of a device whose workers were started.  *)
LEMMA RunnersBorn ==
  ASSUME TypeInv, HandlerInv, NEW k \in Runs, run[k] \notin {"none", "done"}
  PROVE  /\ ~Unborn(k[2]) /\ ~Forced
         /\ k[1] = "init" => init[k[2]] \in {"failing", "failed", "cancelled"}
         /\ k[1] = "handler" => phase = "cleanup" /\ todo # <<>> /\ k[2] = todo[1]
<1>1. k[2] \in Devices /\ (k[1] = "init" \/ k[1] = "handler")
  BY Owners
<1>2. ~Forced
  BY DEF HandlerInv, RunsInOrder
<1>3. CASE k[1] = "init"
  <2>1. k = <<"init", k[2]>>
    BY <1>1, <1>3, RunNames
  <2>2. run[<<"init", k[2]>>] # "none"
    BY <2>1
  <2> QED  BY <1>1, <1>2, <1>3, <2>2 DEF HandlerInv, RunsInOrder, Unborn
<1>4. CASE k[1] = "handler"
  <2>1. k = <<"handler", k[2]>>
    BY <1>1, <1>4, RunNames
  <2>2. run[<<"handler", k[2]>>] \notin {"none", "done"}
    BY <2>1
  <2>3. phase = "cleanup" /\ k[2] = todo[1] /\ todo # <<>> /\ Entries(todo) \subseteq Entries(handlers)
    BY <1>1, <2>2 DEF HandlerInv, RunsInOrder
  <2>4. k[2] \in Entries(handlers)
    BY <2>3, FirstOf DEF TypeInv, TypeOK
  <2> QED  BY <1>1, <1>2, <1>4, <2>3, <2>4 DEF HandlerInv, NothingBeforeStart
<1> QED  BY <1>1, <1>3, <1>4

LEMMA GatheredKeeps ==
  ASSUME TypeInv, HandlerInv, NEW k \in Runs, HeartbeatGathered(k)
  PROVE  HandlerInv'
<1>t. /\ k[2] \in Devices /\ run \in [Runs -> RunStates]
      /\ pool \in [Devices -> {"open", "closing", "closed"}] /\ ready \subseteq Devices
  BY Owners DEF TypeInv, TypeOK
<1>0. /\ run[k] = "heartbeat" /\ heartbeat[k[2]] = "ended"
      /\ UNCHANGED <<processing_tasks, worker, init, heartbeat, handlers, phase, todo, ready>>
      /\ StopsQueue(k, run, pool)
  BY DEF HeartbeatGathered
<1>1. /\ ~Unborn(k[2]) /\ ~Forced
      /\ k[1] = "init" => init[k[2]] \in {"failing", "failed", "cancelled"}
      /\ k[1] = "handler" => phase = "cleanup" /\ todo # <<>> /\ k[2] = todo[1]
  BY <1>0, RunnersBorn
<1>2. PICK s \in {"stop", "close"} :
        /\ \A j \in Runs : run'[j] = IF j = k THEN s ELSE run[j]
        /\ s = "close" => ~is_running[k[2]]
  BY <1>0, <1>t, StopsQueueEffect
<1>3. \A e \in Devices : e # k[2] => is_running'[e] = is_running[e] /\ pool'[e] = pool[e]
  BY <1>0, <1>t, StopsQueueEffect
<1>4. \A d \in Devices : AllEnded(d)' <=> AllEnded(d)
  BY <1>0 DEF AllEnded, WorkersOf
<1>5. \A e \in Devices : e # k[2] => /\ run'[<<"init", e>>] = run[<<"init", e>>]
                                     /\ run'[<<"handler", e>>] = run[<<"handler", e>>]
  BY <1>2, RunNames, Owners
<1>6. /\ k[1] = "init" => k = <<"init", k[2]>> /\ run'[<<"handler", k[2]>>] = run[<<"handler", k[2]>>]
      /\ k[1] = "handler" => k = <<"handler", k[2]>> /\ run'[<<"init", k[2]>>] = run[<<"init", k[2]>>]
      /\ k[1] = "init" \/ k[1] = "handler"
  BY <1>t, <1>2, RunNames, Owners
<1>7. NothingBeforeStart'
  BY <1>0, <1>1, <1>3 DEF HandlerInv, NothingBeforeStart, Unborn, WorkersOf
<1>8. RunsInOrder'
  <2>1. ASSUME NEW d \in Devices, run'[<<"init", d>>] # "none"
        PROVE  init[d] \in {"failing", "failed", "cancelled"}
    BY <1>1, <1>5, <1>6, <2>1 DEF HandlerInv, RunsInOrder
  <2>2. ASSUME NEW d \in Devices, run'[<<"handler", d>>] \notin {"none", "done"}
        PROVE  phase = "cleanup" /\ d = todo[1]
    BY <1>1, <1>5, <1>6, <2>2 DEF HandlerInv, RunsInOrder
  <2>3. ASSUME NEW d \in Devices, run[<<"handler", d>>] = "none"
        PROVE  run'[<<"handler", d>>] = "none"
    BY <1>0, <1>5, <1>6, <2>3
  <2>4. \A i \in DOMAIN todo : todo[i] \in Devices
    BY ElementOfSeq, LenProperties DEF TypeInv, TypeOK
  <2> QED  BY <1>0, <1>1, <2>1, <2>2, <2>3, <2>4 DEF HandlerInv, RunsInOrder, Forced
<1>9. StoppedIsJoined'
  BY <1>0, <1>1, <1>t, StillJoined DEF HandlerInv, StoppedIsJoined, Joining
<1>10. UpIsRunning'
  <2> SUFFICES ASSUME NEW d \in Devices, init[d] \in {"testing", "up"},
                      run'[<<"handler", d>>] \in {"none", "heartbeat"}
               PROVE  is_running'[d]
    BY <1>0 DEF HandlerInv, UpIsRunning
  <2>1. d # k[2]
    BY <1>1, <1>2, <1>6
  <2> QED  BY <1>3, <1>5, <2>1 DEF HandlerInv, UpIsRunning
<1>11. ReadyIsCleaned'
  <2> SUFFICES ASSUME NEW d \in ready
               PROVE  /\ run'[<<"handler", d>>] \in Joining \cup {"close"} => heartbeat[d] = "ended"
                      /\ run'[<<"handler", d>>] = "close" => AllEnded(d)
                      /\ phase = "cleanup" => d \in Entries(todo) \/ (Clean(d) /\ pool'[d] = "closed")
                      /\ phase = "completed" => Clean(d) /\ pool'[d] = "closed"
    BY <1>0, <1>4, <1>t DEF HandlerInv, ReadyIsCleaned, Clean
  <2>1. d \in Devices /\ init[d] = "up"
    BY <1>t DEF HandlerInv, ReadyIsCleaned
  <2>2. CASE d = k[2]
    <3>1. k[1] = "handler" /\ k = <<"handler", d>>
      BY <1>1, <1>6, <2>1, <2>2
    <3>2. is_running[d]
      BY <1>0, <2>1, <3>1 DEF HandlerInv, UpIsRunning
    <3>3. d \in Entries(todo) /\ phase = "cleanup"
      BY <1>1, <2>2, <3>1, FirstOf DEF TypeInv, TypeOK
    <3> QED  BY <1>0, <1>2, <2>2, <3>1, <3>2, <3>3
  <2>3. CASE d # k[2]
    BY <1>3, <1>5, <2>1, <2>3 DEF HandlerInv, ReadyIsCleaned, Clean
  <2> QED  BY <2>2, <2>3
<1> QED  BY <1>7, <1>8, <1>9, <1>10, <1>11 DEF HandlerInv

LEMMA JoinedKeeps ==
  ASSUME TypeInv, HandlerInv, NEW k \in Runs, WorkersJoined(k) \/ JoinTimesOut(k)
  PROVE  HandlerInv'
<1>t. /\ k[2] \in Devices /\ run \in [Runs -> RunStates] /\ ready \subseteq Devices
      /\ pool \in [Devices -> {"open", "closing", "closed"}] /\ worker \in [Workers -> Worker]
  BY Owners DEF TypeInv, TypeOK, QueueTypeOK
<1>0. /\ run[k] \in {"stop", "cancelling"}
      /\ UNCHANGED <<processing_tasks, is_running, init, heartbeat, handlers, phase, todo, ready>>
  BY DEF WorkersJoined, JoinTimesOut, queueVars, deviceVars
<1>1. /\ ~Unborn(k[2]) /\ ~Forced /\ ~is_running[k[2]]
      /\ k[1] = "init" => init[k[2]] \in {"failing", "failed", "cancelled"}
      /\ k[1] = "handler" => phase = "cleanup" /\ todo # <<>> /\ k[2] = todo[1]
  BY <1>0, RunnersBorn DEF HandlerInv, StoppedIsJoined, Joining
<1>2. PICK s \in {"cancelling", "close"} :
        /\ \A j \in Runs : run'[j] = IF j = k THEN s ELSE run[j]
        /\ s = "close" => AllEnded(k[2])
        /\ s = "cancelling" => k[1] = "init" /\ UNCHANGED pool
  BY <1>t DEF WorkersJoined, JoinTimesOut, deviceVars
<1>3. \A e \in Devices : e # k[2] => pool'[e] = pool[e]
  BY <1>t DEF WorkersJoined, JoinTimesOut, deviceVars
<1>4. \A w \in Workers : /\ worker'[w].st = worker[w].st
                         /\ worker'[w].cancel => worker[w].cancel \/ worker[w].st # "none"
  <2>1. CASE WorkersJoined(k)
    BY <2>1 DEF WorkersJoined, queueVars
  <2>2. CASE JoinTimesOut(k)
    BY <2>2, CancelKeeps DEF JoinTimesOut
  <2> QED  BY <2>1, <2>2
<1>5. \A d \in Devices : AllEnded(d)' <=> AllEnded(d)
  BY <1>4, AllEndedKept
<1>6. \A e \in Devices : e # k[2] => /\ run'[<<"init", e>>] = run[<<"init", e>>]
                                     /\ run'[<<"handler", e>>] = run[<<"handler", e>>]
  BY <1>2, RunNames, Owners
<1>7. /\ k[1] = "init" => k = <<"init", k[2]>> /\ run'[<<"handler", k[2]>>] = run[<<"handler", k[2]>>]
      /\ k[1] = "handler" => k = <<"handler", k[2]>> /\ run'[<<"init", k[2]>>] = run[<<"init", k[2]>>]
      /\ k[1] = "init" \/ k[1] = "handler"
  BY <1>t, <1>2, RunNames, Owners
<1>8. NothingBeforeStart'
  BY <1>0, <1>1, <1>3, <1>4 DEF HandlerInv, NothingBeforeStart, Unborn, WorkersOf
<1>9. RunsInOrder'
  <2>1. ASSUME NEW d \in Devices, run'[<<"init", d>>] # "none"
        PROVE  init[d] \in {"failing", "failed", "cancelled"}
    BY <1>1, <1>6, <1>7, <2>1 DEF HandlerInv, RunsInOrder
  <2>2. ASSUME NEW d \in Devices, run'[<<"handler", d>>] \notin {"none", "done"}
        PROVE  phase = "cleanup" /\ d = todo[1]
    BY <1>1, <1>6, <1>7, <2>2 DEF HandlerInv, RunsInOrder
  <2>3. ASSUME NEW d \in Devices, run[<<"handler", d>>] = "none"
        PROVE  run'[<<"handler", d>>] = "none"
    BY <1>0, <1>6, <1>7, <2>3
  <2>4. \A i \in DOMAIN todo : todo[i] \in Devices
    BY ElementOfSeq, LenProperties DEF TypeInv, TypeOK
  <2> QED  BY <1>0, <1>1, <2>1, <2>2, <2>3, <2>4 DEF HandlerInv, RunsInOrder, Forced
<1>10. StoppedIsJoined'
  <2>1. ASSUME NEW j \in Runs, run'[j] \in Joining \cup {"close"}
        PROVE  ~is_running[j[2]]
    <3>1. CASE j = k
      BY <1>1, <3>1
    <3>2. CASE j # k
      BY <1>2, <2>1, <3>2 DEF HandlerInv, StoppedIsJoined
    <3> QED  BY <3>1, <3>2
  <2>2. ASSUME NEW d \in Devices, pool'[d] # "open"
        PROVE  ~is_running[d]
    BY <1>1, <1>3, <2>2 DEF HandlerInv, StoppedIsJoined
  <2>3. ASSUME NEW d \in Devices, ~is_running[d], ~AllEnded(d)
        PROVE  \E j \in Runs : j[2] = d /\ run'[j] \in Joining
    <3>1. PICK j \in Runs : j[2] = d /\ run[j] \in Joining
      BY <1>1, <2>3 DEF HandlerInv, StoppedIsJoined
    <3>2. CASE j = k
      BY <1>2, <2>3, <3>1, <3>2 DEF Joining
    <3>3. CASE j # k
      BY <1>2, <3>1, <3>3
    <3> QED  BY <3>2, <3>3
  <2> QED  BY <1>0, <1>5, <2>1, <2>2, <2>3 DEF StoppedIsJoined
<1>11. UpIsRunning'
  <2> SUFFICES ASSUME NEW d \in Devices, init[d] \in {"testing", "up"},
                      run'[<<"handler", d>>] \in {"none", "heartbeat"}
               PROVE  is_running[d]
    BY <1>0 DEF HandlerInv, UpIsRunning
  <2>1. d # k[2]
    BY <1>1, <1>2, <1>7
  <2> QED  BY <1>6, <2>1 DEF HandlerInv, UpIsRunning
<1>12. ReadyIsCleaned'
  <2> SUFFICES ASSUME NEW d \in ready
               PROVE  /\ run'[<<"handler", d>>] \in Joining \cup {"close"} => heartbeat[d] = "ended"
                      /\ run'[<<"handler", d>>] = "close" => AllEnded(d)
                      /\ phase = "cleanup" => d \in Entries(todo) \/ (Clean(d) /\ pool'[d] = "closed")
                      /\ phase = "completed" => Clean(d) /\ pool'[d] = "closed"
    BY <1>0, <1>5, <1>t DEF HandlerInv, ReadyIsCleaned, Clean
  <2>1. d \in Devices /\ init[d] = "up"
    BY <1>t DEF HandlerInv, ReadyIsCleaned
  <2>2. CASE d = k[2]
    <3>1. k[1] = "handler" /\ k = <<"handler", d>>
      BY <1>1, <1>7, <2>1, <2>2
    <3>2. d \in Entries(todo) /\ phase = "cleanup"
      BY <1>1, <2>2, <3>1, FirstOf DEF TypeInv, TypeOK
    <3>3. heartbeat[d] = "ended"
      BY <1>0, <3>1 DEF HandlerInv, ReadyIsCleaned, Joining
    <3> QED  BY <1>2, <2>2, <3>1, <3>2, <3>3
  <2>3. CASE d # k[2]
    BY <1>3, <1>6, <2>1, <2>3 DEF HandlerInv, ReadyIsCleaned, Clean
  <2> QED  BY <2>2, <2>3
<1> QED  BY <1>8, <1>9, <1>10, <1>11, <1>12 DEF HandlerInv

LEMMA ClosesKeeps ==
  ASSUME TypeInv, HandlerInv, NEW k \in Runs, PoolCloses(k)
  PROVE  HandlerInv'
<1> DEFINE c == k[2]
           runs == [run EXCEPT ![k] = "done"]
           pools == [pool EXCEPT ![c] = "closed"]
<1>t. /\ c \in Devices /\ run \in [Runs -> RunStates] /\ ready \subseteq Devices
      /\ pool \in [Devices -> {"open", "closing", "closed"}] /\ todo \in Seq(Devices)
      /\ init \in [Devices -> {"new", "adding", "testing", "up", "failing", "failed", "cancelled"}]
  BY Owners DEF TypeInv, TypeOK
<1>0. /\ run[k] = "close"
      /\ UNCHANGED <<processing_tasks, worker, handlers, ready>>
  BY DEF PoolCloses
<1>1. /\ ~Unborn(c) /\ ~Forced /\ ~is_running[c]
      /\ k[1] = "init" => init[c] \in {"failing", "failed", "cancelled"}
      /\ k[1] = "handler" => phase = "cleanup" /\ todo # <<>> /\ c = todo[1]
  BY <1>0, <1>t, RunnersBorn DEF HandlerInv, StoppedIsJoined
<1>2. /\ runs \in [Runs -> RunStates] /\ pools \in [Devices -> {"open", "closing", "closed"}]
      /\ \A j \in Runs : runs[j] = IF j = k THEN "done" ELSE run[j]
      /\ \A d \in Devices : pools[d] = IF d = c THEN "closed" ELSE pool[d]
  BY <1>t DEF RunStates
<1>3. \A d \in Devices : AllEnded(d)' <=> AllEnded(d)
  BY <1>0, AllEndedKept
<1>4. \A e \in Devices : e # c => /\ runs[<<"init", e>>] = run[<<"init", e>>]
                                  /\ runs[<<"handler", e>>] = run[<<"handler", e>>]
  BY <1>2, RunNames, Owners
<1>5. /\ k[1] = "init" => k = <<"init", c>> /\ runs[<<"handler", c>>] = run[<<"handler", c>>]
      /\ k[1] = "handler" => k = <<"handler", c>> /\ runs[<<"init", c>>] = run[<<"init", c>>]
      /\ k[1] = "init" \/ k[1] = "handler"
  BY <1>t, <1>2, RunNames, Owners
<1>6. /\ \A j \in Runs : runs[j] \in Joining \cup {"close"} => ~is_running[j[2]]
      /\ \A d \in Devices : pools[d] # "open" => ~is_running[d]
      /\ \A d \in Devices : ~is_running[d] /\ ~AllEnded(d) => \E j \in Runs : j[2] = d /\ runs[j] \in Joining
  <2>1. \A j \in Runs : runs[j] \in Joining \cup {"close"} => ~is_running[j[2]]
    BY <1>2 DEF HandlerInv, StoppedIsJoined, Joining
  <2>2. \A d \in Devices : pools[d] # "open" => ~is_running[d]
    BY <1>1, <1>2 DEF HandlerInv, StoppedIsJoined
  <2>3. \A d \in Devices : ~is_running[d] /\ ~AllEnded(d) => \E j \in Runs : j[2] = d /\ run[j] \in Joining /\ j # k
    BY <1>0, <1>1 DEF HandlerInv, StoppedIsJoined, Joining
  <2>4. \A d \in Devices : ~is_running[d] /\ ~AllEnded(d) => \E j \in Runs : j[2] = d /\ runs[j] \in Joining
    BY <1>2, <2>3
  <2> QED  BY <2>1, <2>2, <2>4
<1>7. ASSUME NEW d \in Devices, d # c, runs[<<"handler", d>>] \notin {"none", "done"}
      PROVE  phase = "cleanup" /\ d = todo[1] /\ k[1] = "init"
  BY <1>1, <1>4, <1>5, <1>7 DEF HandlerInv, RunsInOrder
<1>8. CASE k[1] = "handler" /\ Len(todo) > 1
  <2> DEFINE e == todo[2]
             n == <<"handler", e>>
  <2>1. /\ todo' = Tail(todo) /\ UNCHANGED <<phase, init>>
        /\ Begins(n, runs, pools)
    BY <1>8 DEF PoolCloses
  <2>2. /\ e \in Devices /\ Tail(todo) # <<>> /\ Tail(todo)[1] = e /\ 2 \in DOMAIN todo
        /\ Entries(Tail(todo)) \subseteq Entries(todo) /\ Entries(todo) \subseteq Entries(Tail(todo)) \cup {c}
        /\ Tail(todo) \in Seq(Devices)
        /\ \A i \in DOMAIN Tail(todo) : i + 1 \in DOMAIN todo /\ i + 1 # 1 /\ Tail(todo)[i] = todo[i + 1]
        /\ Once(Tail(todo))
    BY <1>t, <1>1, <1>8, TailOnce DEF HandlerInv, RunsInOrder
  <2>3. e # c /\ run[n] = "none" /\ e \in Entries(Tail(todo)) /\ 1 \in DOMAIN todo
    <3>1. 1 \in DOMAIN todo
      BY <1>1, <1>8, <1>t, FirstOf
    <3>2. e # c
      BY <1>1, <1>8, <2>2, <3>1 DEF HandlerInv, RunsInOrder, Once
    <3>3. run[n] = "none"
      BY <1>1, <1>8, <2>2 DEF HandlerInv, RunsInOrder
    <3>4. e \in Entries(Tail(todo))
      BY <2>2, FirstOf
    <3> QED  BY <3>1, <3>2, <3>3, <3>4
  <2>4. n \in Runs /\ n[2] = e /\ n # k /\ runs[n] = "none"
    <3>1. n \in Runs /\ n[2] = e
      BY <2>2, Owners, RunNames
    <3> HIDE DEF n, e, runs, pools
    <3>2. n # k
      BY <2>3, <3>1
    <3> QED  BY <1>2, <2>3, <3>1, <3>2
  <2>n. n = <<"handler", e>>
    OBVIOUS
  <2> HIDE DEF e, n, runs, pools
  <2>5. /\ \A d \in Devices : d # e => /\ is_running'[d] = is_running[d] /\ pool'[d] = pools[d]
                                       /\ heartbeat'[d] = heartbeat[d]
        /\ heartbeat'[e] = "none" <=> heartbeat[e] = "none"
    BY <1>2, <2>1, <2>4, BeginsEffect
  <2>6. PICK s \in {"heartbeat", "stop", "close"} :
          /\ run' = [runs EXCEPT ![n] = s]
          /\ s = "heartbeat" => is_running'[e] = is_running[e]
          /\ s # "heartbeat" => heartbeat[e] = "none"
    BY <1>2, <2>1, <2>4, BeginsEffect
  <2>7. \A j \in Runs : run'[j] = IF j = n THEN s ELSE runs[j]
    BY <1>2, <2>6
  <2>8. /\ \A d \in Devices : run'[<<"init", d>>] = run[<<"init", d>>]
        /\ \A d \in Devices : d # c /\ d # e => run'[<<"handler", d>>] = run[<<"handler", d>>]
        /\ run'[<<"handler", c>>] = "done" /\ run'[<<"handler", e>>] = s
    <3>1. ASSUME NEW d \in Devices
          PROVE  run'[<<"init", d>>] = run[<<"init", d>>]
      <4>1. <<"init", d>> \in Runs /\ <<"init", d>> # n /\ <<"init", d>> # k
        BY <1>8, <2>2, <2>n, RunNames, Owners
      <4> QED  BY <1>2, <2>7, <4>1
    <3>2. ASSUME NEW d \in Devices, d # c, d # e
          PROVE  run'[<<"handler", d>>] = run[<<"handler", d>>]
      <4>1. <<"handler", d>> \in Runs /\ <<"handler", d>>[2] = d
        BY RunNames, Owners
      <4>2. <<"handler", d>> # n /\ <<"handler", d>> # k
        BY <2>4, <3>2, <4>1
      <4> QED  BY <1>2, <2>7, <4>1, <4>2
    <3>3. run'[<<"handler", c>>] = "done"
      BY <1>2, <1>5, <1>8, <1>t, <2>4, <2>7
    <3>4. run'[<<"handler", e>>] = s
      BY <2>4, <2>7, <2>n
    <3> QED  BY <3>1, <3>2, <3>3, <3>4
  <2>9. Entries(todo) \subseteq Entries(handlers) /\ e \in Entries(handlers) /\ c \in Entries(handlers)
    <3>1. c \in Entries(todo)
      BY <1>1, <1>8, <1>t, FirstOf
    <3> QED  BY <2>2, <2>3, <3>1 DEF HandlerInv, RunsInOrder
  <2>10. NothingBeforeStart'
    BY <1>0, <1>2, <2>1, <2>5, <2>9 DEF HandlerInv, NothingBeforeStart, Unborn, WorkersOf
  <2>11. RunsInOrder'
    <3>1. ASSUME NEW d \in Devices, run'[<<"handler", d>>] \notin {"none", "done"}
          PROVE  d = e
      BY <1>1, <1>8, <2>8, <3>1 DEF HandlerInv, RunsInOrder
    <3>2. ASSUME NEW i \in DOMAIN Tail(todo), i # 1
          PROVE  run'[<<"handler", Tail(todo)[i]>>] = "none"
      <4>1. Tail(todo)[i] \in Devices /\ Tail(todo)[i] # e
        <5>1. 1 \in DOMAIN Tail(todo)
          BY <2>2, FirstOf
        <5>2. Tail(todo)[i] # e
          BY <2>2, <3>2, <5>1 DEF Once
        <5> QED  BY <2>2, <5>2, ElementOfSeq, LenProperties
      <4>2. Tail(todo)[i] = todo[i + 1] /\ i + 1 # 1 /\ i + 1 \in DOMAIN todo
        BY <2>2
      <4>3. Tail(todo)[i] # c
        BY <1>1, <1>8, <2>3, <4>2 DEF HandlerInv, RunsInOrder, Once
      <4>4. run[<<"handler", todo[i + 1]>>] = "none"
        BY <1>1, <1>8, <4>2 DEF HandlerInv, RunsInOrder
      <4> QED  BY <2>8, <4>1, <4>2, <4>3, <4>4
    <3> QED  BY <1>0, <1>1, <1>8, <2>1, <2>2, <2>8, <3>1, <3>2 DEF HandlerInv, RunsInOrder, Forced
  <2>12. StoppedIsJoined'
    <3>1. runs[n] \notin Joining
      BY <2>4 DEF Joining
    <3> QED  BY <1>0, <1>2, <1>6, <2>1, <2>4, <3>1, StillJoined
  <2>13. UpIsRunning'
    <3>1. ASSUME NEW d \in Devices, init[d] \in {"testing", "up"},
                 run'[<<"handler", d>>] \in {"none", "heartbeat"}
          PROVE  is_running'[d]
      <4>1. d # c
        BY <2>8, <3>1
      <4>2. CASE d = e
        <5>1. s = "heartbeat"
          BY <2>8, <3>1, <4>2
        <5>2. is_running[e]
          BY <2>2, <2>3, <2>n, <3>1, <4>2 DEF HandlerInv, UpIsRunning
        <5> QED  BY <2>6, <4>2, <5>1, <5>2
      <4>3. CASE d # e
        BY <2>5, <2>8, <3>1, <4>1, <4>3 DEF HandlerInv, UpIsRunning
      <4> QED  BY <4>2, <4>3
    <3>2. \A d \in Devices : init[d] = "up" => heartbeat'[d] # "none"
      BY <2>5 DEF HandlerInv, UpIsRunning
    <3> QED  BY <1>0, <2>1, <3>1, <3>2 DEF HandlerInv, UpIsRunning
  <2>14. ReadyIsCleaned'
    <3> SUFFICES ASSUME NEW d \in ready
                 PROVE  /\ run'[<<"handler", d>>] \in Joining \cup {"close"} => heartbeat'[d] = "ended"
                        /\ run'[<<"handler", d>>] = "close" => AllEnded(d)
                        /\ d \in Entries(Tail(todo)) \/ (AllEnded(d) /\ heartbeat'[d] \in {"none", "ended"} /\ pool'[d] = "closed")
      BY <1>0, <1>1, <1>3, <1>8, <1>t, <2>1 DEF HandlerInv, ReadyIsCleaned, Clean
    <3>1. d \in Devices /\ init[d] = "up" /\ heartbeat[d] # "none"
      BY <1>t DEF HandlerInv, ReadyIsCleaned, UpIsRunning
    <3>2. CASE d = e
      BY <2>3, <2>6, <2>8, <3>1, <3>2 DEF Joining
    <3>3. CASE d = c
      <4>1. AllEnded(d) /\ heartbeat[d] = "ended"
        BY <1>0, <1>5, <1>8, <3>3 DEF HandlerInv, ReadyIsCleaned
      <4> QED  BY <1>2, <2>3, <2>5, <2>8, <3>1, <3>3, <4>1 DEF Joining
    <3>4. CASE d # e /\ d # c
      <4>1. /\ run'[<<"handler", d>>] = run[<<"handler", d>>] /\ heartbeat'[d] = heartbeat[d]
            /\ pool'[d] = pool[d]
        BY <1>2, <2>5, <2>8, <3>1, <3>4
      <4>2. /\ run[<<"handler", d>>] \in Joining \cup {"close"} => heartbeat[d] = "ended"
            /\ run[<<"handler", d>>] = "close" => AllEnded(d)
            /\ d \in Entries(todo) \/ Clean(d)
        BY <1>1, <1>8 DEF HandlerInv, ReadyIsCleaned
      <4> QED  BY <2>2, <3>4, <4>1, <4>2 DEF Clean
    <3> QED  BY <3>2, <3>3, <3>4
  <2> QED  BY <2>10, <2>11, <2>12, <2>13, <2>14 DEF HandlerInv
<1>9. CASE ~(k[1] = "handler" /\ Len(todo) > 1)
  <2>1. /\ run' = runs /\ pool' = pools
        /\ init' = IF k[1] = "init" THEN [init EXCEPT ![c] = "failed"] ELSE init
        /\ phase' = IF k[1] = "handler" THEN "completed" ELSE phase
        /\ UNCHANGED <<todo, heartbeat, is_running>>
    BY <1>9 DEF PoolCloses
  <2> HIDE DEF runs, pools
  <2>2. \A d \in Devices : /\ init'[d] = IF k[1] = "init" /\ d = c THEN "failed" ELSE init[d]
                           /\ k[1] = "init" /\ d = c => init[d] \in {"failing", "failed", "cancelled"}
    BY <1>1, <1>t, <2>1
  <2>3. k[1] = "handler" => \A d \in Entries(todo) : d = c
    <3>1. Len(todo) \in Nat /\ DOMAIN todo = 1 .. Len(todo)
      BY <1>t, LenProperties
    <3>2. k[1] = "handler" => \A i \in DOMAIN todo : i = 1
      BY <1>9, <3>1
    <3> QED  BY <1>1, <3>2 DEF Entries
  <2>4. NothingBeforeStart'
    BY <1>0, <1>1, <1>2, <2>1, <2>2 DEF HandlerInv, NothingBeforeStart, Unborn, WorkersOf
  <2>5. RunsInOrder'
    <3>1. ASSUME NEW d \in Devices, runs[<<"init", d>>] # "none"
          PROVE  init'[d] \in {"failing", "failed", "cancelled"}
      BY <1>4, <1>5, <2>2, <3>1 DEF HandlerInv, RunsInOrder
    <3>2. ASSUME NEW d \in Devices, runs[<<"handler", d>>] \notin {"none", "done"}
          PROVE  phase' = "cleanup" /\ d = todo[1]
      <4>1. CASE k[1] = "handler"
        <5>1. runs[<<"handler", c>>] = "done"
          BY <1>2, <1>5, <1>t, <4>1
        <5> QED  BY <1>7, <3>2, <4>1, <5>1
      <4>2. CASE k[1] = "init"
        BY <1>4, <1>5, <2>1, <3>2, <4>2 DEF HandlerInv, RunsInOrder
      <4> QED  BY <1>5, <4>1, <4>2
    <3>3. k[1] = "init" => \A d \in Devices : runs[<<"handler", d>>] = run[<<"handler", d>>]
      BY <1>4, <1>5
    <3>4. \A i \in DOMAIN todo : todo[i] \in Devices
      BY <1>t, ElementOfSeq, LenProperties
    <3>5. phase' = "starting" => \A d \in Devices : runs[<<"handler", d>>] = "none"
      BY <1>5, <2>1, <3>3 DEF HandlerInv, RunsInOrder
    <3>6. phase' = "cleanup" => /\ todo # <<>>
                                /\ \A i \in DOMAIN todo : i # 1 => runs[<<"handler", todo[i]>>] = "none"
      BY <1>5, <2>1, <3>3, <3>4 DEF HandlerInv, RunsInOrder
    <3>7. ~Forced'
      BY <1>1, <2>1 DEF Forced
    <3> QED  BY <1>0, <2>1, <3>1, <3>2, <3>5, <3>6, <3>7 DEF HandlerInv, RunsInOrder
  <2>6. StoppedIsJoined'
    BY <1>3, <1>6, <2>1 DEF StoppedIsJoined
  <2>7. UpIsRunning'
    <3> SUFFICES ASSUME NEW d \in Devices, init'[d] \in {"testing", "up"}
                 PROVE  /\ d \in Entries(handlers)
                        /\ init'[d] = "up" => heartbeat[d] # "none"
                        /\ runs[<<"handler", d>>] \in {"none", "heartbeat"} => is_running[d]
      BY <1>0, <2>1 DEF UpIsRunning
    <3>1. init[d] = init'[d]
      BY <2>2
    <3>2. runs[<<"handler", d>>] \in {"none", "heartbeat"} => runs[<<"handler", d>>] = run[<<"handler", d>>]
      BY <1>2, <1>4, <1>5, <1>t
    <3> QED  BY <3>1, <3>2 DEF HandlerInv, UpIsRunning
  <2>8. ReadyIsCleaned'
    <3> SUFFICES ASSUME NEW d \in ready
                 PROVE  /\ phase' # "starting" /\ init'[d] = "up"
                        /\ runs[<<"handler", d>>] \in Joining \cup {"close"} => heartbeat[d] = "ended"
                        /\ runs[<<"handler", d>>] = "close" => AllEnded(d)
                        /\ phase' = "cleanup" => d \in Entries(todo) \/ (Clean(d) /\ pools[d] = "closed")
                        /\ phase' = "completed" => AllEnded(d) /\ heartbeat[d] \in {"none", "ended"} /\ pools[d] = "closed"
      BY <1>0, <1>3, <1>t, <2>1 DEF ReadyIsCleaned, Clean
    <3>1. d \in Devices /\ init[d] = "up" /\ phase # "starting"
      BY <1>t DEF HandlerInv, ReadyIsCleaned
    <3>2. runs[<<"handler", d>>] \in Joining \cup {"close"} => runs[<<"handler", d>>] = run[<<"handler", d>>]
      BY <1>2, <1>4, <1>5, <3>1 DEF Joining
    <3>3. d = c => k[1] = "handler"
      BY <1>1, <1>5, <3>1
    <3>4. d = c => AllEnded(d) /\ heartbeat[d] = "ended" /\ pools[d] = "closed"
      BY <1>0, <1>2, <1>5, <3>1, <3>3 DEF HandlerInv, ReadyIsCleaned
    <3>5. d # c => pools[d] = pool[d]
      BY <1>2, <3>1
    <3>6. phase' = "completed" => AllEnded(d) /\ heartbeat[d] \in {"none", "ended"} /\ pools[d] = "closed"
      BY <1>1, <1>5, <2>1, <2>3, <3>4, <3>5 DEF HandlerInv, ReadyIsCleaned, Clean
    <3>7. phase' = "cleanup" => d \in Entries(todo) \/ (Clean(d) /\ pools[d] = "closed")
      BY <2>1, <3>4, <3>5 DEF HandlerInv, ReadyIsCleaned, Clean
    <3> QED  BY <1>t, <2>1, <2>2, <3>1, <3>2, <3>3, <3>6, <3>7 DEF HandlerInv, ReadyIsCleaned
  <2> QED  BY <2>4, <2>5, <2>6, <2>7, <2>8 DEF HandlerInv
<1> QED  BY <1>8, <1>9

LEMMA InitializeKeeps ==
  ASSUME TypeInv, HandlerInv, NEW d \in Devices, Initialize(d) \/ Tested(d) \/ HeartbeatEnds(d)
  PROVE  HandlerInv'
<1>t. /\ ready \subseteq Devices /\ heartbeat \in [Devices -> {"none", "live", "cancelled", "ended"}]
      /\ init \in [Devices -> {"new", "adding", "testing", "up", "failing", "failed", "cancelled"}]
  BY DEF TypeInv, TypeOK
<1>0. /\ UNCHANGED <<is_running, processing_tasks, worker, pool, handlers, run, phase, todo, ready>>
      /\ \A e \in Devices : e # d => init'[e] = init[e] /\ heartbeat'[e] = heartbeat[e]
  BY <1>t DEF Initialize, Tested, HeartbeatEnds, queueVars, shutdownVars
<1>1. \A e \in Devices : AllEnded(e)' <=> AllEnded(e)
  BY <1>0, AllEndedKept
<1>2. \/ /\ init[d] = "new" /\ init'[d] = "adding" /\ heartbeat'[d] = heartbeat[d] /\ ~Forced
      \/ /\ init[d] = "testing" /\ init'[d] = "up" /\ heartbeat'[d] = "live" /\ ~Forced
      \/ init'[d] = init[d] /\ heartbeat'[d] = "ended" /\ heartbeat[d] \in {"live", "cancelled"}
  <2>1. CASE Initialize(d)
    BY <1>t, <2>1 DEF Initialize, Forced
  <2>2. CASE Tested(d)
    BY <1>t, <2>2 DEF Tested, HandlerInv, RunsInOrder
  <2>3. CASE HeartbeatEnds(d)
    BY <1>t, <2>3 DEF HeartbeatEnds
  <2> QED  BY <2>1, <2>2, <2>3
<1>3. NothingBeforeStart'
  BY <1>0, <1>2 DEF HandlerInv, NothingBeforeStart, Unborn, WorkersOf
<1>4. RunsInOrder'
  <2>1. ASSUME NEW e \in Devices, run[<<"init", e>>] # "none"
        PROVE  init'[e] \in {"failing", "failed", "cancelled"}
    BY <1>0, <1>2, <2>1 DEF HandlerInv, RunsInOrder
  <2>2. Forced => \A e \in Devices : init'[e] = init[e]
    BY <1>0, <1>2
  <2> QED  BY <1>0, <2>1, <2>2 DEF HandlerInv, RunsInOrder, Forced
<1>5. StoppedIsJoined'
  BY <1>0, <1>1 DEF HandlerInv, StoppedIsJoined, Forced
<1>6. UpIsRunning'
  <2> SUFFICES ASSUME NEW e \in Devices, init'[e] \in {"testing", "up"}
               PROVE  /\ e \in Entries(handlers)
                      /\ init'[e] = "up" => heartbeat'[e] # "none"
                      /\ run[<<"handler", e>>] \in {"none", "heartbeat"} => is_running[e]
    BY <1>0 DEF UpIsRunning
  <2>1. init[e] \in {"testing", "up"} /\ (init'[e] = "up" => heartbeat'[e] # "none")
    BY <1>0, <1>2 DEF HandlerInv, UpIsRunning
  <2> QED  BY <2>1 DEF HandlerInv, UpIsRunning
<1>7. ReadyIsCleaned'
  <2> SUFFICES ASSUME NEW e \in ready
               PROVE  /\ init'[e] = "up"
                      /\ heartbeat[e] = "ended" => heartbeat'[e] = "ended"
                      /\ heartbeat[e] \in {"none", "ended"} => heartbeat'[e] \in {"none", "ended"}
    BY <1>0, <1>1, <1>t DEF HandlerInv, ReadyIsCleaned, Clean
  <2> QED  BY <1>0, <1>2, <1>t DEF HandlerInv, ReadyIsCleaned
<1> QED  BY <1>3, <1>4, <1>5, <1>6, <1>7 DEF HandlerInv

LEMMA AddedKeeps ==
  ASSUME TypeInv, HandlerInv, NEW d \in Devices, Added(d)
  PROVE  HandlerInv'
<1>t. /\ ready \subseteq Devices /\ handlers \in Seq(Devices) /\ is_running \in [Devices -> BOOLEAN]
      /\ worker \in [Workers -> Worker]
      /\ init \in [Devices -> {"new", "adding", "testing", "up", "failing", "failed", "cancelled"}]
  BY DEF TypeInv, TypeOK, QueueTypeOK
<1>0. /\ UNCHANGED <<processing_tasks, heartbeat, pool, run, phase, todo, ready>>
      /\ init[d] = "adding" /\ init'[d] = "testing" /\ handlers' = Append(handlers, d)
      /\ \A e \in Devices : e # d => init'[e] = init[e]
  BY <1>t DEF Added, shutdownVars
<1>1. /\ d \notin Entries(handlers) /\ pool[d] = "open" /\ ~is_running[d] /\ ~Forced
      /\ d \notin ready
  BY <1>0 DEF HandlerInv, NothingBeforeStart, Unborn, RunsInOrder, ReadyIsCleaned
<1>2. /\ is_running'[d] /\ \A e \in Devices : e # d => is_running'[e] = is_running[e]
      /\ \A w \in Workers : Of(w) # d => worker'[w] = worker[w]
  BY <1>1, <1>t DEF Added, StartWorkers
<1>3. Entries(handlers') = Entries(handlers) \cup {d} /\ Once(handlers')
  BY <1>0, <1>1, <1>t, AppendOnce DEF HandlerInv, RunsInOrder
<1>4. \A e \in Devices : e # d => (AllEnded(e)' <=> AllEnded(e))
  BY <1>2 DEF AllEnded, WorkersOf
<1>5. \A k \in Runs : k[2] = d => run[k] \in {"none", "done"}
  BY <1>0, RunnersBorn DEF Unborn
<1>6. NothingBeforeStart'
  <2> SUFFICES ASSUME NEW e \in Devices, init'[e] \in {"new", "adding"}
               PROVE  /\ e \notin Entries(handlers')
                      /\ pool[e] = "open" /\ ~is_running'[e] /\ processing_tasks[e] = {}
                      /\ \A w \in WorkersOf(e) : worker'[w].st = "none" /\ ~worker'[w].cancel
    BY <1>0 DEF NothingBeforeStart, Unborn, WorkersOf
  <2>1. e # d /\ init[e] \in {"new", "adding"}
    BY <1>0
  <2> QED  BY <1>2, <1>3, <2>1 DEF HandlerInv, NothingBeforeStart, Unborn, WorkersOf
<1>7. RunsInOrder'
  <2>1. ASSUME NEW e \in Devices, run[<<"init", e>>] # "none"
        PROVE  init'[e] \in {"failing", "failed", "cancelled"}
    BY <1>0, <2>1 DEF HandlerInv, RunsInOrder
  <2> QED  BY <1>0, <1>1, <1>3, <2>1 DEF HandlerInv, RunsInOrder, Forced
<1>8. StoppedIsJoined'
  <2>1. ASSUME NEW k \in Runs, run[k] \in Joining \cup {"close"}
        PROVE  ~is_running'[k[2]]
    <3>1. k[2] \in Devices /\ k[2] # d
      BY <1>5, <2>1, Owners DEF Joining
    <3> QED  BY <1>2, <2>1, <3>1 DEF HandlerInv, StoppedIsJoined
  <2>2. ASSUME NEW e \in Devices, pool[e] # "open"
        PROVE  ~is_running'[e]
    BY <1>1, <1>2, <2>2 DEF HandlerInv, StoppedIsJoined
  <2>3. ASSUME NEW e \in Devices, ~is_running'[e], ~AllEnded(e)'
        PROVE  \E k \in Runs : k[2] = e /\ run[k] \in Joining
    BY <1>1, <1>2, <1>4, <2>3 DEF HandlerInv, StoppedIsJoined
  <2> QED  BY <1>0, <2>1, <2>2, <2>3 DEF StoppedIsJoined
<1>9. UpIsRunning'
  <2> SUFFICES ASSUME NEW e \in Devices, init'[e] \in {"testing", "up"}
               PROVE  /\ e \in Entries(handlers')
                      /\ init'[e] = "up" => heartbeat[e] # "none"
                      /\ run[<<"handler", e>>] \in {"none", "heartbeat"} => is_running'[e]
    BY <1>0 DEF UpIsRunning
  <2> QED  BY <1>0, <1>2, <1>3 DEF HandlerInv, UpIsRunning
<1>10. ReadyIsCleaned'
  <2> SUFFICES ASSUME NEW e \in ready
               PROVE  init'[e] = "up" /\ (AllEnded(e)' <=> AllEnded(e))
    BY <1>0 DEF HandlerInv, ReadyIsCleaned, Clean
  <2> QED  BY <1>0, <1>1, <1>4, <1>t DEF HandlerInv, ReadyIsCleaned
<1> QED  BY <1>6, <1>7, <1>8, <1>9, <1>10 DEF HandlerInv

LEMMA TestFailsKeeps ==
  ASSUME TypeInv, HandlerInv, NEW d \in Devices, TestFails(d)
  PROVE  HandlerInv'
<1> DEFINE k == <<"init", d>>
<1>t. /\ ready \subseteq Devices /\ run \in [Runs -> RunStates]
      /\ pool \in [Devices -> {"open", "closing", "closed"}]
      /\ init \in [Devices -> {"new", "adding", "testing", "up", "failing", "failed", "cancelled"}]
  BY DEF TypeInv, TypeOK
<1>0. /\ UNCHANGED <<processing_tasks, worker, handlers, phase, todo, ready>>
      /\ init[d] = "testing" /\ init'[d] = "failing"
      /\ \A e \in Devices : e # d => init'[e] = init[e]
      /\ Begins(k, run, pool)
  BY <1>t DEF TestFails
<1>1. /\ ~Forced /\ run[k] = "none" /\ d \notin ready
  BY <1>0 DEF HandlerInv, RunsInOrder, ReadyIsCleaned
<1>2. k \in Runs /\ k[2] = d /\ \A e \in Devices : <<"handler", e>> \in Runs /\ <<"handler", e>> # k
  BY Owners, RunNames
<1>i. \A e \in Devices : <<"init", e>> \in Runs /\ (e # d => <<"init", e>> # k)
  BY Owners, RunNames
<1> HIDE DEF k
<1>3. \A e \in Devices : e # d => is_running'[e] = is_running[e] /\ pool'[e] = pool[e] /\ heartbeat'[e] = heartbeat[e]
  BY <1>0, <1>2, <1>t, BeginsEffect
<1>4. \E s : run' = [run EXCEPT ![k] = s]
  BY <1>0, <1>2, <1>t, BeginsEffect
<1>5. /\ \A e \in Devices : run'[<<"handler", e>>] = run[<<"handler", e>>]
      /\ \A e \in Devices : e # d => run'[<<"init", e>>] = run[<<"init", e>>]
  BY <1>2, <1>4, <1>i
<1>6. \A e \in Devices : AllEnded(e)' <=> AllEnded(e)
  BY <1>0, AllEndedKept
<1>7. NothingBeforeStart'
  BY <1>0, <1>3 DEF HandlerInv, NothingBeforeStart, Unborn, WorkersOf
<1>8. RunsInOrder'
  <2>1. ASSUME NEW e \in Devices, run'[<<"init", e>>] # "none"
        PROVE  init'[e] \in {"failing", "failed", "cancelled"}
    BY <1>0, <1>5, <2>1 DEF HandlerInv, RunsInOrder
  <2>2. \A i \in DOMAIN todo : todo[i] \in Devices
    BY ElementOfSeq, LenProperties DEF TypeInv, TypeOK
  <2> QED  BY <1>0, <1>1, <1>5, <2>1, <2>2 DEF HandlerInv, RunsInOrder, Forced
<1>9. StoppedIsJoined'
  BY <1>0, <1>1, <1>2, <1>t, StillJoined DEF HandlerInv, StoppedIsJoined, Joining
<1>10. UpIsRunning'
  <2> SUFFICES ASSUME NEW e \in Devices, init'[e] \in {"testing", "up"}
               PROVE  /\ e \in Entries(handlers)
                      /\ init'[e] = "up" => heartbeat'[e] # "none"
                      /\ run'[<<"handler", e>>] \in {"none", "heartbeat"} => is_running'[e]
    BY <1>0 DEF UpIsRunning
  <2>1. e # d
    BY <1>0
  <2> QED  BY <1>0, <1>3, <1>5, <2>1 DEF HandlerInv, UpIsRunning
<1>11. ReadyIsCleaned'
  <2> SUFFICES ASSUME NEW e \in ready
               PROVE  /\ init'[e] = "up" /\ heartbeat'[e] = heartbeat[e] /\ pool'[e] = pool[e]
                      /\ run'[<<"handler", e>>] = run[<<"handler", e>>]
    BY <1>0, <1>6, <1>t DEF HandlerInv, ReadyIsCleaned, Clean
  <2>1. e # d /\ e \in Devices
    BY <1>1, <1>t
  <2> QED  BY <1>0, <1>3, <1>5, <2>1 DEF HandlerInv, ReadyIsCleaned
<1> QED  BY <1>7, <1>8, <1>9, <1>10, <1>11 DEF HandlerInv

LEMMA SignalKeeps ==
  ASSUME TypeInv, HandlerInv, Signal
  PROVE  HandlerInv'
<1>t. /\ run \in [Runs -> RunStates] /\ pool \in [Devices -> {"open", "closing", "closed"}]
      /\ handlers \in Seq(Devices)
  BY DEF TypeInv, TypeOK
<1>0. /\ UNCHANGED <<processing_tasks, worker, init, handlers>>
      /\ phase = "starting" /\ todo' = handlers /\ ready' = {d \in Devices : init[d] = "up"}
  BY DEF Signal
<1>1. ~Forced /\ \A d \in Devices : run[<<"handler", d>>] = "none"
  BY <1>0 DEF HandlerInv, RunsInOrder, Forced
<1>2. \A d \in Devices : AllEnded(d)' <=> AllEnded(d)
  BY <1>0, AllEndedKept
<1>3. CASE handlers = <<>>
  <2>1. phase' = "completed" /\ UNCHANGED <<run, heartbeat, pool, is_running>>
    BY <1>3 DEF Signal
  <2>2. Entries(handlers) = {}
    BY <1>3 DEF Entries
  <2>3. ready' = {}
    BY <1>0, <2>2 DEF HandlerInv, UpIsRunning
  <2>4. NothingBeforeStart' /\ UpIsRunning'
    BY <1>0, <2>1 DEF HandlerInv, NothingBeforeStart, Unborn, WorkersOf, UpIsRunning
  <2>5. RunsInOrder'
    BY <1>0, <1>1, <2>1 DEF HandlerInv, RunsInOrder, Forced
  <2>6. StoppedIsJoined'
    BY <1>1, <1>2, <2>1 DEF HandlerInv, StoppedIsJoined
  <2>7. ReadyIsCleaned'
    BY <2>3 DEF ReadyIsCleaned
  <2> QED  BY <2>4, <2>5, <2>6, <2>7 DEF HandlerInv
<1>4. CASE handlers # <<>>
  <2> DEFINE e == Head(handlers)
             n == <<"handler", e>>
  <2>1. phase' = "cleanup" /\ Begins(n, run, pool)
    BY <1>4 DEF Signal
  <2>2. e \in Devices /\ e = handlers[1] /\ e \in Entries(handlers) /\ 1 \in DOMAIN handlers
    BY <1>4, <1>t, FirstOf
  <2>3. n \in Runs /\ n[2] = e
    BY <2>2, Owners, RunNames
  <2>n. n = <<"handler", e>>
    OBVIOUS
  <2> HIDE DEF e, n
  <2>4. run[n] = "none"
    BY <1>1, <2>2, <2>n
  <2>5. /\ \A d \in Devices : d # e => /\ is_running'[d] = is_running[d] /\ pool'[d] = pool[d]
                                       /\ heartbeat'[d] = heartbeat[d]
        /\ heartbeat'[e] = "none" <=> heartbeat[e] = "none"
    BY <1>t, <2>1, <2>3, BeginsEffect
  <2>6. PICK s \in {"heartbeat", "stop", "close"} :
          /\ run' = [run EXCEPT ![n] = s]
          /\ s = "heartbeat" => is_running'[e] = is_running[e]
          /\ s # "heartbeat" => heartbeat[e] = "none"
    BY <1>t, <2>1, <2>3, BeginsEffect
  <2>7. \A j \in Runs : run'[j] = IF j = n THEN s ELSE run[j]
    BY <1>t, <2>6
  <2>8. /\ \A d \in Devices : run'[<<"init", d>>] = run[<<"init", d>>]
        /\ \A d \in Devices : d # e => run'[<<"handler", d>>] = "none"
        /\ run'[<<"handler", e>>] = s
    <3>1. ASSUME NEW d \in Devices
          PROVE  run'[<<"init", d>>] = run[<<"init", d>>]
      <4>1. <<"init", d>> \in Runs /\ <<"init", d>> # n
        BY <2>2, <2>n, RunNames, Owners
      <4> QED  BY <2>7, <4>1
    <3>2. ASSUME NEW d \in Devices, d # e
          PROVE  run'[<<"handler", d>>] = "none"
      <4>1. <<"handler", d>> \in Runs /\ <<"handler", d>> # n
        BY <2>3, <3>2, RunNames, Owners
      <4> QED  BY <1>1, <2>7, <4>1
    <3>3. run'[<<"handler", e>>] = s
      BY <2>3, <2>7, <2>n
    <3> QED  BY <3>1, <3>2, <3>3
  <2>9. NothingBeforeStart'
    BY <1>0, <2>2, <2>5 DEF HandlerInv, NothingBeforeStart, Unborn, WorkersOf
  <2>10. RunsInOrder'
    <3>1. ASSUME NEW i \in DOMAIN handlers, i # 1
          PROVE  run'[<<"handler", handlers[i]>>] = "none"
      <4>1. handlers[i] \in Devices /\ handlers[i] # e
        BY <1>t, <2>2, <3>1, ElementOfSeq, LenProperties DEF HandlerInv, RunsInOrder, Once
      <4> QED  BY <2>8, <4>1
    <3> QED  BY <1>0, <1>4, <2>1, <2>2, <2>8, <3>1 DEF HandlerInv, RunsInOrder, Forced
  <2>11. StoppedIsJoined'
    BY <1>0, <1>1, <1>t, <2>1, <2>3, <2>4, StillJoined DEF HandlerInv, StoppedIsJoined, Joining
  <2>12. UpIsRunning'
    <3> SUFFICES ASSUME NEW d \in Devices, init[d] \in {"testing", "up"}
                 PROVE  /\ init[d] = "up" => heartbeat'[d] # "none"
                        /\ run'[<<"handler", d>>] \in {"none", "heartbeat"} => is_running'[d]
      BY <1>0 DEF HandlerInv, UpIsRunning
    <3>1. is_running[d] /\ (init[d] = "up" => heartbeat[d] # "none")
      BY <1>1 DEF HandlerInv, UpIsRunning
    <3> QED  BY <2>5, <2>6, <2>8, <3>1
  <2>13. ReadyIsCleaned'
    <3> SUFFICES ASSUME NEW d \in Devices, init[d] = "up"
                 PROVE  /\ run'[<<"handler", d>>] \notin Joining \cup {"close"}
                        /\ d \in Entries(handlers)
      BY <1>0, <2>1 DEF ReadyIsCleaned, Joining
    <3>1. heartbeat[d] # "none" /\ d \in Entries(handlers)
      BY DEF HandlerInv, UpIsRunning
    <3> QED  BY <2>6, <2>8, <3>1 DEF Joining
  <2> QED  BY <2>9, <2>10, <2>11, <2>12, <2>13 DEF HandlerInv
<1> QED  BY <1>3, <1>4

LEMMA TimeoutKeeps ==
  ASSUME TypeInv, HandlerInv, HandlerTimesOut
  PROVE  HandlerInv'
<1> DEFINE d == Head(todo)
           k == <<"handler", d>>
<1>t. run \in [Runs -> RunStates] /\ worker \in [Workers -> Worker] /\ ready \subseteq Devices
  BY DEF TypeInv, TypeOK, QueueTypeOK
<1>0. /\ phase = "cleanup" /\ run[k] = "stop" /\ run' = [run EXCEPT ![k] = "interrupted"]
      /\ CancelWorkers({d})
      /\ UNCHANGED <<processing_tasks, is_running, init, heartbeat, pool, handlers, phase, todo, ready>>
  BY DEF HandlerTimesOut, deviceVars
<1>1. todo # <<>> /\ d = todo[1] /\ d \in Devices /\ ~Forced
  BY <1>0, FirstOf DEF HandlerInv, RunsInOrder, TypeInv, TypeOK, Forced
<1>2. k \in Runs /\ k[2] = d
  BY <1>1, Owners, RunNames
<1>n. k = <<"handler", d>>
  OBVIOUS
<1> HIDE DEF k, d
<1>3. \A j \in Runs : run'[j] = IF j = k THEN "interrupted" ELSE run[j]
  BY <1>0, <1>t
<1>4. /\ \A e \in Devices : run'[<<"init", e>>] = run[<<"init", e>>]
      /\ \A e \in Devices : e # d => run'[<<"handler", e>>] = run[<<"handler", e>>]
      /\ run'[<<"handler", d>>] = "interrupted" /\ run[<<"handler", d>>] = "stop"
  <2>1. ASSUME NEW e \in Devices
        PROVE  run'[<<"init", e>>] = run[<<"init", e>>]
    <3>1. <<"init", e>> \in Runs /\ <<"init", e>> # k
      BY <1>1, <1>n, RunNames, Owners
    <3> QED  BY <1>3, <3>1
  <2>2. ASSUME NEW e \in Devices, e # d
        PROVE  run'[<<"handler", e>>] = run[<<"handler", e>>]
    <3>1. <<"handler", e>> \in Runs /\ <<"handler", e>> # k
      BY <1>2, <2>2, RunNames, Owners
    <3> QED  BY <1>3, <3>1
  <2> QED  BY <1>0, <1>2, <1>3, <1>n, <2>1, <2>2
<1>5. \A w \in Workers : /\ worker'[w].st = worker[w].st
                         /\ worker'[w].cancel => worker[w].cancel \/ worker[w].st # "none"
  BY <1>0, CancelKeeps
<1>6. \A e \in Devices : AllEnded(e)' <=> AllEnded(e)
  BY <1>5, AllEndedKept
<1>7. NothingBeforeStart'
  BY <1>0, <1>5 DEF HandlerInv, NothingBeforeStart, Unborn, WorkersOf
<1>8. RunsInOrder'
  <2>1. \A i \in DOMAIN todo : todo[i] \in Devices
    BY ElementOfSeq, LenProperties DEF TypeInv, TypeOK
  <2>2. ASSUME NEW e \in Devices, run'[<<"handler", e>>] \notin {"none", "done"}
        PROVE  e = todo[1]
    BY <1>1, <1>4, <2>2 DEF HandlerInv, RunsInOrder
  <2>3. ASSUME NEW i \in DOMAIN todo, i # 1
        PROVE  run'[<<"handler", todo[i]>>] = "none"
    <3>1. run[<<"handler", todo[i]>>] = "none"
      BY <1>0, <2>3 DEF HandlerInv, RunsInOrder
    <3> QED  BY <1>4, <2>1, <3>1
  <2> QED  BY <1>0, <1>1, <1>4, <2>2, <2>3 DEF HandlerInv, RunsInOrder, Forced
<1>9. StoppedIsJoined'
  <2>1. \A j \in Runs : (run'[j] \in Joining <=> run[j] \in Joining) /\ (run'[j] = "close" <=> run[j] = "close")
    BY <1>0, <1>3 DEF Joining
  <2> QED  BY <1>0, <1>6, <2>1 DEF HandlerInv, StoppedIsJoined, Forced
<1>10. UpIsRunning'
  BY <1>0, <1>4 DEF HandlerInv, UpIsRunning
<1>11. ReadyIsCleaned'
  <2> SUFFICES ASSUME NEW e \in ready
               PROVE  /\ run'[<<"handler", e>>] \in Joining \cup {"close"} => heartbeat[e] = "ended"
                      /\ run'[<<"handler", e>>] = "close" => AllEnded(e)
    BY <1>0, <1>6, <1>t DEF HandlerInv, ReadyIsCleaned, Clean
  <2> QED  BY <1>1, <1>4, <1>t DEF HandlerInv, ReadyIsCleaned, Joining
<1> QED  BY <1>7, <1>8, <1>9, <1>10, <1>11 DEF HandlerInv

LEMMA ForceKeeps ==
  ASSUME TypeInv, HandlerInv, ForceShutdown
  PROVE  HandlerInv'
<1>t. ready \subseteq Devices
  BY DEF TypeInv, TypeOK
<1>0. /\ phase' = "force" /\ Forced'
      /\ \A r \in Runs : run'[r] = IF run[r] = "none" THEN "none" ELSE "done"
      /\ UNCHANGED <<processing_tasks, is_running, pool, handlers, todo, ready>>
      /\ \A d \in Devices :
           /\ heartbeat'[d] = IF heartbeat[d] = "live" THEN "cancelled" ELSE heartbeat[d]
           /\ init'[d] = IF init[d] \in {"adding", "testing", "failing"} THEN "cancelled" ELSE init[d]
  BY DEF ForceShutdown, ForceCancels, Forced
<1>1. \A w \in Workers : /\ worker'[w].st = worker[w].st
                         /\ worker'[w].cancel => worker[w].cancel \/ worker[w].st # "none"
  BY CancelKeeps DEF ForceShutdown, ForceCancels
<1>2. NothingBeforeStart'
  BY <1>0, <1>1 DEF HandlerInv, NothingBeforeStart, Unborn, WorkersOf
<1>3. RunsInOrder'
  <2>1. ASSUME NEW d \in Devices, run'[<<"init", d>>] # "none"
        PROVE  init'[d] \in {"failing", "failed", "cancelled"}
    BY <1>0, <2>1, Owners DEF HandlerInv, RunsInOrder
  <2>2. \A d \in Devices : run'[<<"handler", d>>] \in {"none", "done"}
    BY <1>0, Owners
  <2> QED  BY <1>0, <2>1, <2>2 DEF HandlerInv, RunsInOrder
<1>4. StoppedIsJoined'
  BY <1>0 DEF HandlerInv, StoppedIsJoined, Joining
<1>5. UpIsRunning'
  <2> SUFFICES ASSUME NEW d \in Devices, init'[d] \in {"testing", "up"}
               PROVE  /\ d \in Entries(handlers)
                      /\ heartbeat'[d] # "none"
                      /\ run'[<<"handler", d>>] \in {"none", "heartbeat"} => is_running[d]
    BY <1>0 DEF UpIsRunning
  <2>1. init[d] = "up"
    BY <1>0
  <2>2. run'[<<"handler", d>>] \in {"none", "heartbeat"} => run[<<"handler", d>>] = "none"
    BY <1>0, Owners
  <2> QED  BY <1>0, <2>1, <2>2 DEF HandlerInv, UpIsRunning
<1>6. ReadyIsCleaned'
  <2> SUFFICES ASSUME NEW d \in ready
               PROVE  init'[d] = "up" /\ run'[<<"handler", d>>] \notin Joining \cup {"close"}
    BY <1>0 DEF ReadyIsCleaned
  <2> QED  BY <1>0, <1>t, Owners DEF HandlerInv, ReadyIsCleaned, Joining
<1> QED  BY <1>2, <1>3, <1>4, <1>5, <1>6 DEF HandlerInv

LEMMA ForcedKeeps ==
  ASSUME TypeInv, HandlerInv, ForceAgain \/ ForceEnds
  PROVE  HandlerInv'
<1>0. /\ Forced /\ Forced' /\ phase' \in {"force_again", "forced"}
      /\ UNCHANGED <<processing_tasks, is_running, init, heartbeat, pool, handlers, run, todo, ready>>
  BY DEF ForceAgain, ForceEnds, Forced, queueVars, deviceVars
<1>1. \A w \in Workers : /\ worker'[w].st = worker[w].st
                         /\ worker'[w].cancel => worker[w].cancel \/ worker[w].st # "none"
  BY CancelKeeps DEF ForceAgain, ForceEnds, queueVars
<1>2. NothingBeforeStart'
  BY <1>0, <1>1 DEF HandlerInv, NothingBeforeStart, Unborn, WorkersOf
<1>3. RunsInOrder'
  BY <1>0, Owners DEF HandlerInv, RunsInOrder
<1>4. StoppedIsJoined' /\ UpIsRunning'
  BY <1>0 DEF HandlerInv, StoppedIsJoined, UpIsRunning
<1>5. ReadyIsCleaned'
  <2>1. \A d \in ready : run[<<"handler", d>>] \notin Joining \cup {"close"}
    BY <1>0, Owners DEF HandlerInv, RunsInOrder, TypeInv, TypeOK, Joining
  <2> QED  BY <1>0, <2>1 DEF HandlerInv, ReadyIsCleaned
<1> QED  BY <1>2, <1>3, <1>4, <1>5 DEF HandlerInv

LEMMA HandlerInvInductive ==
  /\ Init => HandlerInv
  /\ TypeInv /\ HandlerInv /\ [Next]_vars => HandlerInv'
<1>1. ASSUME Init
      PROVE  HandlerInv
  <2>1. \A w \in Workers : worker[w].st = "none" /\ ~worker[w].cancel
    BY <1>1 DEF Init, QueueInit, Waiting
  <2>2. \A d \in Devices : AllEnded(d)
    BY <2>1 DEF AllEnded, WorkersOf
  <2>3. Entries(<<>>) = {} /\ Once(<<>>)
    BY DEF Entries, Once
  <2> QED  BY <1>1, <2>1, <2>2, <2>3, Owners DEF Init, QueueInit, HandlerInv, NothingBeforeStart, RunsInOrder,
                StoppedIsJoined, UpIsRunning, ReadyIsCleaned, Joining, Forced, WorkersOf, Unborn
<1>2. ASSUME TypeInv, HandlerInv, Next
      PROVE  HandlerInv'
  BY <1>2, QueueKeepsHandlers, GatheredKeeps, JoinedKeeps, ClosesKeeps, InitializeKeeps, AddedKeeps,
     TestFailsKeeps, SignalKeeps, TimeoutKeeps, ForceKeeps, ForcedKeeps DEF Next
<1>3. ASSUME HandlerInv, UNCHANGED vars
      PROVE  HandlerInv'
  BY <1>3 DEF HandlerInv, NothingBeforeStart, RunsInOrder, StoppedIsJoined, UpIsRunning, ReadyIsCleaned, Clean,
              Forced, AllEnded, WorkersOf, Unborn, vars, queueVars, deviceVars, shutdownVars
<1> QED  BY <1>1, <1>2, <1>3

LEMMA HandlerInvHolds == Spec => [](TypeInv /\ HandlerInv)
<1>1. Init => TypeInv /\ HandlerInv
  BY TypeInvInductive, HandlerInvInductive
<1>2. TypeInv /\ HandlerInv /\ [Next]_vars => (TypeInv /\ HandlerInv)'
  BY TypeInvInductive, HandlerInvInductive
<1> QED  BY <1>1, <1>2, PTL DEF Spec

(* A pool is closed under a worker only while the call of _graceful_shutdown *)
(* that stopped the queue still waits for the worker (close after stop in    *)
(* _graceful_shutdown), whatever test, signal and timeout come together.     *)
THEOREM PoolClosedAfterWorkers == Spec => []ClosedAfterWorkers
<1>1. TypeInv /\ HandlerInv => ClosedAfterWorkers
  BY DEF HandlerInv, StoppedIsJoined, ClosedAfterWorkers, Joining
<1> QED  BY HandlerInvHolds, <1>1, PTL

(* The phase COMPLETED of shutdown() is reached only when every device that  *)
(* was up at the signal has no worker and no heartbeat left and its pool is  *)
(* closed, for any number of devices in any order of registration.           *)
THEOREM CompletedLeavesNothing == Spec => []CompletedMeansClean
<1>1. TypeInv /\ HandlerInv => CompletedMeansClean
  BY DEF HandlerInv, ReadyIsCleaned, Clean, CompletedMeansClean
<1> QED  BY HandlerInvHolds, <1>1, PTL

-----------------------------------------------------------------------------
(* The tasks.                                                               *)

(* What the other workers of w's queue execute.                             *)
Others(w) == {worker[v].task : v \in {u \in WorkersOf(Of(w)) : u # w /\ worker[u].st \in Busy}}

LEMMA ExecutingSplits ==
  ASSUME TypeInv, Places, NEW w \in Workers, \A v \in Workers : v # w => worker'[v] = worker[v]
  PROVE  /\ Executing(Of(w)) = Others(w) \cup (IF worker[w].st \in Busy THEN {worker[w].task} ELSE {})
         /\ Executing(Of(w))' = Others(w) \cup (IF worker'[w].st \in Busy THEN {worker'[w].task} ELSE {})
         /\ \A d \in Devices : d # Of(w) => Executing(d)' = Executing(d)
         /\ worker[w].task \in Tasks => worker[w].task \notin Others(w)
<1>1. WorkersOf(Of(w)) \subseteq Workers /\ w \in WorkersOf(Of(w))
  BY DEF WorkersOf
<1>2. Executing(Of(w)) = Others(w) \cup (IF worker[w].st \in Busy THEN {worker[w].task} ELSE {})
  BY <1>1 DEF Executing, Others, Busy
<1>3. Executing(Of(w))' = Others(w) \cup (IF worker'[w].st \in Busy THEN {worker'[w].task} ELSE {})
  <2>1. Executing(Of(w))' = {worker'[v].task : v \in {u \in WorkersOf(Of(w)) : worker'[u].st \in Busy}}
    BY DEF Executing, WorkersOf, Workers, Of, Busy
  <2>2. \A v \in WorkersOf(Of(w)) : v # w => worker'[v] = worker[v]
    BY <1>1
  <2> QED  BY <1>1, <2>1, <2>2 DEF Others
<1>4. ASSUME NEW d \in Devices, d # Of(w)
      PROVE  Executing(d)' = Executing(d)
  <2>1. \A v \in WorkersOf(d) : worker'[v] = worker[v]
    BY <1>4 DEF WorkersOf
  <2>2. Executing(d)' = {worker'[v].task : v \in {u \in WorkersOf(d) : worker'[u].st \in Busy}}
    BY DEF Executing, WorkersOf, Workers, Of, Busy
  <2>3. Executing(d) = {worker[v].task : v \in {u \in WorkersOf(d) : worker[u].st \in Busy}}
    BY DEF Executing, Busy
  <2> QED  BY <2>1, <2>2, <2>3
<1>5. worker[w].task \in Tasks => worker[w].task \notin Others(w)
  BY <1>1 DEF Others, Places
<1> QED  BY <1>2, <1>3, <1>4, <1>5

(* The table after a step of worker w: what it executes goes in and out of  *)
(* processing_tasks with it.                                                *)
LEMMA TableKept ==
  ASSUME TypeInv, Places, TableFollows, CancelledIsStopped, NEW w \in Workers,
         \A v \in Workers : v # w => worker'[v] = worker[v],
         UNCHANGED <<is_running, phase>>,
         \A d \in Devices : d # Of(w) => processing_tasks'[d] = processing_tasks[d],
         \/ /\ worker[w].st \in Busy <=> worker'[w].st \in Busy
            /\ worker[w].st \in Busy => worker'[w].task = worker[w].task
            /\ processing_tasks'[Of(w)] = processing_tasks[Of(w)]
         \/ /\ worker[w].st \notin Busy /\ worker'[w].st \in Busy
            /\ processing_tasks'[Of(w)] = processing_tasks[Of(w)] \cup {worker'[w].task}
         \/ /\ worker[w].st \in Busy /\ worker'[w].st \notin Busy
            /\ processing_tasks'[Of(w)] = processing_tasks[Of(w)] \ {worker[w].task}
         \/ /\ worker[w].st \in Busy /\ worker'[w].st \notin Busy /\ worker[w].cancel
            /\ processing_tasks'[Of(w)] = processing_tasks[Of(w)]
  PROVE  TableFollows'
<1> SUFFICES ASSUME NEW d \in Devices
             PROVE  /\ Executing(d)' \subseteq processing_tasks'[d]
                    /\ processing_tasks'[d] # Executing(d)' => ~is_running[d] \/ Forced
  BY DEF TableFollows, Forced
<1>1. /\ Executing(d) \subseteq processing_tasks[d]
      /\ processing_tasks[d] # Executing(d) => ~is_running[d] \/ Forced
  BY DEF TableFollows
<1>2. CASE d # Of(w)
  BY <1>1, <1>2, ExecutingSplits
<1>3. CASE d = Of(w)
  <2>1. worker[w].st \in Busy => worker[w].task \in Tasks
    BY DEF TypeInv, HoldsOrNot, Holding, Busy
  <2> DEFINE A == Executing(d)
             B == Executing(d)'
  <2>2. /\ A = Others(w) \cup (IF worker[w].st \in Busy THEN {worker[w].task} ELSE {})
        /\ B = Others(w) \cup (IF worker'[w].st \in Busy THEN {worker'[w].task} ELSE {})
        /\ worker[w].st \in Busy => worker[w].task \notin Others(w)
    BY <1>3, <2>1, ExecutingSplits
  <2>3. A \subseteq processing_tasks[d] /\ (processing_tasks[d] # A => ~is_running[d] \/ Forced)
    BY <1>1
  <2>4. worker[w].cancel => ~is_running[d] \/ Forced
    BY <1>3 DEF CancelledIsStopped
  <2> HIDE DEF A, B
  <2>5. /\ B \subseteq processing_tasks'[d]
        /\ processing_tasks'[d] # B => ~is_running[d] \/ Forced
    BY <1>3, <2>2, <2>3, <2>4
  <2> QED  BY <2>5 DEF A, B
<1> QED  BY <1>2, <1>3

(* What every step but those of the queue leaves to the tasks.              *)
LEMMA LifeEffect ==
  ASSUME TypeInv, HandlerInv, CancelledIsStopped,
         \/ \E k \in Runs : HeartbeatGathered(k) \/ WorkersJoined(k) \/ JoinTimesOut(k) \/ PoolCloses(k)
         \/ \E d \in Devices : Initialize(d) \/ Added(d) \/ Tested(d) \/ TestFails(d) \/ HeartbeatEnds(d)
         \/ Signal \/ HandlerTimesOut \/ ForceShutdown \/ ForceAgain \/ ForceEnds
  PROVE  /\ UNCHANGED <<pending_tasks, processing_tasks, completed_tasks>>
         /\ \A w \in Workers :
              /\ worker'[w].task \in Tasks <=> worker[w].task \in Tasks
              /\ worker[w].task \in Tasks => worker'[w].task = worker[w].task
              /\ worker'[w].st \in Busy <=> worker[w].st \in Busy
              /\ worker'[w].cancel => ~is_running'[Of(w)] \/ Forced'
         /\ \A t \in Tasks : client'[t] = client[t] \/ client'[t] = "over"
         /\ Forced => Forced'
         /\ \A d \in Devices : is_running'[d] => is_running[d] \/ (processing_tasks[d] = {} /\ Executing(d) = {})
<1>t. /\ is_running \in [Devices -> BOOLEAN] /\ \A w \in Workers : Of(w) \in Devices
      /\ worker \in [Workers -> Worker]
  BY Owners DEF TypeInv, TypeOK, QueueTypeOK
<1>a. ASSUME UNCHANGED <<pending_tasks, processing_tasks, completed_tasks, client, worker>>,
             Forced => Forced', \A d \in Devices : is_running'[d] => is_running[d]
      PROVE  /\ \A w \in Workers : worker'[w].cancel => ~is_running'[Of(w)] \/ Forced'
  BY <1>a, <1>t DEF CancelledIsStopped
<1>b. ASSUME NEW ds, CancelWorkers(ds), UNCHANGED is_running, Forced => Forced',
             \A d \in ds \cap Devices : ~is_running[d] \/ Forced'
      PROVE  \A w \in Workers : /\ worker'[w].st = worker[w].st /\ worker'[w].task = worker[w].task
                                /\ worker'[w].cancel => ~is_running'[Of(w)] \/ Forced'
  BY <1>b, <1>t, CancelKeeps DEF CancelledIsStopped
<1>1. ASSUME NEW k \in Runs, HeartbeatGathered(k)
      PROVE  /\ UNCHANGED <<pending_tasks, processing_tasks, completed_tasks, client, worker, phase>>
             /\ \A d \in Devices : is_running'[d] => is_running[d]
  BY <1>1, <1>t, Owners DEF HeartbeatGathered, StopsQueue
<1>2. ASSUME NEW k \in Runs, WorkersJoined(k)
      PROVE  UNCHANGED <<pending_tasks, processing_tasks, completed_tasks, client, worker, phase, is_running>>
  BY <1>2 DEF WorkersJoined, queueVars
<1>3. ASSUME NEW k \in Runs, JoinTimesOut(k)
      PROVE  /\ UNCHANGED <<pending_tasks, processing_tasks, completed_tasks, client, phase, is_running>>
             /\ CancelWorkers({k[2]}) /\ ~is_running[k[2]]
  BY <1>3 DEF JoinTimesOut, HandlerInv, StoppedIsJoined, Joining
<1>c. ASSUME NEW k, NEW runs, NEW pools, Begins(k, runs, pools)
      PROVE  \A d \in Devices : is_running'[d] => is_running[d]
  BY <1>c, <1>t DEF Begins, StopsQueue
<1>4. ASSUME NEW k \in Runs, PoolCloses(k)
      PROVE  /\ UNCHANGED <<pending_tasks, processing_tasks, completed_tasks, client, worker>>
             /\ Forced => Forced'
             /\ \A d \in Devices : is_running'[d] => is_running[d]
  <2>1. ~Forced
    BY <1>4, RunnersBorn DEF PoolCloses
  <2>2. UNCHANGED is_running \/ \E n, runs, pools : Begins(n, runs, pools)
    BY <1>4 DEF PoolCloses
  <2> QED  BY <1>4, <1>c, <2>1, <2>2 DEF PoolCloses
<1>5. ASSUME NEW d \in Devices, Initialize(d) \/ Tested(d) \/ HeartbeatEnds(d)
      PROVE  UNCHANGED <<pending_tasks, processing_tasks, completed_tasks, client, worker, phase, is_running>>
  BY <1>5 DEF Initialize, Tested, HeartbeatEnds, queueVars, shutdownVars
<1>6. ASSUME NEW d \in Devices, Added(d)
      PROVE  /\ UNCHANGED <<pending_tasks, processing_tasks, completed_tasks, client, phase>>
             /\ processing_tasks[d] = {} /\ Executing(d) = {}
             /\ \A e \in Devices : e # d => is_running'[e] = is_running[e]
             /\ \A w \in Workers : Of(w) # d => worker'[w] = worker[w]
             /\ \A w \in Workers : Of(w) = d => /\ worker'[w].task \notin Tasks /\ worker[w].task \notin Tasks
                                                /\ worker'[w].st \notin Busy /\ worker[w].st \notin Busy
                                                /\ ~worker'[w].cancel
  <2>1. /\ ~is_running[d] /\ processing_tasks[d] = {}
        /\ \A w \in WorkersOf(d) : worker[w].st = "none"
    BY <1>6 DEF Added, HandlerInv, NothingBeforeStart, Unborn
  <2>2. Executing(d) = {}
    BY <2>1 DEF Executing
  <2>3. /\ is_running' = [is_running EXCEPT ![d] = TRUE]
        /\ worker' = [w \in Workers |-> IF Of(w) = d THEN Waiting ELSE worker[w]]
    BY <1>6, <2>1 DEF Added, StartWorkers
  <2>4. \A w \in Workers : Of(w) = d => worker[w].task \notin Tasks /\ worker[w].st \notin Busy
    BY <2>1 DEF TypeInv, HoldsOrNot, Holding, Busy, WorkersOf
  <2> QED  BY <1>6, <1>t, <2>1, <2>2, <2>3, <2>4, IdleRecords DEF Added, shutdownVars, Busy
<1>7. ASSUME NEW d \in Devices, TestFails(d)
      PROVE  /\ UNCHANGED <<pending_tasks, processing_tasks, completed_tasks, client, worker, phase>>
             /\ \A e \in Devices : is_running'[e] => is_running[e]
  BY <1>7, <1>c DEF TestFails
<1>8. ASSUME Signal
      PROVE  /\ UNCHANGED <<pending_tasks, processing_tasks, completed_tasks, client, worker>>
             /\ ~Forced
             /\ \A d \in Devices : is_running'[d] => is_running[d]
  BY <1>8, <1>c DEF Signal, Forced
<1>9. ASSUME HandlerTimesOut
      PROVE  /\ UNCHANGED <<pending_tasks, processing_tasks, completed_tasks, client, phase, is_running>>
             /\ \E d \in Devices : CancelWorkers({d}) /\ ~is_running[d]
  <2>1. Head(todo) \in Devices /\ <<"handler", Head(todo)>> \in Runs /\ <<"handler", Head(todo)>>[2] = Head(todo)
    <3>1. todo \in Seq(Devices) /\ todo # <<>>
      BY <1>9 DEF HandlerTimesOut, HandlerInv, RunsInOrder, TypeInv, TypeOK
    <3>2. Head(todo) \in Devices
      BY <3>1, FirstOf
    <3> QED  BY <3>2, Owners, RunNames
  <2>2. ~is_running[Head(todo)]
    BY <1>9, <2>1 DEF HandlerTimesOut, HandlerInv, StoppedIsJoined, Joining
  <2> QED  BY <1>9, <2>1, <2>2 DEF HandlerTimesOut, deviceVars
<1>10. ASSUME ForceShutdown
       PROVE  /\ UNCHANGED <<pending_tasks, processing_tasks, completed_tasks, is_running>>
              /\ Forced' /\ CancelWorkers(Devices)
              /\ \A t \in Tasks : client'[t] = client[t] \/ client'[t] = "over"
  BY <1>10 DEF ForceShutdown, ForceCancels, Forced
<1>11. ASSUME ForceAgain
       PROVE  /\ UNCHANGED <<pending_tasks, processing_tasks, completed_tasks, is_running, client>>
              /\ Forced' /\ CancelWorkers(Devices)
  BY <1>11 DEF ForceAgain, Forced
<1>12. ASSUME ForceEnds
       PROVE  /\ UNCHANGED <<pending_tasks, processing_tasks, completed_tasks, is_running, client, worker>>
              /\ Forced'
  BY <1>12 DEF ForceEnds, Forced, queueVars
<1>13. CASE \E k \in Runs : HeartbeatGathered(k) \/ WorkersJoined(k) \/ PoolCloses(k)
  BY <1>a, <1>1, <1>2, <1>4, <1>13 DEF Forced
<1>14. CASE \E k \in Runs : JoinTimesOut(k)
  BY <1>b, <1>3, <1>14, Owners DEF Forced
<1>15. CASE \E d \in Devices : Initialize(d) \/ Tested(d) \/ TestFails(d) \/ HeartbeatEnds(d)
  BY <1>a, <1>5, <1>7, <1>15 DEF Forced
<1>16. CASE \E d \in Devices : Added(d)
  BY <1>6, <1>t, <1>16 DEF Forced, CancelledIsStopped
<1>17. CASE Signal
  BY <1>a, <1>8, <1>17
<1>18. CASE HandlerTimesOut
  BY <1>b, <1>9, <1>18 DEF Forced
<1>19. CASE ForceShutdown \/ ForceAgain
  BY <1>b, <1>10, <1>11, <1>19
<1>20. CASE ForceEnds
  BY <1>a, <1>12, <1>20
<1> QED  BY <1>13, <1>14, <1>15, <1>16, <1>17, <1>18, <1>19, <1>20

LEMMA LifeKeepsTasks ==
  ASSUME TypeInv, HandlerInv, TaskInv,
         \/ \E k \in Runs : HeartbeatGathered(k) \/ WorkersJoined(k) \/ JoinTimesOut(k) \/ PoolCloses(k)
         \/ \E d \in Devices : Initialize(d) \/ Added(d) \/ Tested(d) \/ TestFails(d) \/ HeartbeatEnds(d)
         \/ Signal \/ HandlerTimesOut \/ ForceShutdown \/ ForceAgain \/ ForceEnds
  PROVE  TaskInv' /\ \A t \in Tasks : Known(t)' <=> Known(t)
<1>1. /\ UNCHANGED <<pending_tasks, processing_tasks, completed_tasks>>
      /\ \A w \in Workers :
           /\ worker'[w].task \in Tasks <=> worker[w].task \in Tasks
           /\ worker[w].task \in Tasks => worker'[w].task = worker[w].task
           /\ worker'[w].st \in Busy <=> worker[w].st \in Busy
           /\ worker'[w].cancel => ~is_running'[Of(w)] \/ Forced'
      /\ \A t \in Tasks : client'[t] = client[t] \/ client'[t] = "over"
      /\ Forced => Forced'
      /\ \A d \in Devices : is_running'[d] => is_running[d] \/ (processing_tasks[d] = {} /\ Executing(d) = {})
  BY LifeEffect DEF TaskInv
<1>2. Places'
  <2>1. \A t \in Tasks : completed_tasks[t] # "none" => client'[t] \notin {"idle", "put"}
    BY <1>1 DEF TaskInv, Places
  <2>2. \A t \in Tasks : ~Unput(t) => client'[t] \notin {"idle", "put"} /\ completed_tasks'[t] = "none"
    BY <1>1 DEF Unput
  <2>3. \A d \in Devices : \A t \in Entries(pending_tasks[d]) : t \in Tasks
    BY ElementOfSeq, LenProperties DEF Entries, TypeInv, TypeOK, QueueTypeOK
  <2>4. \A d \in Devices : \A t \in Entries(pending_tasks[d]) :
          DeviceOf[t] = d /\ client'[t] \notin {"idle", "put"} /\ completed_tasks'[t] = "none"
    BY <2>2, <2>3 DEF TaskInv, Places
  <2>5. ASSUME NEW w \in Workers, worker'[w].task \in Tasks
        PROVE  LET x == worker'[w].task IN
                 /\ DeviceOf[x] = Of(w) /\ client'[x] \notin {"idle", "put"} /\ completed_tasks'[x] = "none"
                 /\ x \notin Entries(pending_tasks[Of(w)])
                 /\ \A v \in Workers : worker'[v].task = x => v = w
    <3>1. worker[w].task \in Tasks /\ worker'[w].task = worker[w].task
      BY <1>1, <2>5
    <3>2. \A v \in Workers : worker'[v].task = worker[w].task => worker[v].task = worker[w].task
      BY <1>1, <3>1
    <3> QED  BY <2>2, <3>1, <3>2 DEF TaskInv, Places
  <2> QED  BY <1>1, <2>1, <2>4, <2>5 DEF TaskInv, Places, Unput
<1>3. CancelledIsStopped'
  BY <1>1 DEF CancelledIsStopped, Workers, Of
<1>4. TableFollows'
  <2>1. ASSUME NEW d \in Devices
        PROVE  Executing(d)' = Executing(d)
    <3>1. \A w \in WorkersOf(d) : w \in Workers /\ (worker[w].st \in Busy => worker[w].task \in Tasks)
      BY DEF WorkersOf, TypeInv, HoldsOrNot, Holding, Busy
    <3>2. \A w \in WorkersOf(d) : /\ worker'[w].st \in Busy <=> worker[w].st \in Busy
                                  /\ worker[w].st \in Busy => worker'[w].task = worker[w].task
      BY <1>1, <3>1
    <3>3. Executing(d)' = {worker'[v].task : v \in {u \in WorkersOf(d) : worker'[u].st \in Busy}}
      BY DEF Executing, WorkersOf, Workers, Of, Busy
    <3>4. Executing(d) = {worker[v].task : v \in {u \in WorkersOf(d) : worker[u].st \in Busy}}
      BY DEF Executing, Busy
    <3> QED  BY <3>2, <3>3, <3>4
  <2>2. ASSUME NEW d \in Devices, processing_tasks[d] # Executing(d)
        PROVE  ~is_running'[d] \/ Forced'
    BY <1>1, <2>2 DEF TaskInv, TableFollows
  <2> QED  BY <1>1, <2>1, <2>2 DEF TaskInv, TableFollows
<1>6. Recorded'
  <2>1. ASSUME NEW d \in Devices, NEW t \in processing_tasks[d]
        PROVE  /\ t \in Tasks /\ DeviceOf[t] = d /\ ~Unput(t) /\ t \notin Entries(pending_tasks[d])
               /\ \A w \in Workers : worker[w].task = t => worker[w].st \in Busy
    BY DEF TaskInv, Recorded, TypeInv, TypeOK, QueueTypeOK
  <2>2. ASSUME NEW d \in Devices, NEW t \in processing_tasks[d]
        PROVE  /\ client'[t] \notin {"idle", "put"} /\ completed_tasks'[t] = "none"
               /\ \A w \in Workers : worker'[w].task = t => worker'[w].st \in Busy
    BY <1>1, <2>1 DEF Unput
  <2> QED  BY <1>1, <2>1, <2>2 DEF Recorded, Unput, Workers
<1>5. ASSUME NEW t \in Tasks
      PROVE  Known(t)' <=> Known(t)
  <2>1. Holders(t)' = Holders(t)
    <3>1. Holders(t)' = {w \in Workers : worker'[w].task = t}
      BY DEF Holders, Workers
    <3>2. \A w \in Workers : worker'[w].task = t <=> worker[w].task = t
      BY <1>1
    <3> QED  BY <3>1, <3>2 DEF Holders
  <2>2. InHeap(t)' <=> InHeap(t)
    BY <1>1 DEF InHeap
  <2> QED  BY <1>1, <2>1, <2>2 DEF Known
<1> QED  BY <1>2, <1>3, <1>4, <1>5, <1>6 DEF TaskInv

(* The queue steps.  Another worker's task, and the heap of another device, *)
(* are not touched.                                                         *)
LEMMA PutsKeepsTasks ==
  ASSUME TypeInv, TaskInv, NEW t \in Tasks, NEW key, Puts(t, key), client[t] \in {"idle", "put"},
         UNCHANGED <<processing_tasks, completed_tasks, is_running, worker, phase>>
  PROVE  TaskInv' /\ \A x \in Tasks : Known(x) => Known(x)'
<1> DEFINE d == DeviceOf[t]
<1>t. /\ d \in Devices /\ client \in [Tasks -> ClientStates] /\ pending_tasks \in [Devices -> Seq(Tasks)]
      /\ \A w \in Workers : Of(w) \in Devices
  BY QueueAssumption, Owners DEF TypeInv, TypeOK, QueueTypeOK
<1>p. Places
  BY DEF TaskInv
<1>0. /\ completed_tasks[t] = "none" /\ Unput(t)
      /\ \A e \in Devices : t \notin Entries(pending_tasks[e])
      /\ \A w \in Workers : worker[w].task # t
  BY <1>p DEF Places, Unput
<1>1. CancelledIsStopped' /\ TableFollows'
  BY DEF TaskInv, CancelledIsStopped, TableFollows, Forced, Executing, WorkersOf, Workers, Of
<1>r. ASSUME \A x \in Tasks : x # t => client'[x] = client[x],
             \A e \in Devices : \A x \in Entries(pending_tasks'[e]) : x \in Entries(pending_tasks[e]) \/ x = t
      PROVE  Recorded'
  <2>1. ASSUME NEW e \in Devices, NEW x \in processing_tasks[e]
        PROVE  /\ x \in Tasks /\ x # t /\ DeviceOf[x] = e /\ ~Unput(x) /\ x \notin Entries(pending_tasks[e])
               /\ \A w \in Workers : worker[w].task = x => worker[w].st \in Busy
    BY <1>0 DEF TaskInv, Recorded, TypeInv, TypeOK, QueueTypeOK
  <2>2. ASSUME NEW e \in Devices, NEW x \in processing_tasks[e]
        PROVE  client'[x] \notin {"idle", "put"} /\ completed_tasks[x] = "none" /\ x \notin Entries(pending_tasks'[e])
    BY <1>r, <2>1 DEF Unput
  <2> QED  BY <2>1, <2>2 DEF Recorded, Unput, Workers
<1>2. CASE pending_tasks' = pending_tasks /\ client' = [client EXCEPT ![t] = "put"]
  <2>1. \A x \in Tasks : client'[x] \in {"idle", "put"} <=> client[x] \in {"idle", "put"}
    BY <1>t, <1>2
  <2>2. \A e \in Devices : \A x \in Entries(pending_tasks[e]) : x \in Tasks
    BY <1>t, ElementOfSeq, LenProperties DEF Entries
  <2>3. Places'
    BY <1>p, <1>2, <2>1, <2>2 DEF Places, Unput, Workers
  <2>4. Recorded'
    <3>1. \A x \in Tasks : x # t => client'[x] = client[x]
      BY <1>t, <1>2
    <3> QED  BY <1>r, <1>2, <3>1
  <2> QED  BY <1>1, <1>2, <2>3, <2>4 DEF TaskInv, Known, InHeap, Holders
<1>3. ASSUME NEW h, OneMore(h, pending_tasks[d], t), pending_tasks' = [pending_tasks EXCEPT ![d] = h],
             NEW c \in {"poll", "over"}, client' = [client EXCEPT ![t] = c]
      PROVE  TaskInv' /\ \A x \in Tasks : Known(x) => Known(x)'
  <2>1. /\ h \in Seq(Tasks) /\ Entries(h) = Entries(pending_tasks[d]) \cup {t}
        /\ Once(h)
    BY <1>t, <1>p, <1>0, <1>3 DEF OneMore, Places
  <2>2. \A e \in Devices : pending_tasks'[e] = IF e = d THEN h ELSE pending_tasks[e]
    BY <1>t, <1>3
  <2>3. \A x \in Tasks : client'[x] = IF x = t THEN c ELSE client[x]
    BY <1>t, <1>3
  <2>4. \A e \in Devices : \A x \in Entries(pending_tasks[e]) : x \in Tasks
    BY <1>t, ElementOfSeq, LenProperties DEF Entries
  <2> HIDE DEF d
  <2>5. \A e \in Devices : Once(pending_tasks'[e])
    BY <1>p, <2>1, <2>2 DEF Places
  <2>6. ASSUME NEW e \in Devices, NEW x \in Entries(pending_tasks'[e])
        PROVE  DeviceOf[x] = e /\ client'[x] \notin {"idle", "put"} /\ completed_tasks[x] = "none"
    <3>1. CASE x = t
      <4>1. e = d
        BY <1>0, <2>2, <2>6, <3>1
      <4> QED  BY <1>0, <2>3, <3>1, <4>1 DEF d
    <3>2. CASE x # t
      <4>1. x \in Entries(pending_tasks[e])
        BY <2>1, <2>2, <2>6, <3>2
      <4> QED  BY <1>p, <2>3, <2>4, <3>2, <4>1 DEF Places, Unput
    <3> QED  BY <3>1, <3>2
  <2>7. ASSUME NEW w \in Workers, worker[w].task \in Tasks
        PROVE  LET x == worker[w].task IN
                 /\ DeviceOf[x] = Of(w) /\ client'[x] \notin {"idle", "put"} /\ completed_tasks[x] = "none"
                 /\ x \notin Entries(pending_tasks'[Of(w)])
                 /\ \A v \in Workers : worker[v].task = x => v = w
    BY <1>p, <1>t, <1>0, <2>1, <2>2, <2>3, <2>7 DEF Places, Unput
  <2>8. \A x \in Tasks : completed_tasks[x] # "none" => client'[x] \notin {"idle", "put"}
    BY <1>p, <2>3 DEF Places
  <2>9. Places'
    BY <2>5, <2>6, <2>7, <2>8 DEF Places, Unput, Workers
  <2>10. ASSUME NEW x \in Tasks, Known(x)
         PROVE  Known(x)'
    <3>1. InHeap(x) => InHeap(x)'
      <4>1. \A e \in Devices : Entries(pending_tasks[e]) \subseteq Entries(pending_tasks'[e])
        BY <2>1, <2>2
      <4>2. DeviceOf[x] \in Devices
        BY QueueAssumption
      <4> QED  BY <4>1, <4>2 DEF InHeap, ToSet, Entries
    <3> QED  BY <2>10, <3>1 DEF Known, Holders
  <2>11. Recorded'
    BY <1>r, <2>1, <2>2, <2>3
  <2> QED  BY <1>1, <2>9, <2>10, <2>11 DEF TaskInv
<1> QED  BY <1>2, <1>3, PutsTask

LEMMA PlacesKept ==
  ASSUME TypeInv, Places, NEW w \in Workers, \A v \in Workers : v # w => worker'[v] = worker[v],
         UNCHANGED client, \A d \in Devices : d # Of(w) => pending_tasks'[d] = pending_tasks[d],
         Once(pending_tasks'[Of(w)]),
         \A x \in Entries(pending_tasks'[Of(w)]) :
           x \in Entries(pending_tasks[Of(w)]) \/ (x = worker[w].task /\ x \in Tasks),
         worker'[w].task \in Tasks =>
           /\ worker'[w].task = worker[w].task \/ worker'[w].task \in Entries(pending_tasks[Of(w)])
           /\ worker'[w].task \notin Entries(pending_tasks'[Of(w)]),
         \A x \in Tasks : completed_tasks'[x] = completed_tasks[x] \/
           (x = worker[w].task /\ worker'[w].task \notin Tasks /\ x \notin Entries(pending_tasks'[Of(w)]))
  PROVE  Places'
<1> DEFINE G == Entries(pending_tasks'[Of(w)])
           H == Entries(pending_tasks[Of(w)])
           mine == worker[w].task
           now_mine == worker'[w].task
<1>t. /\ Of(w) \in Devices /\ \A v \in Workers : Of(v) \in Devices
      /\ \A d \in Devices : \A x \in Entries(pending_tasks[d]) : x \in Tasks
  BY Owners, ElementOfSeq, LenProperties DEF Entries, TypeInv, TypeOK, QueueTypeOK
<1>1. \A x \in H : /\ x \in Tasks /\ DeviceOf[x] = Of(w) /\ x # mine
                   /\ client[x] \notin {"idle", "put"} /\ completed_tasks[x] = "none"
  BY <1>t DEF Places, Unput
<1>2. mine \in Tasks => /\ DeviceOf[mine] = Of(w) /\ completed_tasks[mine] = "none"
                        /\ client[mine] \notin {"idle", "put"}
  BY DEF Places, Unput
<1>3. ASSUME NEW d \in Devices
      PROVE  Once(pending_tasks'[d])
  BY <1>3 DEF Places
<1>4. ASSUME NEW d \in Devices, NEW x \in Entries(pending_tasks'[d])
      PROVE  DeviceOf[x] = d /\ client[x] \notin {"idle", "put"} /\ completed_tasks'[x] = "none"
  <2>1. CASE d = Of(w)
    BY <1>1, <1>2, <1>4, <2>1
  <2>2. CASE d # Of(w)
    <3>1. x \in Entries(pending_tasks[d]) /\ x \in Tasks
      BY <1>4, <1>t, <2>2
    <3>2. DeviceOf[x] = d /\ client[x] \notin {"idle", "put"} /\ completed_tasks[x] = "none"
      BY <3>1 DEF Places, Unput
    <3> QED  BY <1>2, <2>2, <3>1, <3>2
  <2> QED  BY <2>1, <2>2
<1>5. ASSUME NEW v \in Workers, v # w, worker[v].task \in Tasks
      PROVE  LET y == worker[v].task IN
               /\ DeviceOf[y] = Of(v) /\ client[y] \notin {"idle", "put"} /\ completed_tasks'[y] = "none"
               /\ y \notin Entries(pending_tasks'[Of(v)])
               /\ y # now_mine
               /\ \A u \in Workers : u # w /\ worker[u].task = y => u = v
  <2>1. LET y == worker[v].task IN
          /\ DeviceOf[y] = Of(v) /\ client[y] \notin {"idle", "put"} /\ completed_tasks[y] = "none"
          /\ y \notin Entries(pending_tasks[Of(v)]) /\ y # mine
          /\ \A u \in Workers : worker[u].task = y => u = v
    BY <1>5 DEF Places, Unput
  <2>2. worker[v].task \notin H
    BY <1>1, <2>1
  <2>3. worker[v].task \notin Entries(pending_tasks'[Of(v)])
    BY <1>t, <2>1, <2>2
  <2>4. worker[v].task # now_mine
    BY <1>5, <2>1, <2>2
  <2>5. completed_tasks'[worker[v].task] = "none"
    BY <1>5, <2>1
  <2> QED  BY <2>1, <2>3, <2>4, <2>5
<1>6. ASSUME now_mine \in Tasks
      PROVE  /\ DeviceOf[now_mine] = Of(w) /\ client[now_mine] \notin {"idle", "put"}
             /\ completed_tasks'[now_mine] = "none" /\ now_mine \notin G
  BY <1>1, <1>2, <1>6
<1>7. ASSUME NEW x \in Tasks, completed_tasks'[x] # "none"
      PROVE  client[x] \notin {"idle", "put"}
  BY <1>2, <1>7 DEF Places
<1>8. ASSUME NEW v \in Workers, worker'[v].task \in Tasks
      PROVE  LET y == worker'[v].task IN
               /\ DeviceOf[y] = Of(v) /\ client[y] \notin {"idle", "put"} /\ completed_tasks'[y] = "none"
               /\ y \notin Entries(pending_tasks'[Of(v)])
               /\ \A u \in Workers : worker'[u].task = y => u = v
  <2>1. CASE v = w
    <3>1. \A u \in Workers : worker'[u].task = now_mine => u = w
      BY <1>5, <1>8, <2>1
    <3> QED  BY <1>6, <1>8, <2>1, <3>1
  <2>2. CASE v # w
    <3>1. worker'[v] = worker[v]
      BY <2>2
    <3>2. \A u \in Workers : worker'[u].task = worker[v].task => u = v
      BY <1>5, <1>8, <2>2, <3>1
    <3> QED  BY <1>5, <1>8, <2>2, <3>1, <3>2
  <2> QED  BY <2>1, <2>2
<1> QED  BY <1>3, <1>4, <1>7, <1>8 DEF Places, Unput

(* A step of worker w executes only what is in no table yet.                *)
LEMMA RecordedKept ==
  ASSUME TypeInv, Places, Recorded, NEW w \in Workers, \A v \in Workers : v # w => worker'[v] = worker[v],
         UNCHANGED client,
         \A e \in Devices : e # Of(w) => pending_tasks'[e] = pending_tasks[e] /\ processing_tasks'[e] = processing_tasks[e],
         \A x \in Entries(pending_tasks'[Of(w)]) :
           x \in Entries(pending_tasks[Of(w)]) \/ (x = worker[w].task /\ x \in Tasks /\ worker[w].st \notin Busy),
         worker'[w].task \in Tasks =>
           /\ worker'[w].task = worker[w].task \/ worker'[w].task \in Entries(pending_tasks[Of(w)])
           /\ worker'[w].task \notin Entries(pending_tasks'[Of(w)]),
         worker'[w].st \in Busy => worker'[w].task \in Tasks,
         \A x \in Tasks : \/ completed_tasks'[x] = completed_tasks[x]
                          \/ /\ x = worker[w].task /\ worker'[w].task \notin Tasks
                             /\ x \notin processing_tasks'[Of(w)],
         \/ /\ worker[w].st \in Busy <=> worker'[w].st \in Busy
            /\ worker[w].st \in Busy => worker'[w].task = worker[w].task
            /\ processing_tasks'[Of(w)] = processing_tasks[Of(w)]
         \/ /\ worker[w].st \notin Busy /\ worker'[w].st \in Busy
            /\ processing_tasks'[Of(w)] = processing_tasks[Of(w)] \cup {worker'[w].task}
         \/ /\ worker[w].st \in Busy /\ worker'[w].task \notin Tasks
            /\ processing_tasks'[Of(w)] \subseteq processing_tasks[Of(w)]
  PROVE  Recorded'
<1> DEFINE d == Of(w)
           mine == worker[w].task
           next == worker'[w].task
<1>t. d \in Devices /\ \A e \in Devices : \A x \in processing_tasks[e] : x \in Tasks
  BY Owners DEF TypeInv, TypeOK, QueueTypeOK
<1>r. ASSUME NEW e \in Devices, NEW x \in processing_tasks[e]
      PROVE  /\ DeviceOf[x] = e /\ ~Unput(x) /\ x \notin Entries(pending_tasks[e])
             /\ \A v \in Workers : worker[v].task = x => worker[v].st \in Busy
  BY DEF Recorded
<1>o. ASSUME NEW e \in Devices, e # d, NEW x \in processing_tasks'[e]
      PROVE  x \in processing_tasks[e] /\ x # mine /\ x # next /\ x \notin Entries(pending_tasks'[e])
  <2>1. x \in processing_tasks[e] /\ DeviceOf[x] = e /\ x \in Tasks /\ x \notin Entries(pending_tasks'[e])
    BY <1>o, <1>r, <1>t
  <2>2. \A y \in Tasks : y = mine \/ y \in Entries(pending_tasks[d]) => DeviceOf[y] = d
    BY <1>t DEF Places
  <2> QED  BY <1>o, <2>1, <2>2
<1>1. ASSUME NEW x \in processing_tasks'[d], x \in processing_tasks[d]
      PROVE  /\ x \in Tasks /\ DeviceOf[x] = d /\ ~Unput(x)'
             /\ x \notin Entries(pending_tasks'[d])
             /\ \A v \in Workers : worker'[v].task = x => worker'[v].st \in Busy
  <2>1. /\ x \in Tasks /\ DeviceOf[x] = d /\ ~Unput(x) /\ x \notin Entries(pending_tasks[d])
        /\ \A v \in Workers : worker[v].task = x => worker[v].st \in Busy
    BY <1>1, <1>r, <1>t
  <2>2. completed_tasks'[x] = completed_tasks[x]
    BY <1>1, <2>1
  <2>3. x \notin Entries(pending_tasks'[d])
    BY <2>1
  <2>4. next = x => worker'[w].st \in Busy
    BY <1>1, <2>1
  <2> QED  BY <2>1, <2>2, <2>3, <2>4 DEF Unput
<1>2. ASSUME NEW x \in processing_tasks'[d], x \notin processing_tasks[d]
      PROVE  /\ x \in Tasks /\ DeviceOf[x] = d /\ ~Unput(x)'
             /\ x \notin Entries(pending_tasks'[d])
             /\ \A v \in Workers : worker'[v].task = x => worker'[v].st \in Busy
  <2>1. /\ x = next /\ worker'[w].st \in Busy /\ x \in Tasks
        /\ x = mine \/ x \in Entries(pending_tasks[d])
        /\ x \notin Entries(pending_tasks'[d])
    BY <1>2
  <2>2. DeviceOf[x] = d /\ ~Unput(x) /\ \A v \in Workers : worker[v].task = x => v = w
    <3>1. CASE x = mine
      BY <2>1, <3>1 DEF Places
    <3>2. CASE x \in Entries(pending_tasks[d])
      BY <1>t, <2>1, <3>2 DEF Places
    <3> QED  BY <2>1, <3>1, <3>2
  <2>3. completed_tasks'[x] = completed_tasks[x]
    BY <2>1
  <2> QED  BY <2>1, <2>2, <2>3 DEF Unput
<1>3. ASSUME NEW e \in Devices, e # d, NEW x \in processing_tasks'[e]
      PROVE  /\ DeviceOf[x] = e /\ ~Unput(x)'
             /\ x \notin Entries(pending_tasks'[e])
             /\ \A v \in Workers : worker'[v].task = x => worker'[v].st \in Busy
  <2>1. x \in processing_tasks[e] /\ x # mine /\ x # next /\ x \notin Entries(pending_tasks'[e]) /\ x \in Tasks
    BY <1>3, <1>o, <1>t
  <2>2. completed_tasks'[x] = completed_tasks[x]
    BY <2>1
  <2> QED  BY <1>r, <2>1, <2>2 DEF Unput
<1> HIDE DEF d, mine, next
<1>4. ASSUME NEW e \in Devices, NEW x \in processing_tasks'[e]
      PROVE  /\ DeviceOf[x] = e /\ ~Unput(x)' /\ x \notin Entries(pending_tasks'[e])
             /\ \A v \in Workers : worker'[v].task = x => worker'[v].st \in Busy
  BY <1>1, <1>2, <1>3, <1>4
<1> QED  BY <1>4 DEF Recorded, Unput, Workers

(* What is lost with a step of worker w.                                    *)
LEMMA LossOf ==
  ASSUME TypeInv, Places, NEW w \in Workers, \A v \in Workers : v # w => worker'[v] = worker[v],
         \A d \in Devices : d # Of(w) => pending_tasks'[d] = pending_tasks[d],
         worker[w].task \in Tasks =>
           \/ worker'[w].task = worker[w].task \/ worker[w].task \in Entries(pending_tasks'[Of(w)])
           \/ completed_tasks'[worker[w].task] # "none" \/ worker[w].cancel,
         \A x \in Entries(pending_tasks[Of(w)]) :
           \/ x \in Entries(pending_tasks'[Of(w)]) \/ x = worker'[w].task
           \/ x = Head(pending_tasks[Of(w)]) /\ TiesIn(Of(w)),
         \A x \in Tasks : completed_tasks[x] # "none" => completed_tasks'[x] # "none"
  PROVE  \A t \in Tasks : Known(t) /\ ~Known(t)' =>
           \/ \E v \in Holders(t) : worker[v].cancel
           \/ t = Head(pending_tasks[DeviceOf[t]]) /\ TiesIn(DeviceOf[t])
<1> SUFFICES ASSUME NEW t \in Tasks, Known(t), ~Known(t)'
             PROVE  \/ \E v \in Holders(t) : worker[v].cancel
                    \/ t = Head(pending_tasks[DeviceOf[t]]) /\ TiesIn(DeviceOf[t])
  OBVIOUS
<1>t. DeviceOf[t] \in Devices
  BY QueueAssumption
<1>1. /\ t \notin Entries(pending_tasks'[DeviceOf[t]]) /\ completed_tasks'[t] = "none"
      /\ \A v \in Workers : worker'[v].task # t
  BY DEF Known, InHeap, Holders, ToSet, Entries, Workers
<1>2. CASE InHeap(t)
  <2>1. t \in Entries(pending_tasks[DeviceOf[t]])
    BY <1>2 DEF InHeap, ToSet, Entries
  <2>2. DeviceOf[t] = Of(w)
    BY <1>1, <1>t, <2>1
  <2> QED  BY <1>1, <2>1, <2>2
<1>3. CASE Holders(t) # {}
  <2>1. PICK v \in Workers : worker[v].task = t
    BY <1>3 DEF Holders
  <2>2. v = w
    BY <1>1, <2>1
  <2>3. DeviceOf[t] = Of(w)
    BY <2>1, <2>2 DEF Places
  <2>4. worker[w].cancel
    BY <1>1, <2>1, <2>2, <2>3
  <2> QED  BY <2>1, <2>2, <2>4 DEF Holders
<1>4. CASE completed_tasks[t] # "none"
  BY <1>1, <1>4
<1> QED  BY <1>2, <1>3, <1>4 DEF Known

Lost == \E t \in Tasks :
  /\ Known(t) /\ ~Known(t)'
  /\ ~\E v \in Holders(t) : worker[v].cancel
  /\ ~(t = Head(pending_tasks[DeviceOf[t]]) /\ TiesIn(DeviceOf[t]))

LEMMA WorkerKeepsTasks ==
  ASSUME TypeInv, TaskInv, NEW w \in Workers, UNCHANGED phase,
         \/ Takes(w) \/ PutsBack(w) \/ IdleEnds(w) \/ Succeeds(w)
         \/ Fails(w) \/ Retries(w) \/ Cancelled(w)
  PROVE  TaskInv' /\ ~Lost
<1> DEFINE d == Of(w)
           mine == worker[w].task
<1>t. /\ d \in Devices /\ worker \in [Workers -> Worker] /\ worker[w] \in Worker
      /\ pending_tasks \in [Devices -> Seq(Tasks)] /\ processing_tasks \in [Devices -> SUBSET Tasks]
      /\ completed_tasks \in [Tasks -> Statuses]
  BY Owners DEF TypeInv, TypeOK, QueueTypeOK
<1>p. /\ Places /\ TableFollows /\ CancelledIsStopped /\ Recorded
      /\ Once(pending_tasks[d])
      /\ mine \in Tasks <=> worker[w].st \in Holding
      /\ mine \in Tasks => mine \notin Entries(pending_tasks[d])
      /\ Busy \subseteq Holding
  BY <1>t DEF TaskInv, Places, TypeInv, HoldsOrNot, Busy, Holding
<1>h. \A x \in Entries(pending_tasks[d]) : x # mine
  BY <1>p, <1>t, ElementOfSeq, LenProperties DEF Entries
(* The conclusion from what the step does to w, the heap, the table and the *)
(* results.                                                                 *)
<1>a. ASSUME \A v \in Workers : v # w => worker'[v] = worker[v],
             UNCHANGED <<client, is_running>>,
             worker'[w].cancel => worker[w].cancel,
             \A e \in Devices : e # d => pending_tasks'[e] = pending_tasks[e] /\ processing_tasks'[e] = processing_tasks[e],
             Once(pending_tasks'[d]),
             \A x \in Entries(pending_tasks'[d]) :
               x \in Entries(pending_tasks[d]) \/ (x = mine /\ x \in Tasks /\ worker[w].st \notin Busy),
             worker'[w].st \in Busy => worker'[w].task \in Tasks,
             worker'[w].task \in Tasks =>
               /\ worker'[w].task = mine \/ worker'[w].task \in Entries(pending_tasks[d])
               /\ worker'[w].task \notin Entries(pending_tasks'[d]),
             \A x \in Tasks : \/ completed_tasks'[x] = completed_tasks[x]
                              \/ /\ x = mine /\ worker'[w].task \notin Tasks /\ x \notin Entries(pending_tasks'[d])
                                 /\ completed_tasks'[x] # "none" /\ x \notin processing_tasks'[d],
             mine \in Tasks => \/ worker'[w].task = mine \/ mine \in Entries(pending_tasks'[d])
                               \/ completed_tasks'[mine] # "none" \/ worker[w].cancel,
             \A x \in Entries(pending_tasks[d]) :
               \/ x \in Entries(pending_tasks'[d]) \/ x = worker'[w].task
               \/ x = Head(pending_tasks[d]) /\ TiesIn(d),
             \/ /\ worker[w].st \in Busy <=> worker'[w].st \in Busy
                /\ worker[w].st \in Busy => worker'[w].task = worker[w].task
                /\ processing_tasks'[d] = processing_tasks[d]
             \/ /\ worker[w].st \notin Busy /\ worker'[w].st \in Busy
                /\ processing_tasks'[d] = processing_tasks[d] \cup {worker'[w].task}
             \/ /\ worker[w].st \in Busy /\ worker'[w].st \notin Busy /\ worker'[w].task \notin Tasks
                /\ processing_tasks'[d] = processing_tasks[d] \ {worker[w].task}
             \/ /\ worker[w].st \in Busy /\ worker'[w].st \notin Busy /\ worker'[w].task \notin Tasks
                /\ worker[w].cancel
                /\ processing_tasks'[d] = processing_tasks[d]
      PROVE  TaskInv' /\ ~Lost
  <2>1. Places'
    BY <1>a, <1>p, PlacesKept
  <2>2. TableFollows'
    BY <1>a, <1>p, TableKept
  <2>3. CancelledIsStopped'
    BY <1>a, <1>p DEF CancelledIsStopped, Forced, Workers, Of
  <2>4. \A x \in Tasks : completed_tasks[x] # "none" => completed_tasks'[x] # "none"
    BY <1>a
  <2>5. ~Lost
    BY <1>a, <1>p, <2>4, LossOf DEF Lost
  <2>6. Recorded'
    BY <1>a, <1>p, RecordedKept
  <2> QED  BY <2>1, <2>2, <2>3, <2>5, <2>6 DEF TaskInv
<1>b. ASSUME NEW b, Turn(w, b)
      PROVE  /\ \A v \in Workers : v # w => worker'[v] = worker[v]
             /\ worker'[w].task \notin Tasks /\ worker'[w].st \notin Busy /\ ~worker'[w].cancel
  <2>1. PICK r \in {Waiting, Ended} : worker' = [worker EXCEPT ![w] = r]
    BY <1>b DEF Turn
  <2> QED  BY <1>t, <2>1, IdleRecords DEF Busy
<1>c. ASSUME NEW r \in Worker, worker' = [worker EXCEPT ![w] = r]
      PROVE  worker'[w] = r /\ \A v \in Workers : v # w => worker'[v] = worker[v]
  BY <1>c, <1>t
<1>d. ASSUME NEW status \in Statuses \ {"none"}, Stores(w, status), worker[w].st = "run"
      PROVE  /\ \A e \in Devices : e # d => processing_tasks'[e] = processing_tasks[e]
             /\ processing_tasks'[d] = processing_tasks[d] \ {mine}
             /\ mine \in Tasks /\ completed_tasks'[mine] # "none"
             /\ \A x \in Tasks : x # mine => completed_tasks'[x] = completed_tasks[x]
  BY <1>d, <1>t, <1>p DEF Stores, Holding
<1>1. CASE Takes(w)
  <2> DEFINE h == pending_tasks[d]
             p == Pop(scheduled_at, h)
             t == Head(h)
  <2>1. /\ h \in Seq(Tasks) /\ t \in Tasks /\ t \in Entries(h) /\ Once(p.heap)
        /\ Entries(p.heap) = Entries(h) \ {t}
        /\ ~p.ok => Tied(scheduled_at, h)
    BY <1>1, <1>p, TakenTask DEF Takes
  <2>2. /\ pending_tasks'[d] = p.heap
        /\ \A e \in Devices : e # d => pending_tasks'[e] = pending_tasks[e]
        /\ UNCHANGED <<client, is_running, completed_tasks>>
        /\ worker[w].st = "get" /\ worker[w].st \notin Busy /\ mine \notin Tasks
    BY <1>1, <1>t, <1>p DEF Takes, Busy, Holding
  <2>3. ASSUME Tied(scheduled_at, h)
        PROVE  TiesIn(d)
    <3>1. PICK x, y \in Entries(h) : x # y /\ scheduled_at[x] = scheduled_at[y]
      BY <2>3 DEF Tied
    <3>2. PICK i \in DOMAIN h : x = h[i]
      BY DEF Entries
    <3>3. PICK j \in DOMAIN h : y = h[j]
      BY DEF Entries
    <3> QED  BY <3>1, <3>2, <3>3 DEF TiesIn
  <2> HIDE DEF p
  <2>4. CASE ~p.ok
    <3>1. Turn(w, is_running[d]) /\ UNCHANGED processing_tasks
      BY <1>1, <2>4 DEF Takes, p
    <3>2. /\ worker'[w].task \notin Tasks /\ worker'[w].st \notin Busy /\ ~worker'[w].cancel
          /\ \A v \in Workers : v # w => worker'[v] = worker[v]
      BY <1>b, <3>1
    <3>3. \A x \in Entries(h) : x \in Entries(p.heap) \/ (x = t /\ TiesIn(d))
      BY <2>1, <2>3, <2>4
    <3> QED  BY <1>a, <2>1, <2>2, <3>1, <3>2, <3>3
  <2>5. CASE p.ok /\ scheduled_at[t] > now
    <3> DEFINE r == [worker[w] EXCEPT !.st = "delayed", !.task = t, !.cancel = FALSE]
    <3>1. worker' = [worker EXCEPT ![w] = r] /\ UNCHANGED processing_tasks
      BY <1>1, <2>5 DEF Takes, p
    <3>2. r \in Worker /\ r.st = "delayed" /\ r.task = t /\ ~r.cancel
      BY <1>t, <2>1, DelayedRecord, Zenon
    <3> HIDE DEF r
    <3>3. /\ worker'[w].st \notin Busy /\ worker'[w].task = t /\ ~worker'[w].cancel
          /\ \A v \in Workers : v # w => worker'[v] = worker[v]
      BY <1>c, <3>1, <3>2 DEF Busy
    <3> QED  BY <1>a, <2>1, <2>2, <3>1, <3>3
  <2>6. CASE p.ok /\ ~(scheduled_at[t] > now)
    <3> DEFINE r == [worker[w] EXCEPT !.st = "run", !.task = t, !.attempt = 1, !.cancel = FALSE]
    <3>1. worker' = [worker EXCEPT ![w] = r] /\ processing_tasks' = [processing_tasks EXCEPT ![d] = @ \cup {t}]
      BY <1>1, <2>6 DEF Takes, Executes, p
    <3>2. r \in Worker /\ r.st = "run" /\ r.task = t /\ ~r.cancel
      BY <1>t, <2>1, RunRecord, Zenon
    <3> HIDE DEF r
    <3>3. /\ worker'[w].st \in Busy /\ worker'[w].task = t /\ ~worker'[w].cancel
          /\ \A v \in Workers : v # w => worker'[v] = worker[v]
      BY <1>c, <3>1, <3>2 DEF Busy
    <3>4. /\ processing_tasks'[d] = processing_tasks[d] \cup {t}
          /\ \A e \in Devices : e # d => processing_tasks'[e] = processing_tasks[e]
      BY <1>t, <3>1
    <3> QED  BY <1>a, <2>1, <2>2, <3>3, <3>4
  <2> QED  BY <2>4, <2>5, <2>6
<1>2. CASE PutsBack(w)
  <2> DEFINE h == Push(scheduled_at, pending_tasks[d], mine).heap
  <2>1. mine \in Tasks /\ worker[w].st \notin Busy
    BY <1>2, <1>p DEF PutsBack, Holding, Busy
  <2>2. Entries(h) = Entries(pending_tasks[d]) \cup {mine} /\ Once(h)
    BY <1>p, <1>t, <2>1, PushAdds
  <2>3. /\ pending_tasks'[d] = h
        /\ \A e \in Devices : e # d => pending_tasks'[e] = pending_tasks[e]
        /\ UNCHANGED <<client, is_running, completed_tasks, processing_tasks>>
    BY <1>2, <1>t DEF PutsBack
  <2>4. /\ worker'[w].task \notin Tasks /\ worker'[w].st \notin Busy /\ ~worker'[w].cancel
        /\ \A v \in Workers : v # w => worker'[v] = worker[v]
    BY <1>2, <1>b DEF PutsBack
  <2> HIDE DEF h
  <2> QED  BY <1>a, <2>1, <2>2, <2>3, <2>4
<1>3. CASE IdleEnds(w)
  <2>1. mine \notin Tasks /\ worker[w].st \notin Busy
    BY <1>3, <1>p DEF IdleEnds, Holding, Busy
  <2>2. /\ worker'[w].task \notin Tasks /\ worker'[w].st \notin Busy /\ ~worker'[w].cancel
        /\ \A v \in Workers : v # w => worker'[v] = worker[v]
        /\ UNCHANGED <<client, is_running, completed_tasks, processing_tasks, pending_tasks>>
    BY <1>3, <1>b DEF IdleEnds
  <2> QED  BY <1>a, <1>p, <2>1, <2>2
<1>4. ASSUME NEW status \in Statuses \ {"none"}, Finishes(w, status), worker[w].st = "run"
      PROVE  TaskInv' /\ ~Lost
  <2>1. /\ worker'[w].task \notin Tasks /\ worker'[w].st \notin Busy /\ ~worker'[w].cancel
        /\ \A v \in Workers : v # w => worker'[v] = worker[v]
        /\ UNCHANGED <<client, is_running, pending_tasks>>
    BY <1>4, <1>b DEF Finishes
  <2>2. /\ \A e \in Devices : e # d => processing_tasks'[e] = processing_tasks[e]
        /\ processing_tasks'[d] = processing_tasks[d] \ {mine}
        /\ mine \in Tasks /\ completed_tasks'[mine] # "none"
        /\ \A x \in Tasks : x # mine => completed_tasks'[x] = completed_tasks[x]
    BY <1>4, <1>d DEF Finishes
  <2>3. worker[w].st \in Busy
    BY <1>4 DEF Busy
  <2> QED  BY <1>a, <1>p, <2>1, <2>2, <2>3
<1>5. CASE Succeeds(w)
  BY <1>4, <1>5 DEF Succeeds, Statuses
<1>k. ASSUME NEW r \in Worker, worker' = [worker EXCEPT ![w] = r], r.st \in Busy, worker[w].st \in Busy,
             r.task = mine, r.cancel => worker[w].cancel,
             UNCHANGED <<pending_tasks, processing_tasks, completed_tasks, is_running, client>>
      PROVE  TaskInv' /\ ~Lost
  <2>1. worker'[w] = r /\ \A v \in Workers : v # w => worker'[v] = worker[v]
    BY <1>c, <1>k
  <2> QED  BY <1>a, <1>k, <1>p, <2>1
<1>6. CASE Fails(w)
  <2>1. CASE worker[w].attempt < MaxAttempts
    <3> DEFINE r == [worker[w] EXCEPT !.st = "pause", !.cancel = FALSE]
    <3>1. /\ worker' = [worker EXCEPT ![w] = r] /\ worker[w].st \in Busy
          /\ UNCHANGED <<pending_tasks, processing_tasks, completed_tasks, is_running, client>>
      BY <1>6, <2>1 DEF Fails, Busy
    <3>2. r \in Worker /\ r.st \in Busy /\ r.task = mine /\ ~r.cancel
      BY <1>t, ChangedRecords DEF Busy
    <3> HIDE DEF r
    <3> QED  BY <1>k, <3>1, <3>2
  <2>2. CASE ~(worker[w].attempt < MaxAttempts)
    BY <1>4, <1>6, <2>2 DEF Fails, Statuses
  <2> QED  BY <2>1, <2>2
<1>7. CASE Retries(w)
  <2> DEFINE r == [worker[w] EXCEPT !.st = "run", !.attempt = @ + 1]
  <2>1. /\ worker' = [worker EXCEPT ![w] = r] /\ worker[w].st \in Busy
        /\ UNCHANGED <<pending_tasks, processing_tasks, completed_tasks, is_running, client>>
    BY <1>7, <1>t DEF Retries, Busy
  <2>2. worker[w].attempt < MaxAttempts
    BY <1>7 DEF Retries, TypeInv, HoldsOrNot
  <2>3. r \in Worker /\ r.st = "run" /\ r.task = mine /\ r.cancel = worker[w].cancel
    BY <1>t, <2>2, RetriedRecord
  <2> HIDE DEF r
  <2> QED  BY <1>k, <2>1, <2>3 DEF Busy
<1>8. CASE Cancelled(w)
  <2>1. /\ worker'[w].task \notin Tasks /\ worker'[w].st \notin Busy /\ ~worker'[w].cancel
        /\ \A v \in Workers : v # w => worker'[v] = worker[v]
        /\ UNCHANGED <<client, is_running, pending_tasks>> /\ worker[w].cancel
    BY <1>8, <1>b DEF Cancelled
  <2>2. CASE worker[w].st = "run"
    <3>1. /\ \A e \in Devices : e # d => processing_tasks'[e] = processing_tasks[e]
          /\ processing_tasks'[d] = processing_tasks[d] \ {mine}
          /\ mine \in Tasks /\ completed_tasks'[mine] # "none"
          /\ \A x \in Tasks : x # mine => completed_tasks'[x] = completed_tasks[x]
      BY <1>8, <1>d, <2>2 DEF Cancelled, Statuses
    <3>2. worker[w].st \in Busy
      BY <2>2 DEF Busy
    <3> QED  BY <1>a, <1>p, <2>1, <3>1, <3>2
  <2>3. CASE worker[w].st # "run"
    <3>1. UNCHANGED <<completed_tasks, processing_tasks>>
      BY <1>8, <2>3 DEF Cancelled
    <3> QED  BY <1>a, <1>p, <2>1, <3>1
  <2> QED  BY <2>2, <2>3
<1> QED  BY <1>1, <1>2, <1>3, <1>5, <1>6, <1>7, <1>8

LEMMA TaskStep ==
  ASSUME TypeInv, HandlerInv, TaskInv, Next
  PROVE  TaskInv' /\ ~Lost
<1>a. ASSUME TaskInv', \A t \in Tasks : Known(t) => Known(t)'
      PROVE  TaskInv' /\ ~Lost
  BY <1>a DEF Lost
<1>1. CASE Tick /\ UNCHANGED <<deviceVars, shutdownVars>>
  <2>1. UNCHANGED <<pending_tasks, processing_tasks, completed_tasks, is_running, worker, client, phase>>
    BY <1>1 DEF Tick, shutdownVars
  <2>2. TaskInv'
    BY <2>1 DEF TaskInv, Places, Unput, CancelledIsStopped, TableFollows, Recorded, Executing, WorkersOf,
                Workers, Of, Forced
  <2>3. \A t \in Tasks : Known(t) => Known(t)'
    BY <2>1 DEF Known, InHeap, Holders, Workers
  <2> QED  BY <1>a, <2>2, <2>3
<1>2. ASSUME NEW t \in Tasks, Enqueue(t) \/ PutGoesOn(t), UNCHANGED <<deviceVars, shutdownVars>>
      PROVE  TaskInv' /\ ~Lost
  <2>1. /\ \E key : Puts(t, key)
        /\ client[t] \in {"idle", "put"}
        /\ UNCHANGED <<processing_tasks, completed_tasks, is_running, worker, phase>>
    BY <1>2 DEF Enqueue, PutGoesOn, shutdownVars
  <2> QED  BY <1>a, <2>1, PutsKeepsTasks
<1>3. ASSUME NEW t \in Tasks, GetsResult(t), UNCHANGED <<deviceVars, shutdownVars>>
      PROVE  TaskInv' /\ ~Lost
  <2>1. /\ UNCHANGED <<pending_tasks, processing_tasks, completed_tasks, is_running, worker, phase>>
        /\ client[t] = "poll" /\ client' = [client EXCEPT ![t] = "over"]
    BY <1>3 DEF GetsResult, shutdownVars
  <2>2. \A x \in Tasks : client'[x] \in {"idle", "put"} <=> client[x] \in {"idle", "put"}
    BY <2>1 DEF TypeInv, TypeOK, QueueTypeOK
  <2>3. \A e \in Devices : \A x \in Entries(pending_tasks[e]) : x \in Tasks
    BY ElementOfSeq, LenProperties DEF Entries, TypeInv, TypeOK, QueueTypeOK
  <2>4. Places'
    BY <2>1, <2>2, <2>3 DEF TaskInv, Places, Unput, Workers
  <2>5. CancelledIsStopped' /\ TableFollows'
    BY <2>1 DEF TaskInv, CancelledIsStopped, TableFollows, Executing, WorkersOf, Workers, Of, Forced
  <2>6. \A x \in Tasks : Known(x) => Known(x)'
    BY <2>1 DEF Known, InHeap, Holders, Workers
  <2>7. Recorded'
    <3>1. \A e \in Devices : \A x \in processing_tasks[e] : x \in Tasks
      BY DEF TypeInv, TypeOK, QueueTypeOK
    <3> QED  BY <2>1, <2>2, <3>1 DEF TaskInv, Recorded, Unput, Workers
  <2> QED  BY <1>a, <2>4, <2>5, <2>6, <2>7 DEF TaskInv
<1>4. ASSUME NEW w \in Workers,
             \/ Takes(w) \/ PutsBack(w) \/ IdleEnds(w) \/ Succeeds(w)
             \/ Fails(w) \/ Retries(w) \/ Cancelled(w),
             UNCHANGED <<deviceVars, shutdownVars>>
      PROVE  TaskInv' /\ ~Lost
  <2>1. UNCHANGED phase
    BY <1>4 DEF shutdownVars
  <2> QED  BY <1>4, <2>1, WorkerKeepsTasks
<1>5. CASE QueueNext /\ UNCHANGED <<deviceVars, shutdownVars>>
  BY <1>1, <1>2, <1>3, <1>4, <1>5 DEF QueueNext
<1>6. CASE \/ \E k \in Runs : HeartbeatGathered(k) \/ WorkersJoined(k) \/ JoinTimesOut(k) \/ PoolCloses(k)
           \/ \E d \in Devices : Initialize(d) \/ Added(d) \/ Tested(d) \/ TestFails(d) \/ HeartbeatEnds(d)
           \/ Signal \/ HandlerTimesOut \/ ForceShutdown \/ ForceAgain \/ ForceEnds
  BY <1>a, <1>6, LifeKeepsTasks
<1> QED  BY <1>5, <1>6 DEF Next

LEMMA TaskInvInductive ==
  /\ Init => TaskInv
  /\ TypeInv /\ HandlerInv /\ TaskInv /\ [Next]_vars => TaskInv'
<1>1. ASSUME Init
      PROVE  TaskInv
  <2>1. \A w \in Workers : worker[w].st = "none" /\ ~worker[w].cancel /\ worker[w].task = NoTask
    BY <1>1 DEF Init, QueueInit, Waiting
  <2>2. \A d \in Devices : Executing(d) = {} /\ processing_tasks[d] = {}
    BY <1>1, <2>1 DEF Init, QueueInit, Executing, WorkersOf
  <2>3. Entries(<<>>) = {} /\ Once(<<>>)
    BY DEF Entries, Once
  <2>4. Places
    BY <1>1, <2>1, <2>3, QueueAssumption DEF Init, QueueInit, Places
  <2> QED  BY <2>1, <2>2, <2>4 DEF TaskInv, CancelledIsStopped, TableFollows, Recorded
<1>2. ASSUME TaskInv, UNCHANGED vars
      PROVE  TaskInv'
  BY <1>2 DEF TaskInv, Places, Unput, CancelledIsStopped, TableFollows, Recorded, Executing, WorkersOf,
              Workers, Of, Forced, vars, queueVars, deviceVars, shutdownVars
<1> QED  BY <1>1, <1>2, TaskStep

LEMMA TaskInvHolds == Spec => [](TypeInv /\ HandlerInv /\ TaskInv)
<1>1. Init => TypeInv /\ HandlerInv /\ TaskInv
  BY TypeInvInductive, HandlerInvInductive, TaskInvInductive
<1>2. TypeInv /\ HandlerInv /\ TaskInv /\ [Next]_vars => (TypeInv /\ HandlerInv /\ TaskInv)'
  BY TypeInvInductive, HandlerInvInductive, TaskInvInductive
<1> QED  BY <1>1, <1>2, PTL DEF Spec

(* A set without two elements counts one at most.                           *)
LEMMA AtMostOne ==
  ASSUME NEW S, \A x, y \in S : x = y
  PROVE  Cardinality(S) \in {0, 1} /\ (S = {} => Cardinality(S) = 0)
<1>1. CASE S = {}
  BY <1>1, FS_EmptySet
<1>2. CASE S # {}
  <2>1. PICK x : S = {x}
    BY <1>2
  <2> QED  BY <1>2, <2>1, FS_Singleton
<1> QED  BY <1>1, <1>2

(* No put back, failed comparison, cancel or stop brings a task to a second *)
(* place, and one that is in processing_tasks without being executed is     *)
(* nowhere else and stays there; so no task is executed a second time after *)
(* its attempts (_worker, _execute_task), for any number of workers and any *)
(* size of the heap.                                                        *)
THEOREM NoTaskIsTakenTwice == Spec => []NoTaskTwice
<1>1. ASSUME TypeInv, TaskInv
      PROVE  NoTaskTwice
  <2>1. ASSUME NEW t \in Tasks
        PROVE  LET heap == pending_tasks[DeviceOf[t]]
                   entries == {i \in DOMAIN heap : heap[i] = t}
                   results == IF completed_tasks[t] = "none" THEN {} ELSE {t}
               IN Cardinality(entries) + Cardinality(Holders(t)) + Cardinality(results) <= 1
    <3> DEFINE heap == pending_tasks[DeviceOf[t]]
               entries == {i \in DOMAIN heap : heap[i] = t}
               results == IF completed_tasks[t] = "none" THEN {} ELSE {t}
    <3>t. Places /\ DeviceOf[t] \in Devices
      BY <1>1, QueueAssumption DEF TaskInv
    <3>1. \A i, j \in entries : i = j
      BY <3>t DEF Places, Once
    <3>2. \A v, w \in Holders(t) : v = w
      BY <3>t DEF Places, Holders
    <3>3. \A x, y \in results : x = y
      OBVIOUS
    <3>4. entries # {} => t \in Entries(heap)
      BY DEF Entries
    <3>5. Holders(t) # {} => entries = {} /\ results = {}
      <4> SUFFICES ASSUME NEW w \in Workers, worker[w].task = t
                   PROVE  entries = {} /\ results = {}
        BY DEF Holders
      <4>1. DeviceOf[t] = Of(w) /\ ~Unput(t) /\ t \notin Entries(pending_tasks[Of(w)])
        BY <3>t DEF Places
      <4> QED  BY <3>4, <4>1 DEF Unput
    <3>6. entries # {} => results = {}
      BY <3>4, <3>t DEF Places, Unput
    <3> HIDE DEF entries, results
    <3>7. /\ Cardinality(entries) \in {0, 1} /\ (entries = {} => Cardinality(entries) = 0)
          /\ Cardinality(Holders(t)) \in {0, 1} /\ (Holders(t) = {} => Cardinality(Holders(t)) = 0)
          /\ Cardinality(results) \in {0, 1} /\ (results = {} => Cardinality(results) = 0)
      BY <3>1, <3>2, <3>3, AtMostOne
    <3>8. Cardinality(entries) + Cardinality(Holders(t)) + Cardinality(results) <= 1
      BY <3>5, <3>6, <3>7
    <3> QED  BY <3>8 DEF entries, results
  <2>2. TableExact
    <3> SUFFICES ASSUME NEW d \in Devices
                 PROVE  /\ Executing(d) \subseteq processing_tasks[d]
                        /\ \A t \in processing_tasks[d] \ Executing(d) : ~Known(t) /\ (~is_running[d] \/ Forced)
      BY DEF TableExact
    <3>1. /\ Executing(d) \subseteq processing_tasks[d]
          /\ processing_tasks[d] # Executing(d) => ~is_running[d] \/ Forced
      BY <1>1 DEF TaskInv, TableFollows
    <3>2. ASSUME NEW t \in processing_tasks[d], t \notin Executing(d)
          PROVE  ~Known(t)
      <4>1. /\ DeviceOf[t] = d /\ ~Unput(t) /\ t \notin Entries(pending_tasks[d]) /\ t \in Tasks
            /\ \A w \in Workers : worker[w].task = t => worker[w].st \in Busy
        BY <1>1 DEF TaskInv, Recorded, TypeInv, TypeOK, QueueTypeOK
      <4>2. ASSUME NEW w \in Workers, worker[w].task = t
            PROVE  FALSE
        <5>1. Of(w) = d /\ worker[w].st \in Busy
          BY <1>1, <4>1, <4>2 DEF TaskInv, Places
        <5> QED  BY <3>2, <4>2, <5>1 DEF Executing, WorkersOf, Busy
      <4>3. ~InHeap(t)
        BY <4>1 DEF InHeap, ToSet, Entries
      <4>4. Holders(t) = {}
        BY <4>2 DEF Holders
      <4> QED  BY <4>1, <4>3, <4>4 DEF Known, Unput
    <3> QED  BY <3>1, <3>2
  <2> QED  BY <1>1, <2>1, <2>2 DEF NoTaskTwice, TaskInOnePlace
<1> QED  BY TaskInvHolds, <1>1, PTL

(* A task is lost with no result only by the cancel of the worker that has  *)
(* it, or as the head of a heap in which two entries tie, when get() raises *)
(* halfway (heappop in _worker).                                            *)
THEOREM LossesAreKnown == Spec => LostOnlyByCancelOrTie
<1>1. TypeInv /\ HandlerInv /\ TaskInv /\ [Next]_vars =>
        [\A t \in Tasks : Known(t) /\ ~Known(t)' =>
           \/ \E w \in Holders(t) : worker[w].cancel
           \/ t = Head(pending_tasks[DeviceOf[t]]) /\ TiesIn(DeviceOf[t])]_vars
  BY TaskStep DEF Lost
<1> QED  BY TaskInvHolds, <1>1, PTL DEF Spec, LostOnlyByCancelOrTie
=============================================================================
