----------------------- MODULE ContinuousReader_proofs -----------------------
(***************************************************************************)
(* Theorems about LineParser and ContinuousReader.                         *)
(***************************************************************************)
EXTENDS ContinuousReader, SequenceTheorems, FiniteSetTheorems, WellFoundedInduction, TLAPS

-----------------------------------------------------------------------------
(* The smallest, the greatest and the n-th number of a set.                 *)

(* A set of numbers has a smallest one.                                     *)
LEMMA Least ==
  ASSUME NEW T, T \subseteq Nat, T # {}
  PROVE  \E x \in T : \A y \in T : x <= y
<1>1. PICK x \in T : \A y \in T : ~(<<y, x>> \in OpToRel(<, Nat))
  BY NatLessThanWellFounded, WFMin
<1>2. ASSUME NEW y \in T PROVE x <= y
  <2>1. <<y, x>> \in Nat \X Nat
    OBVIOUS
  <2>2. ~(y < x)
    BY <1>1, <2>1 DEF OpToRel
  <2> QED  BY <2>2
<1> QED  BY <1>2

(* A set of numbers up to m has a greatest one.                             *)
LEMMA Greatest ==
  ASSUME NEW m \in Nat, NEW T, T \subseteq 0..m, T # {}
  PROVE  \E x \in T : \A y \in T : y <= x
<1> DEFINE U == {d \in 0..m : m - d \in T}
<1>1. U # {}
  <2>1. PICK x \in T : TRUE
    OBVIOUS
  <2>2. m - x \in 0..m /\ m - (m - x) = x
    OBVIOUS
  <2>3. m - x \in U
    BY <2>2
  <2> QED  BY <2>3
<1>2. PICK d \in U : \A e \in U : d <= e
  <2>1. U \subseteq Nat
    OBVIOUS
  <2> HIDE DEF U
  <2> QED  BY <1>1, <2>1, Least
<1>3. ASSUME NEW y \in T PROVE y <= m - d
  <2>1. m - y \in U
    OBVIOUS
  <2> QED  BY <1>2, <2>1
<1> QED  BY <1>3

Below(S, x) == {y \in S : y <= x}

(* The larger of two elements has more elements up to it.                   *)
LEMMA RankMonotone ==
  ASSUME NEW S, S \subseteq Nat, IsFiniteSet(S), NEW x \in S, NEW y \in S, x < y
  PROVE  Cardinality(Below(S, x)) < Cardinality(Below(S, y))
<1>1. IsFiniteSet(Below(S, y)) /\ Below(S, x) \in SUBSET Below(S, y)
  <2>1. Below(S, y) \in SUBSET S
    BY DEF Below
  <2>2. \A z \in S : z <= x => z <= y
    OBVIOUS
  <2> QED  BY <2>1, <2>2, FS_Subset DEF Below
<1>2. y \in Below(S, y) /\ y \notin Below(S, x)
  BY DEF Below
<1>3. Cardinality(Below(S, x)) \in Nat /\ Cardinality(Below(S, y)) \in Nat
  BY <1>1, FS_Subset, FS_CardinalityType
<1> QED  BY <1>1, <1>2, <1>3, FS_Subset

(* The n-th smallest number exists, and is the only one with n up to it.    *)
LEMMA NthIs ==
  ASSUME NEW S, S \subseteq Nat, IsFiniteSet(S), NEW n \in 1..Cardinality(S)
  PROVE  /\ Nth(S, n) \in S
         /\ Cardinality(Below(S, Nth(S, n))) = n
<1> DEFINE C == Cardinality(S)
           rank == [x \in S |-> Cardinality(Below(S, x))]
<1>1. C \in Nat /\ IsFiniteSet(1..C) /\ Cardinality(1..C) = C
  BY FS_CardinalityType, FS_Interval
<1>2. \A x \in S : rank[x] \in 1..C
  <2>1. ASSUME NEW x \in S PROVE rank[x] \in 1..C
    <3>1. IsFiniteSet(Below(S, x)) /\ Cardinality(Below(S, x)) <= C
      BY FS_Subset DEF Below
    <3>2. Below(S, x) # {}
      BY DEF Below
    <3>3. Cardinality(Below(S, x)) \in Nat /\ Cardinality(Below(S, x)) # 0
      BY <3>1, <3>2, FS_CardinalityType, FS_EmptySet
    <3> QED  BY <1>1, <3>1, <3>3
  <2> QED  BY <2>1
<1>3. \A x, y \in S : rank[x] = rank[y] => x = y
  <2>1. ASSUME NEW x \in S, NEW y \in S, x # y PROVE rank[x] # rank[y]
    <3>1. x < y \/ y < x
      BY <2>1
    <3>2. Cardinality(Below(S, x)) \in Nat /\ Cardinality(Below(S, y)) \in Nat
      <4>1. Below(S, x) \in SUBSET S /\ Below(S, y) \in SUBSET S
        BY DEF Below
      <4> QED  BY <4>1, FS_Subset, FS_CardinalityType
    <3>3. CASE x < y
      <4>1. Cardinality(Below(S, x)) < Cardinality(Below(S, y))
        BY <3>3, RankMonotone
      <4> QED  BY <3>2, <4>1
    <3>4. CASE y < x
      <4>1. Cardinality(Below(S, y)) < Cardinality(Below(S, x))
        BY <3>4, RankMonotone
      <4> QED  BY <3>2, <4>1
    <3> QED  BY <3>1, <3>3, <3>4
  <2> QED  BY <2>1
<1>4. rank \in Injection(S, 1..C)
  BY <1>2, <1>3 DEF Injection, IsInjective
<1>5. rank \in Surjection(S, 1..C)
  BY <1>1, <1>4, FS_Injection
<1>6. PICK x \in S : Cardinality(Below(S, x)) = n
  BY <1>5 DEF Surjection
<1>7. Nth(S, n) = CHOOSE z \in S : Cardinality(Below(S, z)) = n
  BY DEF Nth, Below
<1> QED  BY <1>6, <1>7

(* The n-th smallest number grows with n.                                   *)
LEMMA NthGrows ==
  ASSUME NEW S, S \subseteq Nat, IsFiniteSet(S), NEW m \in 1..Cardinality(S),
         NEW n \in 1..Cardinality(S), m < n
  PROVE  Nth(S, m) < Nth(S, n)
<1>1. /\ Nth(S, m) \in S /\ Cardinality(Below(S, Nth(S, m))) = m
      /\ Nth(S, n) \in S /\ Cardinality(Below(S, Nth(S, n))) = n
  BY NthIs
<1>2. Cardinality(S) \in Nat
  BY FS_CardinalityType
<1> DEFINE x == Nth(S, m)
           y == Nth(S, n)
<1>3. x \in S /\ y \in S /\ Cardinality(Below(S, x)) = m /\ Cardinality(Below(S, y)) = n
  BY <1>1
<1> HIDE DEF x, y
<1>4. ~(y < x)
  <2>1. SUFFICES ASSUME y < x PROVE FALSE
    OBVIOUS
  <2>2. n < m
    BY <1>3, <2>1, RankMonotone
  <2> QED  BY <1>2, <2>2
<1>5. x # y
  BY <1>2, <1>3
<1>6. x < y
  <2>1. x \in Nat /\ y \in Nat
    BY <1>3
  <2> QED  BY <2>1, <1>4, <1>5
<1> QED  BY <1>6 DEF x, y

-----------------------------------------------------------------------------
(* Lines.                                                                   *)

(* Before(s, e) is the last line end before e.                              *)
LEMMA BeforeIs ==
  ASSUME NEW s \in Seq(Field), NEW e \in 1..Len(s) + 1
  PROVE  /\ Before(s, e) \in 0..e - 1
         /\ Before(s, e) # 0 => Before(s, e) \in Ends(s)
         /\ \A i \in Ends(s) : i < e => i <= Before(s, e)
<1> DEFINE T == {0} \cup {i \in Ends(s) : i < e}
<1>1. T \subseteq 0..e - 1 /\ T # {} /\ e - 1 \in Nat
  BY DEF Ends
<1>2. \E x \in T : \A y \in T : y <= x
  BY <1>1, Greatest
<1>3. \E b \in T : \A i \in Ends(s) : i < e => i <= b
  BY <1>2
<1>4. Before(s, e) = CHOOSE b \in T : \A i \in Ends(s) : i < e => i <= b
  BY DEF Before
<1>5. Before(s, e) \in T /\ \A i \in Ends(s) : i < e => i <= Before(s, e)
  BY <1>3, <1>4
<1> QED  BY <1>1, <1>5

(* line is what stands in s between b and e, and holds no line end.         *)
IsPiece(s, e, b, line) ==
  /\ line \in Seq(Field) /\ Len(line) = e - 1 - b
  /\ \A i \in 1..e - 1 - b :
       line[i] = s[b + i] /\ b + i \in DOMAIN s /\ b + i \notin Ends(s)

(* A piece holds what stands between two line ends.                         *)
LEMMA PieceIs ==
  ASSUME NEW s \in Seq(Field), NEW e \in 1..Len(s) + 1
  PROVE  IsPiece(s, e, Before(s, e), Piece(s, e))
<1>1. /\ Before(s, e) \in 0..e - 1
      /\ \A i \in Ends(s) : i < e => i <= Before(s, e)
  BY BeforeIs
<1> DEFINE b == Before(s, e)
<1>2. Piece(s, e) = SubSeq(s, b + 1, e - 1)
  BY DEF Piece
<1> HIDE DEF b
<1>a. b \in 0..e - 1 /\ \A i \in Ends(s) : i < e => i <= b
  BY <1>1 DEF b
<1>3. /\ SubSeq(s, b + 1, e - 1) \in Seq(Field)
      /\ Len(SubSeq(s, b + 1, e - 1)) = e - 1 - b
      /\ \A i \in 1..e - 1 - b : SubSeq(s, b + 1, e - 1)[i] = s[b + i]
  BY <1>a
<1>4. \A i \in 1..e - 1 - b : b + i \in DOMAIN s /\ b + i \notin Ends(s)
  BY <1>a
<1> QED  BY <1>2, <1>3, <1>4 DEF b, IsPiece

(* Places of line ends are finitely many.                                   *)
LEMMA EndsFinite ==
  ASSUME NEW s \in Seq(Field), NEW es, es \subseteq Ends(s) \cup {Len(s) + 1}
  PROVE  IsFiniteSet(es) /\ es \subseteq 1..Len(s) + 1
<1>1. es \subseteq 1..Len(s) + 1
  BY DEF Ends
<1>2. IsFiniteSet(1..Len(s) + 1)
  BY FS_Interval
<1> QED  BY <1>1, <1>2, FS_Subset

-----------------------------------------------------------------------------
(* Measurements.                                                            *)

(* A line has finitely many numbers.                                        *)
LEMMA NumbersFinite ==
  ASSUME NEW line \in Seq(Field)
  PROVE  IsFiniteSet(Numbers(line)) /\ Numbers(line) \subseteq 1..Len(line)
<1>1. Numbers(line) \subseteq 1..Len(line)
  BY DEF Numbers
<1> QED  BY <1>1, FS_Interval, FS_Subset

(* _parse_measurement returns a measurement.                                *)
LEMMA ParseType ==
  ASSUME NEW line \in Seq(Field), line # <<>>, NEW command
  PROVE  /\ Parse(line, command) \in Measurements
         /\ Parse(line, command).first = line[1].ln
         /\ Parse(line, command).last = line[Len(line)].ln
<1>1. 1 \in DOMAIN line /\ Len(line) \in DOMAIN line
  OBVIOUS
<1>2. \A i \in DOMAIN line : line[i].ln \in Nat /\ line[i].f \in Fields
  <2>1. \A i \in DOMAIN line : line[i] \in Field
    OBVIOUS
  <2> QED  BY <2>1 DEF Field
<1> DEFINE v == Numbers(line)
           garbled == v = {} \/ (Headed(line) /\ Cardinality(v) < Len(line) - 1)
           Value(n) == IF garbled \/ Cardinality(v) < n THEN NoField ELSE line[Nth(v, n)].f
<1>3. ASSUME NEW n \in 1..2 PROVE Value(n) \in Fields \cup {NoField}
  <2>1. CASE Cardinality(v) < n \/ garbled
    BY <2>1
  <2>2. CASE ~(Cardinality(v) < n \/ garbled)
    <3>1. n \in 1..Cardinality(v)
      BY <2>2, NumbersFinite, FS_CardinalityType
    <3>2. Nth(v, n) \in DOMAIN line
      BY <3>1, NumbersFinite, NthIs
    <3> QED  BY <1>2, <2>2, <3>2
  <2> QED  BY <2>1, <2>2
<1> HIDE DEF Value
<1>4. Parse(line, command) =
        [first |-> line[1].ln, last |-> line[Len(line)].ln,
         speed |-> IF command = "VT" THEN Value(1) ELSE NoField,
         distance |-> IF command = "VT" THEN Value(2) ELSE Value(1)]
  BY DEF Parse, Value
<1> QED  BY <1>1, <1>2, <1>3, <1>4 DEF Measurements

(* What InTurn makes of the pieces of s, where a measurement of a piece     *)
(* holds what the piece holds.                                              *)
Reads(s, es, ms) ==
  /\ ms \in Seq(Measurements) /\ Len(ms) = Cardinality(es)
  /\ \A i \in DOMAIN ms :
       LET e == Nth(es, i)
           b == Before(s, e) IN
         /\ e \in es /\ e - 1 \in DOMAIN s /\ b + 1 \in DOMAIN s /\ b + 1 <= e - 1
         /\ ms[i].first = s[b + 1].ln /\ ms[i].last = s[e - 1].ln

(* Pieces read in turn, each with a command of its own.                     *)
LEMMA InTurnReads ==
  ASSUME NEW s \in Seq(Field), NEW es, es \subseteq Ends(s) \cup {Len(s) + 1},
         \A e \in es : Piece(s, e) # <<>>,
         NEW command, NEW ms,
         ms = [i \in 1..Cardinality(es) |-> Parse(Piece(s, Nth(es, i)), command[i])]
  PROVE  Reads(s, es, ms)
<1> DEFINE C == Cardinality(es)
<1>2. IsFiniteSet(es) /\ es \subseteq 1..Len(s) + 1 /\ C \in Nat
  BY EndsFinite, FS_CardinalityType
<1>3. ASSUME NEW i \in 1..C
      PROVE  LET e == Nth(es, i)
                 b == Before(s, e) IN
               /\ ms[i] \in Measurements
               /\ e \in es /\ e - 1 \in DOMAIN s /\ b + 1 \in DOMAIN s /\ b + 1 <= e - 1
               /\ ms[i].first = s[b + 1].ln /\ ms[i].last = s[e - 1].ln
  <2> DEFINE e == Nth(es, i)
             b == Before(s, e)
             line == Piece(s, e)
  <2>1. e \in es /\ e \in 1..Len(s) + 1
    <3>1. es \subseteq Nat
      BY <1>2
    <3>2. Nth(es, i) \in es
      BY <1>2, <3>1, NthIs
    <3> QED  BY <1>2, <3>2
  <2>2. ms[i] = Parse(line, command[i])
    OBVIOUS
  <2>3. /\ b \in 0..e - 1 /\ line \in Seq(Field) /\ line # <<>> /\ Len(line) = e - 1 - b
        /\ \A j \in 1..e - 1 - b : line[j] = s[b + j] /\ b + j \in DOMAIN s
    BY <2>1, PieceIs, BeforeIs DEF IsPiece
  <2>4. ms[i] \in Measurements /\ ms[i].first = line[1].ln /\ ms[i].last = line[Len(line)].ln
    BY <2>2, <2>3, ParseType
  <2> HIDE DEF e, b, line
  <2>5. Len(line) \in 1..e - 1 - b /\ 1 \in 1..e - 1 - b
    BY <2>1, <2>3
  <2>6. line[1] = s[b + 1] /\ line[Len(line)] = s[b + (e - 1 - b)]
    BY <2>3, <2>5
  <2>7. b + (e - 1 - b) = e - 1 /\ b + 1 <= e - 1
    BY <2>1, <2>3, <2>5
  <2> QED  BY <2>1, <2>3, <2>4, <2>5, <2>6, <2>7 DEF e, b
<1>5. DOMAIN ms = 1..C /\ ms = [i \in 1..C |-> ms[i]]
  OBVIOUS
<1> HIDE DEF C
<1>4. ms \in Seq(Measurements) /\ Len(ms) = C /\ DOMAIN ms = 1..C
  <2>1. \A i \in 1..C : ms[i] \in Measurements
    BY <1>3
  <2>2. [i \in 1..C |-> ms[i]] \in Seq(Measurements) /\ Len([i \in 1..C |-> ms[i]]) = C
    BY <1>2, <2>1
  <2> QED  BY <1>5, <2>2
<1> QED  BY <1>3, <1>4 DEF Reads, C

(* The reader, and the detection, guess the mode of each piece.             *)
LEMMA InTurnGuessed ==
  ASSUME NEW s \in Seq(Field), NEW es, es \subseteq Ends(s) \cup {Len(s) + 1},
         \A e \in es : Piece(s, e) # <<>>
  PROVE  /\ Reads(s, es, InTurn(s, es, Guessed))
         /\ \A i \in 1..Cardinality(es) :
              InTurn(s, es, Guessed)[i] = Guessed(Piece(s, Nth(es, i)))
<1> DEFINE command == [i \in 1..Cardinality(es) |-> GuessedMode(Piece(s, Nth(es, i)))]
<1>1. InTurn(s, es, Guessed) = [i \in 1..Cardinality(es) |-> Guessed(Piece(s, Nth(es, i)))]
  BY DEF InTurn
<1>2. \A i \in 1..Cardinality(es) :
        Guessed(Piece(s, Nth(es, i))) = Parse(Piece(s, Nth(es, i)), command[i])
  BY DEF Guessed
<1> HIDE DEF command
<1>3. InTurn(s, es, Guessed)
        = [i \in 1..Cardinality(es) |-> Parse(Piece(s, Nth(es, i)), command[i])]
  BY <1>1, <1>2
<1> QED  BY <1>1, <1>3, InTurnReads

(* _check_continuous_state reads every piece as a distance.                 *)
LEMMA InTurnAsDistance ==
  ASSUME NEW s \in Seq(Field), NEW es, es \subseteq Ends(s) \cup {Len(s) + 1},
         \A e \in es : Piece(s, e) # <<>>
  PROVE  Reads(s, es, InTurn(s, es, AsDistance))
<1> DEFINE command == [i \in 1..Cardinality(es) |-> "DT"]
<1>1. InTurn(s, es, AsDistance)
        = [i \in 1..Cardinality(es) |-> Parse(Piece(s, Nth(es, i)), command[i])]
  BY DEF InTurn, AsDistance
<1> HIDE DEF command
<1> QED  BY <1>1, InTurnReads

-----------------------------------------------------------------------------
(* A line in a sequence of fields.                                          *)

Sorted(s) == \A i, j \in DOMAIN s : i <= j => s[i].ln <= s[j].ln
Has(s, n) == \E i \in DOMAIN s : s[i].ln = n

(* The fields of line n in s: the first p of a line of the mode, from a on. *)
Run(s, n, a, p, mode) ==
  /\ a + p - 1 <= Len(s)
  /\ \A i \in DOMAIN s : s[i].ln = n <=> i \in a..a + p - 1
  /\ \A q \in 1..p : s[a + q - 1].f = LineOf(mode)[q]

(* Line n lies in s as the device d has sent it: in one piece, and whole    *)
(* unless it is the line that the device is at.                             *)
InPlace(s, n, d) ==
  \E mode \in Modes : \E p \in 1..Len(LineOf(mode)), a \in 1..Len(s) :
    /\ Run(s, n, a, p, mode)
    /\ n < d.ln => p = Len(LineOf(mode))
    /\ n = d.ln => p = d.pos /\ mode = d.mode

(* A line of either mode ends with its only line end.                       *)
LEMMA LineOfIs ==
  ASSUME NEW mode \in Modes
  PROVE  /\ Len(LineOf(mode)) \in Nat /\ Len(LineOf(mode)) >= 5
         /\ \A q \in 1..Len(LineOf(mode)) :
              LineOf(mode)[q] \in Fields /\ (LineOf(mode)[q] = "end" <=> q = Len(LineOf(mode)))
BY DEF Modes, LineOf, Fields

(* What stands in a sequence of fields is a field.                          *)
LEMMA FieldOf ==
  ASSUME NEW s \in Seq(Field), NEW i \in DOMAIN s
  PROVE  s[i] \in Field /\ s[i].ln \in Nat /\ s[i].f \in Fields /\ i \in 1..Len(s)
<1>1. s[i] \in Field
  OBVIOUS
<1> QED  BY <1>1 DEF Field

(* A line that lies in s is in s.                                           *)
LEMMA InPlaceHas ==
  ASSUME NEW s \in Seq(Field), NEW n, NEW d, InPlace(s, n, d)
  PROVE  Has(s, n)
<1>1. PICK mode \in Modes : \E p \in 1..Len(LineOf(mode)), a \in 1..Len(s) : Run(s, n, a, p, mode)
  BY DEF InPlace
<1>p. PICK p \in 1..Len(LineOf(mode)), a \in 1..Len(s) : Run(s, n, a, p, mode)
  BY <1>1
<1>2. a \in DOMAIN s /\ p \in Nat /\ p >= 1
  BY LineOfIs
<1>3. a \in a..a + p - 1
  BY <1>2
<1> QED  BY <1>p, <1>2, <1>3 DEF Run, Has

(* The line that the device is at ends s, and its end has not been sent.    *)
LEMMA OpenLine ==
  ASSUME NEW s \in Seq(Field), Sorted(s), NEW d \in Device, InPlace(s, d.ln, d),
         d.pos < Len(LineOf(d.mode)), \A i \in DOMAIN s : s[i].ln <= d.ln
  PROVE  /\ \A i \in Ends(s) : s[i].ln < d.ln
         /\ d.pos >= 1 /\ d.pos <= Len(s)
         /\ \A i \in DOMAIN s : s[i].ln = d.ln <=> i \in Len(s) - d.pos + 1..Len(s)
         /\ \A q \in 1..d.pos : s[Len(s) - d.pos + q].f = LineOf(d.mode)[q]
<1>1. d.pos \in Nat /\ d.mode \in Modes /\ d.ln \in Nat
  BY DEF Device
<1>2. PICK a \in 1..Len(s) : Run(s, d.ln, a, d.pos, d.mode) /\ d.pos >= 1
  BY <1>1, LineOfIs DEF InPlace
<1>3. /\ a + d.pos - 1 <= Len(s)
      /\ \A i \in DOMAIN s : s[i].ln = d.ln <=> i \in a..a + d.pos - 1
      /\ \A q \in 1..d.pos : s[a + q - 1].f = LineOf(d.mode)[q]
  BY <1>2 DEF Run
<1>4. a + d.pos - 1 = Len(s)
  <2>1. a \in DOMAIN s /\ Len(s) \in DOMAIN s /\ a <= Len(s)
    OBVIOUS
  <2>2. s[a].ln = d.ln
    BY <1>1, <1>2, <1>3, <2>1
  <2>3. s[a].ln <= s[Len(s)].ln /\ s[Len(s)].ln <= d.ln /\ s[Len(s)].ln \in Nat
    BY <2>1, FieldOf DEF Sorted
  <2>4. s[Len(s)].ln = d.ln
    BY <1>1, <2>2, <2>3
  <2> QED  BY <1>1, <1>3, <2>1, <2>4
<1>5. ASSUME NEW i \in Ends(s) PROVE s[i].ln < d.ln
  <2>1. i \in DOMAIN s /\ s[i].f = "end"
    BY DEF Ends
  <2>2. s[i].ln # d.ln
    <3>1. SUFFICES ASSUME s[i].ln = d.ln PROVE FALSE
      OBVIOUS
    <3>2. i \in a..a + d.pos - 1
      BY <1>3, <2>1, <3>1
    <3>3. i - a + 1 \in 1..d.pos /\ a + (i - a + 1) - 1 = i
      BY <1>1, <3>2
    <3>4. LineOf(d.mode)[i - a + 1] = "end"
      BY <1>3, <2>1, <3>3
    <3> QED  BY <1>1, <3>3, <3>4, LineOfIs
  <2>3. s[i].ln \in Nat /\ s[i].ln <= d.ln
    BY <2>1, FieldOf
  <2> QED  BY <1>1, <2>2, <2>3
<1>6. a = Len(s) - d.pos + 1 /\ a + d.pos - 1 = Len(s) /\ d.pos <= Len(s)
  BY <1>1, <1>4
<1>7. ASSUME NEW q \in 1..d.pos PROVE s[Len(s) - d.pos + q].f = LineOf(d.mode)[q]
  <2>1. a + q - 1 = Len(s) - d.pos + q
    BY SMTT(20), <1>1, <1>6
  <2> QED  BY <1>3, <2>1
<1>8. \A i \in DOMAIN s : s[i].ln = d.ln <=> i \in Len(s) - d.pos + 1..Len(s)
  BY <1>3, <1>6
<1> QED  BY <1>2, <1>5, <1>6, <1>7, <1>8

(* Any other line is there with its end, which is its last field.           *)
LEMMA ClosedLine ==
  ASSUME NEW s \in Seq(Field), NEW d \in Device, NEW n \in Nat, n < d.ln, InPlace(s, n, d)
  PROVE  \E mode \in Modes, a \in 1..Len(s), e \in Ends(s) :
           /\ e = a + Len(LineOf(mode)) - 1
           /\ \A i \in DOMAIN s : s[i].ln = n <=> i \in a..e
           /\ \A i \in a..e : s[i].f = LineOf(mode)[i - a + 1]
           /\ \A i \in a..e : i \in Ends(s) <=> i = e
<1>1. PICK mode \in Modes, a \in 1..Len(s) : Run(s, n, a, Len(LineOf(mode)), mode)
  BY DEF InPlace
<1> DEFINE p == Len(LineOf(mode))
           e == a + p - 1
<1>2. p \in Nat /\ p >= 5 /\ \A q \in 1..p : LineOf(mode)[q] = "end" <=> q = p
  BY LineOfIs
<1>3. /\ e <= Len(s) /\ e \in Nat
      /\ \A i \in DOMAIN s : s[i].ln = n <=> i \in a..e
      /\ \A q \in 1..p : s[a + q - 1].f = LineOf(mode)[q]
  BY <1>1, <1>2 DEF Run
<1> HIDE DEF p
<1>4. ASSUME NEW i \in a..e
      PROVE  /\ i \in DOMAIN s /\ s[i].f = LineOf(mode)[i - a + 1]
             /\ i \in Ends(s) <=> i = e
  <2>1. i \in DOMAIN s /\ i - a + 1 \in 1..p /\ a + (i - a + 1) - 1 = i
    BY <1>2, <1>3
  <2>2. s[i].f = LineOf(mode)[i - a + 1]
    BY <1>3, <2>1
  <2>3. i - a + 1 = p <=> i = e
    BY <1>2, <2>1
  <2> QED  BY <1>2, <2>1, <2>2, <2>3 DEF Ends
<1>5. e \in a..e
  BY <1>2
<1> QED  BY <1>3, <1>4, <1>5 DEF p

(* What Incomplete leaves of s has no line end; its fields are those of s   *)
(* from the last end on.                                                    *)
LEMMA IncompleteIs ==
  ASSUME NEW s \in Seq(Field)
  PROVE  LET b == Before(s, Len(s) + 1)
             rest == Incomplete(s) IN
           /\ b \in 0..Len(s) /\ (b # 0 => b \in Ends(s)) /\ \A i \in Ends(s) : i <= b
           /\ rest \in Seq(Field) /\ Len(rest) = Len(s) - b /\ Ends(rest) = {}
           /\ \A i \in DOMAIN rest : rest[i] = s[b + i] /\ b + i \in DOMAIN s
<1> DEFINE b == Before(s, Len(s) + 1)
           rest == Incomplete(s)
<1>1. b \in 0..Len(s) + 1 - 1 /\ (b # 0 => b \in Ends(s)) /\ \A i \in Ends(s) : i < Len(s) + 1 => i <= b
  BY BeforeIs
<1>2. \A i \in Ends(s) : i < Len(s) + 1
  BY DEF Ends
<1>p. IsPiece(s, Len(s) + 1, b, rest)
  <2>1. Len(s) + 1 \in 1..Len(s) + 1
    OBVIOUS
  <2> QED  BY <2>1, PieceIs DEF Incomplete
<1> HIDE DEF b, rest
<1>a. b \in 0..Len(s) /\ Len(s) \in Nat /\ Len(s) + 1 - 1 = Len(s)
  BY <1>1
<1>3. /\ rest \in Seq(Field) /\ Len(rest) = Len(s) - b
      /\ \A i \in 1..Len(s) - b : rest[i] = s[b + i] /\ b + i \in DOMAIN s /\ b + i \notin Ends(s)
  BY <1>p, <1>a DEF IsPiece
<1>4. DOMAIN rest = 1..Len(rest)
  BY <1>3
<1>5. Ends(rest) = {}
  BY <1>3, <1>4 DEF Ends
<1> QED  BY <1>1, <1>2, <1>a, <1>3, <1>4, <1>5 DEF b, rest

(* Incomplete drops every line that is complete, and keeps the other.       *)
LEMMA IncompleteDrops ==
  ASSUME NEW s \in Seq(Field), NEW d \in Device, NEW n \in Nat, n < d.ln, InPlace(s, n, d)
  PROVE  ~Has(Incomplete(s), n)
<1>1. PICK a \in 1..Len(s), e \in Ends(s) : \A i \in DOMAIN s : s[i].ln = n <=> i \in a..e
  BY ClosedLine
<1> DEFINE b == Before(s, Len(s) + 1)
           rest == Incomplete(s)
<1>2. /\ b \in 0..Len(s) /\ e <= b
      /\ rest \in Seq(Field)
      /\ \A i \in DOMAIN rest : rest[i] = s[b + i] /\ b + i \in DOMAIN s
  BY IncompleteIs
<1> HIDE DEF b, rest
<1>3. ASSUME NEW i \in DOMAIN rest PROVE rest[i].ln # n
  <2>1. e \in Nat /\ i \in Nat /\ i >= 1
    BY <1>2 DEF Ends
  <2>2. ~(b + i \in a..e)
    BY <1>2, <2>1
  <2> QED  BY <1>1, <1>2, <2>2
<1>4. \A i \in DOMAIN rest : rest[i].ln # n
  BY <1>3
<1> QED  BY <1>4 DEF Has, rest

(* The tail of what was read keeps the line that the device is at.          *)
LEMMA IncompleteKeeps ==
  ASSUME NEW s \in Seq(Field), Sorted(s), NEW d \in Device, InPlace(s, d.ln, d),
         d.pos < Len(LineOf(d.mode)), \A i \in DOMAIN s : s[i].ln <= d.ln
  PROVE  InPlace(Incomplete(s), d.ln, d)
<1> DEFINE b == Before(s, Len(s) + 1)
           rest == Incomplete(s)
           m == Len(s) - d.pos
<1>1. d.pos \in Nat /\ d.mode \in Modes
  BY DEF Device
<1>2. /\ \A i \in Ends(s) : s[i].ln < d.ln
      /\ d.pos >= 1 /\ m \in Nat
      /\ \A i \in DOMAIN s : s[i].ln = d.ln <=> i \in m + 1..Len(s)
      /\ \A q \in 1..d.pos : s[m + q].f = LineOf(d.mode)[q]
  BY <1>1, OpenLine
<1>3. /\ b \in 0..Len(s) /\ (b # 0 => b \in Ends(s))
      /\ rest \in Seq(Field) /\ Len(rest) = Len(s) - b
      /\ \A i \in DOMAIN rest : rest[i] = s[b + i] /\ b + i \in DOMAIN s
  BY IncompleteIs
<1>4. b <= m
  <2>1. b # 0 => b \in DOMAIN s /\ s[b].ln # d.ln
    BY <1>2, <1>3, FieldOf DEF Ends, Device
  <2>2. CASE b # 0
    <3>1. ~(b \in m + 1..Len(s))
      BY <1>2, <2>1, <2>2
    <3> QED  BY <1>2, <1>3, <3>1
  <2>3. CASE b = 0
    BY <1>2, <2>3
  <2> QED  BY <2>2, <2>3
<1>5. Len(s) = m + d.pos
  BY <1>1
<1> HIDE DEF b, rest, m
<1> DEFINE a == m - b + 1
<1>n. m \in Nat /\ b \in Nat /\ Len(s) \in Nat /\ Len(rest) = Len(s) - b /\ DOMAIN rest = 1..Len(rest)
  BY <1>2, <1>3
<1>6. a \in 1..Len(rest) /\ a + d.pos - 1 = Len(rest)
  BY <1>1, <1>2, <1>n, <1>4, <1>5
<1>7. \A i \in DOMAIN rest : rest[i].ln = d.ln <=> i \in a..a + d.pos - 1
  <2>1. ASSUME NEW i \in DOMAIN rest PROVE b + i \in m + 1..Len(s) <=> i \in a..a + d.pos - 1
    <3>1. i \in 1..Len(rest) /\ b + a = m + 1 /\ b + Len(rest) = Len(s) /\ a \in Nat
      BY <1>n, <1>4
    <3>2. b + i \in m + 1..Len(s) <=> i \in a..Len(rest)
      BY SMTT(20), <1>n, <3>1
    <3> QED  BY <1>6, <3>2
  <2> QED  BY <1>2, <1>3, <2>1
<1>8. \A q \in 1..d.pos : rest[a + q - 1].f = LineOf(d.mode)[q]
  <2>1. ASSUME NEW q \in 1..d.pos PROVE rest[a + q - 1] = s[m + q]
    <3>1. q \in Nat /\ q >= 1 /\ q <= d.pos /\ a \in Nat /\ b + a = m + 1
      BY <1>1, <1>n, <1>4, <1>6
    <3>2. a + q - 1 \in 1..Len(rest) /\ b + (a + q - 1) = m + q
      BY <1>1, <1>n, <1>6, <3>1
    <3> QED  BY <1>3, <1>n, <3>2
  <2> QED  BY <1>2, <2>1
<1> HIDE DEF a
<1>9. Run(rest, d.ln, a, d.pos, d.mode)
  BY <1>1, <1>3, <1>6, <1>7, <1>8 DEF Run
<1>10. d.pos \in 1..Len(LineOf(d.mode))
  BY <1>1, <1>2, LineOfIs
<1>11. d.ln \in Nat
  BY DEF Device
<1>12. ~(d.ln < d.ln)
  BY <1>11
<1> QED  BY <1>1, <1>6, <1>9, <1>10, <1>12 DEF InPlace, rest

(* A whole line is reported as what it is.                                  *)
LEMMA WholeIsFaithful ==
  ASSUME NEW line \in Seq(Field), NEW mode \in Modes, Len(line) = Len(LineOf(mode)) - 1,
         \A i \in DOMAIN line : line[i].f = LineOf(mode)[i],
         line[1].ln = line[Len(line)].ln
  PROVE  Faithful(Guessed(line))
<1> DEFINE v == Numbers(line)
           C == Len(line)
<1>1. C \in {4, 5} /\ (C = 5 <=> mode = "VT") /\ DOMAIN line = 1..C
  BY DEF Modes, LineOf
<1>2. \A i \in 1..C : line[i].f = "D" <=> i = 1
  BY SMTT(20), <1>1 DEF Modes, LineOf
<1>3. v = 2..C
  BY <1>1, <1>2 DEF Numbers
<1> HIDE DEF v, C
<1>4. IsFiniteSet(v) /\ Cardinality(v) = C - 1 /\ v \subseteq Nat
  <2>1. 2 \in Int /\ C \in Int /\ C - 2 + 1 = C - 1 /\ ~(2 > C)
    BY <1>1
  <2>2. IsFiniteSet(2..C) /\ Cardinality(2..C) = IF 2 > C THEN 0 ELSE C - 2 + 1
    BY <2>1, FS_Interval
  <2> QED  BY <1>3, <2>1, <2>2
<1>5. \A m, n \in 1..C - 1 : Nth(v, m) \in v /\ (m < n => Nth(v, m) < Nth(v, n))
  BY <1>4, NthIs, NthGrows
<1>6. Nth(v, 1) = 2 /\ Nth(v, 2) = 3
  <2>1. /\ Nth(v, 1) \in 2..C /\ Nth(v, 2) \in 2..C /\ Nth(v, 3) \in 2..C
        /\ Nth(v, 1) < Nth(v, 2) /\ Nth(v, 2) < Nth(v, 3)
    BY <1>1, <1>3, <1>5
  <2>2. CASE C = 4
    BY <2>1, <2>2
  <2>3. CASE C = 5
    <3>1. Nth(v, 4) \in 2..C /\ Nth(v, 3) < Nth(v, 4)
      BY <1>1, <1>3, <1>5, <2>3
    <3> QED  BY <2>1, <2>3, <3>1
  <2> QED  BY <1>1, <2>2, <2>3
<1>7. Headed(line) /\ v # {} /\ ~(Cardinality(v) < Len(line) - 1)
  BY <1>1, <1>2, <1>3, <1>4 DEF Headed, C
<1>8. GuessedMode(line) = mode
  BY <1>1, <1>4, <1>7 DEF GuessedMode, v, Modes
<1>9. ~(Cardinality(v) < 2) /\ ~(Cardinality(v) < 1)
  BY <1>1, <1>4
<1>10. /\ Guessed(line).first = line[1].ln /\ Guessed(line).last = line[Len(line)].ln
       /\ Guessed(line).speed = IF mode = "VT" THEN line[Nth(v, 1)].f ELSE NoField
       /\ Guessed(line).distance = IF mode = "VT" THEN line[Nth(v, 2)].f ELSE line[Nth(v, 1)].f
  BY <1>7, <1>8, <1>9 DEF Guessed, Parse, v
<1>11. line[2].f = LineOf(mode)[2] /\ line[3].f = LineOf(mode)[3]
  BY <1>1
<1> QED  BY <1>6, <1>10, <1>11 DEF Faithful, LineOf, Modes

(* A piece that begins with a line in place is that line, up to its end.    *)
LEMMA PieceOfLine ==
  ASSUME NEW s \in Seq(Field), Sorted(s), NEW d \in Device, d.pos < Len(LineOf(d.mode)),
         \A i \in DOMAIN s : s[i].ln <= d.ln,
         NEW e \in Ends(s), Before(s, e) + 1 <= e - 1, InPlace(s, s[Before(s, e) + 1].ln, d)
  PROVE  LET n == s[Before(s, e) + 1].ln IN
           /\ n < d.ln /\ s[e - 1].ln = n /\ s[e].ln = n
           /\ \A i \in Ends(s) : s[i].ln = n => i = e
           /\ Faithful(Guessed(Piece(s, e)))
<1> DEFINE b == Before(s, e)
           n == s[b + 1].ln
           line == Piece(s, e)
<1>1. e \in 1..Len(s) /\ e \in 1..Len(s) + 1 /\ e \in DOMAIN s
  BY DEF Ends
<1>2. /\ b \in 0..e - 1 /\ (b # 0 => b \in Ends(s)) /\ \A i \in Ends(s) : i < e => i <= b
      /\ b + 1 <= e - 1
  BY <1>1, BeforeIs
<1>3. IsPiece(s, e, b, line)
  BY <1>1, PieceIs
<1> HIDE DEF b, line
<1>4. b \in Nat /\ b + 1 \in DOMAIN s /\ b + 1 <= e
  BY <1>1, <1>2
<1>5. d.ln \in Nat /\ n \in Nat /\ n <= d.ln /\ InPlace(s, n, d)
  BY <1>4, FieldOf DEF Device, b
<1>6. s[e].ln \in Nat /\ n <= s[e].ln
  BY <1>1, <1>4, FieldOf DEF Sorted
<1>7. n < d.ln
  <2>1. SUFFICES ASSUME n = d.ln PROVE FALSE
    BY <1>5
  <2>2. s[e].ln < d.ln
    BY <1>5, <2>1, OpenLine
  <2> QED  BY <1>5, <1>6, <2>1, <2>2
<1> HIDE DEF n
<1>8. PICK mode \in Modes, a \in 1..Len(s), z \in Ends(s) :
        /\ z = a + Len(LineOf(mode)) - 1
        /\ \A i \in DOMAIN s : s[i].ln = n <=> i \in a..z
        /\ \A i \in a..z : s[i].f = LineOf(mode)[i - a + 1]
        /\ \A i \in a..z : i \in Ends(s) <=> i = z
  BY <1>5, <1>7, ClosedLine
<1>9. z \in 1..Len(s) /\ z \in DOMAIN s /\ Len(LineOf(mode)) \in Nat /\ Len(LineOf(mode)) >= 5
  BY LineOfIs DEF Ends
<1>10. b + 1 \in a..z
  BY <1>4, <1>8 DEF n
<1>11. a = b + 1
  <2>1. SUFFICES ASSUME a <= b PROVE FALSE
    BY <1>4, <1>10
  <2>2. b \in a..z /\ b # z /\ b # 0
    BY <1>4, <1>9, <1>10, <2>1
  <2> QED  BY <1>2, <1>8, <2>2
<1>12. e = z
  <2>1. ~(z < e)
    BY <1>2, <1>4, <1>9, <1>10
  <2>2. e \in a..z
    BY <1>1, <1>4, <1>9, <1>11, <2>1
  <2> QED  BY <1>8, <2>2
<1>13. s[e].ln = n /\ s[e - 1].ln = n
  <2>1. e \in a..z /\ e - 1 \in a..z /\ e - 1 \in DOMAIN s
    BY <1>1, <1>2, <1>4, <1>11, <1>12
  <2> QED  BY <1>1, <1>8, <2>1
<1>14. \A i \in Ends(s) : s[i].ln = n => i = e
  BY <1>8, <1>12 DEF Ends
<1>15. Faithful(Guessed(line))
  <2>1. Len(line) = Len(LineOf(mode)) - 1 /\ Len(line) >= 1 /\ line \in Seq(Field)
    BY <1>1, <1>3, <1>4, <1>8, <1>9, <1>11, <1>12 DEF IsPiece
  <2>2. ASSUME NEW i \in DOMAIN line
        PROVE  line[i].f = LineOf(mode)[i] /\ line[i].ln = n
    <3>0. Len(line) = e - 1 - b /\ i \in 1..Len(line) /\ e \in Nat /\ a \in Nat
      BY <1>1, <1>3, <2>1 DEF IsPiece
    <3>1. i \in 1..e - 1 - b /\ b + i \in a..z /\ (b + i) - a + 1 = i /\ b + i \in DOMAIN s
      BY SMTT(20), <1>1, <1>4, <1>11, <1>12, <3>0
    <3> QED  BY <1>3, <1>8, <3>1 DEF IsPiece
  <2>3. line[1].ln = line[Len(line)].ln
    BY <2>1, <2>2
  <2> QED  BY <2>1, <2>2, <2>3, WholeIsFaithful
<1> QED  BY <1>7, <1>13, <1>14, <1>15 DEF b, n, line

-----------------------------------------------------------------------------
(* A line in place when the sequence grows, is split or taken over.         *)

(* Where the elements of a concatenation come from.                         *)
LEMMA ConcatIs ==
  ASSUME NEW s \in Seq(Field), NEW t \in Seq(Field)
  PROVE  /\ s \o t \in Seq(Field) /\ Len(s \o t) = Len(s) + Len(t)
         /\ Len(s) \in Nat /\ Len(t) \in Nat
         /\ \A i \in DOMAIN (s \o t) :
              \/ i \in DOMAIN s /\ (s \o t)[i] = s[i]
              \/ i > Len(s) /\ i - Len(s) \in DOMAIN t /\ (s \o t)[i] = t[i - Len(s)]
         /\ \A i \in DOMAIN s : i \in DOMAIN (s \o t) /\ (s \o t)[i] = s[i]
         /\ \A i \in DOMAIN t : Len(s) + i \in DOMAIN (s \o t) /\ (s \o t)[Len(s) + i] = t[i]
OBVIOUS

(* A line that is not on the wire lies in the buffer.                       *)
LEMMA SplitLine ==
  ASSUME NEW s \in Seq(Field), NEW t \in Seq(Field), NEW n, NEW d,
         InPlace(s \o t, n, d), ~Has(t, n)
  PROVE  InPlace(s, n, d)
<1>1. PICK mode \in Modes : \E p \in 1..Len(LineOf(mode)), a \in 1..Len(s \o t) :
        /\ Run(s \o t, n, a, p, mode)
        /\ n < d.ln => p = Len(LineOf(mode))
        /\ n = d.ln => p = d.pos /\ mode = d.mode
  BY DEF InPlace
<1>2. PICK p \in 1..Len(LineOf(mode)), a \in 1..Len(s \o t) :
        /\ Run(s \o t, n, a, p, mode)
        /\ n < d.ln => p = Len(LineOf(mode))
        /\ n = d.ln => p = d.pos /\ mode = d.mode
  BY <1>1
<1>3. /\ \A i \in DOMAIN (s \o t) : (s \o t)[i].ln = n <=> i \in a..a + p - 1
      /\ \A q \in 1..p : (s \o t)[a + q - 1].f = LineOf(mode)[q]
      /\ a + p - 1 <= Len(s \o t)
  BY <1>2 DEF Run
<1>n. p \in Nat /\ p >= 1 /\ a \in Nat /\ a >= 1 /\ Len(s) \in Nat /\ DOMAIN s = 1..Len(s)
      /\ DOMAIN (s \o t) = 1..Len(s \o t) /\ Len(s \o t) \in Nat
  BY LineOfIs, ConcatIs
<1>4. ASSUME NEW i \in a..a + p - 1 PROVE i \in DOMAIN s /\ s[i] = (s \o t)[i]
  <2>1. i \in DOMAIN (s \o t) /\ (s \o t)[i].ln = n
    <3>1. i \in 1..Len(s \o t)
      BY <1>3, <1>n
    <3>2. i \in DOMAIN (s \o t)
      BY <1>n, <3>1
    <3> QED  BY <1>3, <3>2
  <2> QED  BY <2>1, ConcatIs DEF Has
<1>5. a + p - 1 <= Len(s) /\ a \in 1..Len(s)
  BY <1>4, <1>n
<1>6. Run(s, n, a, p, mode)
  <2>1. \A i \in DOMAIN s : s[i].ln = n <=> i \in a..a + p - 1
    BY <1>3, ConcatIs
  <2>2. \A q \in 1..p : s[a + q - 1].f = LineOf(mode)[q]
    <3>1. \A q \in 1..p : a + q - 1 \in a..a + p - 1
      BY <1>n
    <3> QED  BY <1>3, <1>4, <3>1
  <2> QED  BY <1>5, <2>1, <2>2 DEF Run
<1> QED  BY <1>2, <1>5, <1>6 DEF InPlace

(* More fields of other lines leave a line where it lies.                   *)
LEMMA GrowLine ==
  ASSUME NEW s \in Seq(Field), NEW t \in Seq(Field), NEW n, NEW d,
         InPlace(s, n, d), ~Has(t, n)
  PROVE  InPlace(s \o t, n, d)
<1>1. PICK mode \in Modes : \E p \in 1..Len(LineOf(mode)), a \in 1..Len(s) :
        /\ Run(s, n, a, p, mode)
        /\ n < d.ln => p = Len(LineOf(mode))
        /\ n = d.ln => p = d.pos /\ mode = d.mode
  BY DEF InPlace
<1>2. PICK p \in 1..Len(LineOf(mode)), a \in 1..Len(s) :
        /\ Run(s, n, a, p, mode)
        /\ n < d.ln => p = Len(LineOf(mode))
        /\ n = d.ln => p = d.pos /\ mode = d.mode
  BY <1>1
<1>3. /\ \A i \in DOMAIN s : s[i].ln = n <=> i \in a..a + p - 1
      /\ \A q \in 1..p : s[a + q - 1].f = LineOf(mode)[q]
      /\ a + p - 1 <= Len(s)
  BY <1>2 DEF Run
<1>n. p \in Nat /\ p >= 1 /\ a \in Nat /\ a >= 1 /\ Len(s) \in Nat /\ DOMAIN s = 1..Len(s)
      /\ Len(s \o t) = Len(s) + Len(t) /\ Len(t) \in Nat
  BY LineOfIs, ConcatIs
<1>5. a + p - 1 <= Len(s \o t) /\ a \in 1..Len(s \o t)
  BY <1>3, <1>n
<1>6. Run(s \o t, n, a, p, mode)
  <2>1. ASSUME NEW i \in DOMAIN (s \o t) PROVE (s \o t)[i].ln = n <=> i \in a..a + p - 1
    <3>1. CASE i \in DOMAIN s /\ (s \o t)[i] = s[i]
      BY <1>3, <3>1
    <3>2. CASE i > Len(s) /\ i - Len(s) \in DOMAIN t /\ (s \o t)[i] = t[i - Len(s)]
      BY <1>3, <1>n, <3>2 DEF Has
    <3> QED  BY <3>1, <3>2, ConcatIs
  <2>2. \A q \in 1..p : (s \o t)[a + q - 1].f = LineOf(mode)[q]
    <3>1. \A q \in 1..p : a + q - 1 \in DOMAIN s
      BY <1>3, <1>n
    <3> QED  BY <1>3, <3>1, ConcatIs
  <2> QED  BY <1>5, <2>1, <2>2 DEF Run
<1> QED  BY <1>2, <1>5, <1>6 DEF InPlace

(* The next fields of the line that the device is at.                       *)
NextFields(d, c) == [i \in 1..c - d.pos |-> [ln |-> d.ln, f |-> LineOf(d.mode)[d.pos + i]]]

(* The fields sent next are of the line that the device is at.              *)
LEMMA NextFieldsIs ==
  ASSUME NEW d \in Device, NEW c \in 1..Len(LineOf(d.mode)), d.pos < c
  PROVE  /\ NextFields(d, c) \in Seq(Field) /\ Len(NextFields(d, c)) = c - d.pos
         /\ \A i \in 1..c - d.pos : /\ NextFields(d, c)[i].ln = d.ln
                                    /\ NextFields(d, c)[i].f = LineOf(d.mode)[d.pos + i]
         /\ \A n : Has(NextFields(d, c), n) <=> n = d.ln
<1>1. d.pos \in Nat /\ d.mode \in Modes /\ d.ln \in Nat /\ c \in Nat /\ c - d.pos \in Nat
  BY LineOfIs DEF Device
<1>2. \A i \in 1..c - d.pos : d.pos + i \in 1..Len(LineOf(d.mode))
  BY <1>1, LineOfIs
<1>3. \A i \in 1..c - d.pos : [ln |-> d.ln, f |-> LineOf(d.mode)[d.pos + i]] \in Field
  BY <1>1, <1>2, LineOfIs DEF Field
<1>4. NextFields(d, c) \in Seq(Field) /\ Len(NextFields(d, c)) = c - d.pos
  BY SMTT(20), <1>1, <1>3 DEF NextFields
<1>5. \A i \in 1..c - d.pos : /\ NextFields(d, c)[i].ln = d.ln
                              /\ NextFields(d, c)[i].f = LineOf(d.mode)[d.pos + i]
  BY DEF NextFields
<1>6. DOMAIN NextFields(d, c) = 1..c - d.pos /\ 1 \in 1..c - d.pos
  BY <1>1 DEF NextFields
<1> QED  BY <1>4, <1>5, <1>6 DEF Has

(* Two ways to count the same place.                                        *)
LEMMA Shifted ==
  ASSUME NEW m \in Nat, NEW g \in Nat, NEW i \in Nat, i > m, i <= m + g
  PROVE  i - m \in 1..g /\ m + (i - m) = i
OBVIOUS

(* The next fields of a line continue it.                                   *)
LEMMA ExtendLine ==
  ASSUME NEW s \in Seq(Field), NEW d \in Device, NEW c \in 1..Len(LineOf(d.mode)), d.pos < c,
         d.pos <= Len(s),
         \A i \in DOMAIN s : s[i].ln = d.ln <=> i \in Len(s) - d.pos + 1..Len(s),
         \A q \in 1..d.pos : s[Len(s) - d.pos + q].f = LineOf(d.mode)[q],
         NEW e \in Device,
         \/ e.ln = d.ln /\ e.pos = c /\ e.mode = d.mode
         \/ e.ln = d.ln + 1 /\ c = Len(LineOf(d.mode))
  PROVE  InPlace(s \o NextFields(d, c), d.ln, e)
<1> DEFINE t == NextFields(d, c)
           a == Len(s) - d.pos + 1
           w == s \o t
<1>1. /\ d.pos \in Nat /\ d.mode \in Modes /\ d.ln \in Nat /\ c \in Nat
      /\ Len(s) \in Nat /\ DOMAIN s = 1..Len(s)
  BY LineOfIs DEF Device
<1>2. /\ t \in Seq(Field) /\ Len(t) = c - d.pos /\ DOMAIN t = 1..c - d.pos
      /\ \A i \in 1..c - d.pos : t[i].ln = d.ln /\ t[i].f = LineOf(d.mode)[d.pos + i]
  BY NextFieldsIs
<1>3. /\ w \in Seq(Field) /\ Len(w) = Len(s) + (c - d.pos) /\ DOMAIN w = 1..Len(w)
      /\ \A i \in DOMAIN s : i \in DOMAIN w /\ w[i] = s[i]
      /\ \A i \in DOMAIN t : Len(s) + i \in DOMAIN w /\ w[Len(s) + i] = t[i]
  <2> HIDE DEF t
  <2>1. /\ w \in Seq(Field) /\ Len(w) = Len(s) + Len(t)
        /\ \A i \in DOMAIN s : i \in DOMAIN w /\ w[i] = s[i]
        /\ \A i \in DOMAIN t : Len(s) + i \in DOMAIN w /\ w[Len(s) + i] = t[i]
    BY <1>2, ConcatIs
  <2> HIDE DEF w
  <2> QED  BY <1>2, <2>1
<1> HIDE DEF t, w
<1>4. a \in 1..Len(w) /\ a + c - 1 = Len(w)
  BY <1>1, <1>3
<1>5. ASSUME NEW i \in DOMAIN w PROVE w[i].ln = d.ln <=> i \in a..a + c - 1
  <2>1. CASE i \in DOMAIN s
    <3>0. i \in Nat /\ i <= Len(s) /\ a + c - 1 = Len(s) + (c - d.pos) /\ c - d.pos \in Nat
          /\ a \in Int
      BY <1>1, <2>1
    <3>1. i \in Len(s) - d.pos + 1..Len(s) <=> i \in a..a + c - 1
      BY SMTT(20), <3>0, <1>1
    <3> QED  BY <1>3, <2>1, <3>1
  <2>2. CASE i \notin DOMAIN s
    <3>0. i \in Nat /\ i > Len(s) /\ i <= Len(s) + (c - d.pos) /\ a \in Int /\ a <= Len(s) + 1
          /\ a + c - 1 = Len(s) + (c - d.pos)
      BY SMTT(20), <1>1, <1>3, <2>2
    <3>2. i - Len(s) \in 1..c - d.pos /\ Len(s) + (i - Len(s)) = i
      <4>1. c - d.pos \in Nat
        BY <1>1
      <4> QED  BY <1>1, <3>0, <4>1, Shifted
    <3>3. i \in a..a + c - 1
      <4> HIDE DEF a
      <4>1. a <= i /\ i <= a + c - 1 /\ a + c - 1 \in Int
        BY <1>1, <3>0
      <4> QED  BY <3>0, <4>1
    <3>1. i - Len(s) \in DOMAIN t /\ Len(s) + (i - Len(s)) = i /\ i \in a..a + c - 1
      BY <1>2, <3>2, <3>3
    <3> QED  BY <1>2, <1>3, <3>1
  <2> QED  BY <2>1, <2>2
<1>6. ASSUME NEW q \in 1..c PROVE w[a + q - 1].f = LineOf(d.mode)[q]
  <2>1. CASE q <= d.pos
    <3>1. q \in 1..d.pos /\ a + q - 1 = Len(s) - d.pos + q /\ a + q - 1 \in DOMAIN s
      BY <1>1, <2>1
    <3> QED  BY <1>3, <3>1
  <2>2. CASE q > d.pos
    <3>1. q - d.pos \in DOMAIN t /\ a + q - 1 = Len(s) + (q - d.pos) /\ d.pos + (q - d.pos) = q
      BY SMTT(20), <1>1, <1>2, <2>2
    <3> QED  BY SMTT(20), <1>2, <1>3, <3>1
  <2> QED  BY <1>1, <2>1, <2>2
<1> HIDE DEF a
<1>7. Run(w, d.ln, a, c, d.mode)
  BY <1>1, <1>3, <1>4, <1>5, <1>6 DEF Run
<1>8. /\ d.ln < e.ln => c = Len(LineOf(d.mode))
      /\ d.ln = e.ln => c = e.pos /\ d.mode = e.mode
  BY <1>1
<1> QED  BY <1>1, <1>4, <1>7, <1>8 DEF InPlace, w, t

-----------------------------------------------------------------------------
(* Sequences of measurements and of fields.                                 *)

(* q is p without its first elements.                                       *)
Drops(q, p) ==
  \E o \in Nat : /\ Len(p) = Len(q) + o
                 /\ \A i \in DOMAIN q : o + i \in DOMAIN p /\ q[i] = p[o + i]

(* Pushing drops the oldest measurements and nothing else.                  *)
LEMMA PushedIs ==
  ASSUME NEW q \in Seq(Measurements), NEW ms \in Seq(Measurements)
  PROVE  /\ Pushed(q, ms) \in Seq(Measurements) /\ Len(Pushed(q, ms)) <= QueueMax
         /\ Drops(Pushed(q, ms), q \o ms)
<1> DEFINE all == q \o ms
           over == IF Len(all) > QueueMax THEN Len(all) - QueueMax ELSE 0
           p == SubSeq(all, over + 1, Len(all))
<1>1. all \in Seq(Measurements) /\ Len(all) \in Nat /\ QueueMax \in Nat
  BY ReaderAssumption
<1>2. p = Pushed(q, ms)
  BY DEF Pushed
<1> HIDE DEF all
<1>3. over \in 0..Len(all) /\ Len(all) - over <= QueueMax
  BY <1>1
<1> HIDE DEF over
<1>4. /\ p \in Seq(Measurements) /\ Len(p) = Len(all) - over
      /\ \A i \in 1..Len(all) - over : p[i] = all[over + i] /\ over + i \in DOMAIN all
  BY <1>1, <1>3
<1> HIDE DEF p
<1>5. over \in Nat /\ Len(all) = Len(p) + over /\ DOMAIN p = 1..Len(all) - over
  BY <1>1, <1>3, <1>4
<1>6. Drops(p, all)
  BY <1>4, <1>5 DEF Drops
<1> QED  BY <1>2, <1>3, <1>4, <1>6 DEF all

(* LinesIn(s) are the lines that s has.                                     *)
LEMMA LinesInIs ==
  ASSUME NEW s, NEW n
  PROVE  n \in LinesIn(s) <=> Has(s, n)
BY DEF LinesIn, Has, Range

(* What the reader makes of the complete lines of s.                        *)
LEMMA ParsedIs ==
  ASSUME NEW s \in Seq(Field)
  PROVE  LET es == {e \in Ends(s) : Usable(Piece(s, e))} IN
           /\ Reads(s, es, Parsed(s)) /\ Parsed(s) \in Seq(Measurements)
           /\ \A i \in DOMAIN Parsed(s) : Parsed(s)[i] = Guessed(Piece(s, Nth(es, i)))
<1> DEFINE es == {e \in Ends(s) : Usable(Piece(s, e))}
<1>1. es \subseteq Ends(s) \cup {Len(s) + 1} /\ \A e \in es : Piece(s, e) # <<>>
  BY DEF Usable
<1>2. Parsed(s) = InTurn(s, es, Guessed)
  BY DEF Parsed
<1> HIDE DEF es
<1>3. Reads(s, es, Parsed(s))
  BY <1>1, <1>2, InTurnGuessed
<1>4. \A i \in 1..Cardinality(es) : Parsed(s)[i] = Guessed(Piece(s, Nth(es, i)))
  BY <1>1, <1>2, InTurnGuessed
<1>5. DOMAIN Parsed(s) = 1..Cardinality(es) /\ Parsed(s) \in Seq(Measurements)
  BY <1>3 DEF Reads
<1> QED  BY <1>3, <1>4, <1>5 DEF es

(* What detect_and_resume_continuous_mode makes of s.                       *)
LEMMA DetectedIs ==
  ASSUME NEW s \in Seq(Field)
  PROVE  LET es == {e \in Pieces(s) : Usable(Piece(s, e))} IN
           Reads(s, es, Detected(s)) /\ Detected(s) \in Seq(Measurements)
<1> DEFINE es == {e \in Pieces(s) : Usable(Piece(s, e))}
<1>1. es \subseteq Ends(s) \cup {Len(s) + 1} /\ \A e \in es : Piece(s, e) # <<>>
  BY DEF Pieces
<1>2. Detected(s) = InTurn(s, es, Guessed)
  BY DEF Detected
<1> HIDE DEF es
<1>3. Reads(s, es, Detected(s))
  BY <1>1, <1>2, InTurnGuessed
<1> QED  BY <1>3 DEF es, Reads

(* What _check_continuous_state makes of s.                                 *)
LEMMA AsDistanceIs ==
  ASSUME NEW s \in Seq(Field)
  PROVE  LET ms == InTurn(s, Pieces(s), AsDistance) IN
           Reads(s, Pieces(s), ms) /\ ms \in Seq(Measurements)
<1>1. Pieces(s) \subseteq Ends(s) \cup {Len(s) + 1} /\ \A e \in Pieces(s) : Piece(s, e) # <<>>
  BY DEF Pieces
<1> QED  BY <1>1, InTurnAsDistance DEF Reads

-----------------------------------------------------------------------------
(* Types.                                                                   *)

(* The initial values have their types.                                     *)
LEMMA NullType == Null \in Measurements /\ NoRequest \in Request /\ NoReader \in Reader
<1>1. Null \in Measurements
  BY DEF Null, Measurements, NoField
<1>2. <<>> \in Seq(Measurements) /\ <<>> \in Seq(Field)
  OBVIOUS
<1> QED  BY <1>1, <1>2 DEF NoRequest, Request, Stages, Modes, NoReader, Reader

(* The reader that is launched was not running.                             *)
LEMMA Launched ==
  ASSUME TypeOK, Launch
  PROVE  \E k \in Readers :
           /\ reader[k].st = "none" /\ task' = k /\ gaveUp' = FALSE
           /\ reader' = [reader EXCEPT ![k] = [st |-> "new", buffer |-> <<>>]]
           /\ reader'[k].st = "new" /\ reader'[k].buffer = <<>>
           /\ \A j \in Readers : j # k => reader'[j] = reader[j]
           /\ reader' \in [Readers -> Reader]
<1> DEFINE free == Readers \ Live
           k == CHOOSE k \in free : \A j \in free : k <= j
<1>1. free \subseteq Nat /\ free # {}
  BY ReaderAssumption DEF Launch
<1>2. k \in free
  <2>1. \E x \in free : \A j \in free : x <= j
    <3> HIDE DEF free
    <3> QED  BY <1>1, Least
  <2> HIDE DEF free
  <2> QED  BY <2>1
<1>3. reader' = [reader EXCEPT ![k] = [st |-> "new", buffer |-> <<>>]] /\ task' = k /\ gaveUp' = FALSE
  BY DEF Launch
<1> HIDE DEF k
<1>4. k \in Readers /\ reader[k].st = "none"
  BY <1>2 DEF Live
<1>5. [st |-> "new", buffer |-> <<>>] \in Reader
  BY DEF Reader
<1>6. reader \in [Readers -> Reader]
  BY DEF TypeOK
<1> QED  BY <1>3, <1>4, <1>5, <1>6

(* PutAll puts the first n items into the queue; the rest stays with the    *)
(* request.                                                                 *)
Puts(r, op, items, n) ==
  /\ queue' = queue \o SubSeq(items, 1, n)
  /\ Len(queue) + n <= QueueMax
  /\ n < Len(items) =>
       /\ req' = [req EXCEPT ![r] = [NoRequest EXCEPT !.op = op, !.st = "put",
                                      !.items = SubSeq(items, n + 1, Len(items))]]
       /\ UNCHANGED <<task, reader, gaveUp>>
  /\ n = Len(items) =>
       /\ req' = [req EXCEPT ![r] = IF op = "resume"
                    THEN [NoRequest EXCEPT !.op = "poll", !.st = "reply"] ELSE NoRequest]
       /\ Launch
  /\ lock' \in {lock, r, NoOne}

(* PutAll puts as many items as there is room for.                          *)
LEMMA PutAllDoes ==
  ASSUME TypeOK, NEW r \in Requests, NEW op \in {"resume", "reconnect"},
         NEW items \in Seq(Measurements), PutAll(r, op, items)
  PROVE  \E n \in 0..Len(items) : Puts(r, op, items, n)
<1> DEFINE room == QueueMax - Len(queue)
           count == IF Len(items) < room THEN Len(items) ELSE room
<1>1. Len(queue) \in Nat /\ QueueMax \in Nat /\ Len(items) \in Nat /\ Len(queue) <= QueueMax
  BY ReaderAssumption DEF TypeOK
<1>2. count \in 0..Len(items) /\ Len(queue) + count <= QueueMax
  BY <1>1
<1>3. /\ queue' = queue \o SubSeq(items, 1, count)
      /\ IF count = Len(items)
         THEN /\ Launch
              /\ lock' = IF lock = r THEN NoOne ELSE lock
              /\ IF op = "resume"
                 THEN req' = [req EXCEPT ![r] = [NoRequest EXCEPT !.op = "poll", !.st = "reply"]]
                 ELSE Return(r)
         ELSE /\ lock' = IF op = "resume" THEN r ELSE lock
              /\ req' = [req EXCEPT ![r] = [NoRequest EXCEPT !.op = op, !.st = "put",
                                             !.items = SubSeq(items, count + 1, Len(items))]]
              /\ UNCHANGED <<task, reader, gaveUp>>
  BY DEF PutAll
<1> HIDE DEF count
<1>4. count < Len(items) => count # Len(items)
  BY <1>1, <1>2
<1>5. Puts(r, op, items, count)
  BY <1>2, <1>3, <1>4 DEF Puts, Return
<1> QED  BY <1>2, <1>5

(* PutAll keeps the types, and the queue within its maximum.                *)
LEMMA PutAllTypes ==
  ASSUME TypeOK, NEW r \in Requests, NEW op \in {"resume", "reconnect"},
         NEW items \in Seq(Measurements), PutAll(r, op, items)
  PROVE  /\ queue' \in Seq(Measurements) /\ Len(queue') <= QueueMax
         /\ task' \in Readers \cup {NoTask} /\ reader' \in [Readers -> Reader]
         /\ gaveUp' \in BOOLEAN /\ lock' \in Requests \cup {NoOne}
         /\ req' \in [Requests -> Request]
<1>p. PICK n \in 0..Len(items) : Puts(r, op, items, n)
  BY PutAllDoes
<1>1. /\ queue' = queue \o SubSeq(items, 1, n)
      /\ Len(queue) + n <= QueueMax
      /\ n < Len(items) =>
           /\ req' = [req EXCEPT ![r] = [NoRequest EXCEPT !.op = op, !.st = "put",
                                           !.items = SubSeq(items, n + 1, Len(items))]]
           /\ UNCHANGED <<task, reader, gaveUp>>
      /\ n = Len(items) =>
           /\ req' = [req EXCEPT ![r] = IF op = "resume"
                        THEN [NoRequest EXCEPT !.op = "poll", !.st = "reply"] ELSE NoRequest]
           /\ Launch
      /\ lock' \in {lock, r, NoOne}
  BY <1>p DEF Puts
<1>2. lock' \in Requests \cup {NoOne}
  BY <1>1 DEF TypeOK
<1>3. n \in Nat /\ Len(items) \in Nat /\ n <= Len(items) /\ queue \in Seq(Measurements)
  BY DEF TypeOK
<1>4. queue' \in Seq(Measurements) /\ Len(queue') <= QueueMax
  <2>1. SubSeq(items, 1, n) \in Seq(Measurements) /\ Len(SubSeq(items, 1, n)) = n
    BY <1>3
  <2> QED  BY <1>1, <1>3, <2>1
<1>5. CASE n = Len(items)
  <2>1. task' \in Readers /\ reader' \in [Readers -> Reader] /\ gaveUp' = FALSE
    BY <1>1, <1>5, Launched
  <2>2. /\ [NoRequest EXCEPT !.op = "poll", !.st = "reply"] \in Request
        /\ NoRequest \in Request
    BY NullType DEF Request, AllOps, Stages
  <2>3. req' \in [Requests -> Request]
    BY <1>1, <1>5, <2>2 DEF TypeOK
  <2> QED  BY <1>2, <1>4, <2>1, <2>3
<1>6. CASE n < Len(items)
  <2>1. SubSeq(items, n + 1, Len(items)) \in Seq(Measurements)
    BY <1>3
  <2>2. [NoRequest EXCEPT !.op = op, !.st = "put", !.items = SubSeq(items, n + 1, Len(items))] \in Request
    BY <2>1, NullType DEF Request, AllOps, Stages
  <2>3. req' \in [Requests -> Request]
    BY <1>1, <1>6, <2>2 DEF TypeOK
  <2> QED  BY <1>1, <1>2, <1>4, <1>6, <2>3 DEF TypeOK
<1> QED  BY <1>3, <1>5, <1>6

(* ESC may switch the stream off, and changes nothing else.                 *)
LEMMA EscapedType ==
  ASSUME device \in Device, Escaped
  PROVE  device' \in Device /\ device'.mode = device.mode /\ device'.ln = device.ln
         /\ device'.pos = device.pos
BY DEF Escaped, Device

(* A started stream begins with a new line.                                 *)
LEMMA StreamingType ==
  ASSUME device \in Device, NEW mode \in Modes
  PROVE  /\ Streaming(mode) \in Device /\ Streaming(mode).pos = 0
         /\ device.pos = 0 => Streaming(mode).ln = device.ln
         /\ device.pos # 0 => Streaming(mode).ln = device.ln + 1
<1> DEFINE ln == IF device.pos = 0 THEN device.ln ELSE device.ln + 1
<1>1. ln \in Nat \ {0}
  BY DEF Device
<1>2. Streaming(mode) = [device EXCEPT !.on = TRUE, !.mode = mode, !.pos = 0, !.ln = ln]
  BY Zenon DEF Streaming
<1> HIDE DEF ln
<1>3. /\ Streaming(mode).on = TRUE /\ Streaming(mode).mode = mode
      /\ Streaming(mode).pos = 0 /\ Streaming(mode).ln = ln
  BY <1>2 DEF Device
<1>4. Streaming(mode) = [on |-> TRUE, mode |-> mode, ln |-> ln, pos |-> 0]
  BY <1>2 DEF Device
<1>5. Streaming(mode) \in Device
  BY <1>1, <1>4 DEF Device
<1> QED  BY <1>3, <1>5 DEF ln

(* Lines are numbers.                                                       *)
LEMMA LinesInType ==
  ASSUME NEW s \in Seq(Field)
  PROVE  LinesIn(s) \subseteq Nat
BY FieldOf DEF LinesIn, Range

(* Lines that readers hold are numbers.                                     *)
LEMMA HeldType ==
  ASSUME reader \in [Readers -> Reader], NEW ks
  PROVE  Held(ks) \subseteq Nat
<1>1. \A k \in Readers : reader[k].buffer \in Seq(Field)
  BY DEF Reader
<1> QED  BY <1>1, LinesInType DEF Held

(* What a poll drains was in the queue, or is nothing.                      *)
LEMMA DrainedType ==
  ASSUME TypeOK
  PROVE  Drained \in Measurements /\ (queue # <<>> => Drained \in Range(queue))
<1>1. queue \in Seq(Measurements)
  BY DEF TypeOK
<1>2. CASE queue = <<>>
  BY <1>2, NullType DEF Drained
<1>3. CASE queue # <<>>
  <2>1. Len(queue) \in DOMAIN queue
    BY <1>1, <1>3
  <2> QED  BY <1>1, <1>3, <2>1 DEF Drained, Range
<1> QED  BY <1>2, <1>3

(* A request waits for the lock after it has cancelled the reader only to   *)
(* start or to stop, and it waits for room only to resume or reconnect.     *)
Staged ==
  \A r \in Requests :
    /\ At(r, "quiet") => req[r].op \in {"start", "stop"}
    /\ At(r, "put") => req[r].op \in {"resume", "reconnect"}

(* Every step of a reader keeps the types.                                  *)
LEMMA ReaderTypes ==
  ASSUME TypeOK, NEW k \in Readers, ReaderStep(k)
  PROVE  TypeOK'
<1>1. /\ reader \in [Readers -> Reader] /\ req \in [Requests -> Request]
      /\ wire \in Seq(Field) /\ queue \in Seq(Measurements) /\ Len(queue) <= QueueMax
      /\ shared \subseteq Nat
  BY DEF TypeOK
<1>2. reader[k].buffer \in Seq(Field) /\ reader[k].buffer \o wire \in Seq(Field)
  BY <1>1 DEF Reader
<1>3. NotDue(k) \in [Requests -> Request]
  BY <1>1 DEF NotDue, Request
<1>4. Held({k}) \subseteq Nat /\ LinesIn(wire) \subseteq Nat
  BY <1>1, HeldType, LinesInType
<1>5. CASE ReaderReads(k)
  <2> DEFINE s == reader[k].buffer \o wire
  <2>1. Parsed(s) \in Seq(Measurements) /\ Incomplete(s) \in Seq(Field)
    BY <1>2, ParsedIs, IncompleteIs
  <2>2. queue' \in Seq(Measurements) /\ Len(queue') <= QueueMax
    BY <1>1, <1>5, <2>1, PushedIs DEF ReaderReads
  <2>3. reader' \in [Readers -> Reader]
    BY <1>1, <1>5, <2>1 DEF ReaderReads, Kept, Reader
  <2>4. shared' \subseteq Nat /\ wire' \in Seq(Field)
    <3>1. shared' \in {shared, shared \cup LinesIn(wire)} /\ wire' = <<>>
      BY <1>5 DEF ReaderReads
    <3> QED  BY <1>1, <1>4, <3>1
  <2> QED  BY <1>3, <1>5, <2>2, <2>3, <2>4 DEF TypeOK, ReaderReads
<1>6. CASE ReaderEnds(k)
  BY <1>1, <1>3, <1>4, <1>6, NullType DEF TypeOK, ReaderEnds
<1>7. CASE ReaderRetries(k)
  <2>1. reader' \in [Readers -> Reader]
    BY <1>1, <1>7 DEF ReaderRetries, Reader
  <2> QED  BY <1>1, <1>3, <1>7, <2>1 DEF TypeOK, ReaderRetries
<1>8. CASE ReaderGivesUp(k)
  BY <1>1, <1>3, <1>4, <1>8, NullType DEF TypeOK, ReaderGivesUp
<1> QED  BY <1>5, <1>6, <1>7, <1>8 DEF ReaderStep

(* Every step of the device and of the link keeps the types.                *)
LEMMA DeviceTypes ==
  ASSUME TypeOK, DeviceSends \/ LinkBreaks
  PROVE  TypeOK'
<1>1. device \in Device /\ wire \in Seq(Field)
  BY DEF TypeOK
<1>2. CASE DeviceSends
  <2>1. PICK c \in {c \in Cuts \cup {Len(LineOf(device.mode))} :
                      device.pos < c /\ c <= Len(LineOf(device.mode))} :
          /\ wire' = wire \o NextFields(device, c)
          /\ device' = IF c = Len(LineOf(device.mode))
                       THEN [device EXCEPT !.ln = @ + 1, !.pos = 0]
                       ELSE [device EXCEPT !.pos = c]
    BY <1>2 DEF DeviceSends, NextFields
  <2>2. c \in 1..Len(LineOf(device.mode)) /\ device.pos < c /\ c \in Nat
    BY <1>1, <2>1, LineOfIs, ReaderAssumption DEF Device
  <2>3. wire' \in Seq(Field)
    BY <1>1, <2>1, <2>2, NextFieldsIs, ConcatIs
  <2>4. device' \in Device
    <3>1. device.ln + 1 \in Nat \ {0} /\ device.pos \in Nat
      BY <1>1 DEF Device
    <3> QED  BY <1>1, <2>1, <2>2, <3>1 DEF Device
  <2> QED  BY <1>2, <2>3, <2>4 DEF DeviceSends, TypeOK, flags
<1>3. CASE LinkBreaks
  BY <1>3 DEF TypeOK, LinkBreaks, flags
<1> QED  BY <1>2, <1>3

(* Every step that begins a request keeps the types.                        *)
LEMMA BeginTypes ==
  ASSUME TypeOK, NEW r \in Requests, BeginOp(r)
  PROVE  TypeOK'
<1>1. /\ reader \in [Readers -> Reader] /\ req \in [Requests -> Request]
      /\ wire \in Seq(Field) /\ device \in Device /\ shared \subseteq Nat
  BY DEF TypeOK
<1>2. \A ks : Held(ks) \subseteq Nat
  BY <1>1, HeldType
<1>3. ASSUME NEW op \in {"start", "stop"}, NEW mode \in Modes, BeginStop(r, op, mode)
      PROVE  TypeOK'
  <2>1. reader' \in [Readers -> Reader]
    BY <1>1, <1>3, NullType DEF BeginStop, CancelTask
  <2>2. [NoRequest EXCEPT !.op = op, !.st = "quiet", !.mode = mode] \in Request
    BY NullType DEF Request, AllOps, Stages
  <2>3. req' \in [Requests -> Request]
    BY <1>1, <1>3, <2>2 DEF BeginStop
  <2> QED  BY <1>2, <1>3, <2>1, <2>3 DEF BeginStop, TypeOK
<1>4. CASE BeginResume(r)
  <2>1. [NoRequest EXCEPT !.op = "resume", !.st = "detect"] \in Request
    BY NullType DEF Request, AllOps, Stages
  <2> QED  BY <1>1, <1>4, <2>1 DEF BeginResume, TypeOK, flags
<1>5. ASSUME NEW n \in Nat, BeginCommand(r, n) PROVE TypeOK'
  <2>1. [NoRequest EXCEPT !.op = "command", !.st = "send", !.left = n] \in Request
    BY NullType DEF Request, AllOps, Stages
  <2> QED  BY <1>1, <1>5, <2>1 DEF BeginCommand, TypeOK, flags
<1>6. CASE SetModeOff(r)
  BY <1>1, <1>6, EscapedType DEF SetModeOff, TypeOK, flags
<1>7. CASE Reconnect(r)
  <2>1. [NoRequest EXCEPT !.op = "reconnect", !.st = "clear"] \in Request
    BY NullType DEF Request, AllOps, Stages
  <2>2. shared' \subseteq Nat
    BY <1>1, <1>2, <1>7, LinesInType DEF Reconnect, Device
  <2> QED  BY <1>1, <1>7, <2>1, <2>2, EscapedType DEF Reconnect, TypeOK, flags
<1>8. ASSUME QueryRoute(r) \/ ParameterRoute(r) \/ ConfigRoute(r) \/ MeasureRoute(r)
      PROVE  \E n \in Nat : BeginCommand(r, n)
  BY <1>8, ReaderAssumption DEF QueryRoute, ParameterRoute, ConfigRoute, MeasureRoute
<1>9. "VT" \in Modes /\ StartModes \subseteq Modes
  BY ReaderAssumption DEF Modes
<1> QED  BY <1>3, <1>4, <1>5, <1>6, <1>7, <1>8, <1>9 DEF BeginOp

(* Every step of a request keeps the types.                                 *)
LEMMA RequestTypes ==
  ASSUME TypeOK, Staged, NEW r \in Requests, RequestStep(r)
  PROVE  TypeOK'
<1>1. /\ reader \in [Readers -> Reader] /\ req \in [Requests -> Request] /\ req[r] \in Request
      /\ wire \in Seq(Field) /\ queue \in Seq(Measurements) /\ Len(queue) <= QueueMax
      /\ device \in Device /\ shared \subseteq Nat /\ LinesIn(wire) \subseteq Nat
  BY LinesInType DEF TypeOK
<1>2. NoRequest \in Request /\ NoReader \in Reader /\ Null \in Measurements
  BY NullType
<1>3. \A st \in Stages : [req EXCEPT ![r].st = st] \in [Requests -> Request]
  BY <1>1 DEF Request
<1>4. \A st : At(r, st) => req[r].st = st
  BY DEF At
<1>5. ASSUME Taken(wire) PROVE wire' \in Seq(Field) /\ shared' \subseteq Nat
  <2>1. wire' = <<>> /\ shared' = shared \cup LinesIn(wire)
    BY <1>5 DEF Taken
  <2>2. <<>> \in Seq(Field)
    OBVIOUS
  <2> QED  BY <1>1, <2>1, <2>2
<1>e. /\ <<>> \in Seq(Measurements) /\ Len(<<>>) <= QueueMax
      /\ NoOne \in Requests \cup {NoOne} /\ FALSE \in BOOLEAN /\ TRUE \in BOOLEAN
  BY ReaderAssumption
<1>6. CASE StopContinuous(r)
  <2>1. device' \in Device
    BY <1>1, <1>6, EscapedType DEF StopContinuous
  <2>2. req' \in [Requests -> Request]
    BY <1>1, <1>2, <1>3, <1>6 DEF StopContinuous, Return, Go, Stages
  <2>3. UNCHANGED <<gaveUp, task, reader, lock, link, wire, shared>> /\ queue' = <<>> /\ Quiet
    BY <1>6 DEF StopContinuous
  <2> QED  BY <1>1, <1>e, <2>1, <2>2, <2>3 DEF TypeOK, Quiet
<1>7. CASE SendCommand(r)
  <2>1. CASE link = "up"
    <3>1. req' \in [Requests -> Request]
      <4>1. Live \subseteq Readers
        BY DEF Live
      <4>2. req' = [req EXCEPT ![r].st = "answer", ![r].due = Live]
        BY <1>7, <2>1 DEF SendCommand
      <4> QED  BY <1>1, <4>1, <4>2 DEF Request, Stages
    <3>2. device' \in Device
      <4>1. device' = IF req[r].op = "start" THEN Streaming(req[r].mode) ELSE device
        BY <1>7, <2>1 DEF SendCommand
      <4>2. req[r].mode \in Modes
        BY <1>1 DEF Request
      <4> QED  BY <1>1, <4>1, <4>2, StreamingType
    <3>3. shared' \subseteq Nat /\ wire' = <<>> /\ lock' = r
      <4>1. CutBy(req[r].op) \subseteq Nat
        BY <1>1 DEF CutBy, Device
      <4> QED  BY <1>1, <1>7, <2>1, <4>1 DEF SendCommand
    <3> QED  BY <1>1, <1>7, <3>1, <3>2, <3>3 DEF SendCommand, TypeOK, flags
  <2>2. CASE link # "up"
    BY <1>1, <1>2, <1>7, <2>2 DEF SendCommand, Return, TypeOK, flags
  <2> QED  BY <2>1, <2>2
<1>8. CASE StartAnswered(r)
  <2>1. task' \in Readers /\ reader' \in [Readers -> Reader] /\ gaveUp' = FALSE
    BY <1>8, Launched DEF StartAnswered
  <2>2. /\ Taken(wire) /\ continuous' = TRUE /\ believed' = TRUE /\ lock' = NoOne
        /\ Return(r) /\ UNCHANGED <<reading, queue, link, device>>
    BY <1>8 DEF StartAnswered
  <2> QED  BY <1>1, <1>2, <1>5, <1>e, <2>1, <2>2 DEF Return, TypeOK
<1>9. CASE CommandAnswered(r)
  <2>1. req' \in [Requests -> Request]
    <3>1. CASE Return(r)
      BY <1>1, <1>2, <3>1 DEF Return
    <3>2. CASE req[r].left > 1 /\ req' = [req EXCEPT ![r].st = "send", ![r].left = @ - 1]
      <4>1. req[r].left \in Nat /\ req[r].left - 1 \in Nat
        BY <1>1, <3>2 DEF Request
      <4> QED  BY <1>1, <3>2, <4>1 DEF Request, Stages
    <3> QED  BY <1>9, <3>1, <3>2 DEF CommandAnswered
  <2> QED  BY <1>1, <1>5, <1>e, <1>9, <2>1 DEF CommandAnswered, TypeOK, flags
<1>10. CASE NoAnswer(r)
  BY <1>1, <1>2, <1>5, <1>e, <1>10 DEF NoAnswer, Return, TypeOK, flags
<1>11. CASE DetectNothing(r)
  BY <1>1, <1>2, <1>5, <1>e, <1>11 DEF DetectNothing, Return, TypeOK
<1>12. CASE DetectPartial(r)
  BY <1>1, <1>3, <1>5, <1>e, <1>12, EscapedType DEF DetectPartial, Go, Stages, TypeOK, flags
<1>13. CASE DetectEscaped(r)
  BY <1>1, <1>2, <1>13 DEF DetectEscaped, Return, TypeOK
<1>14. CASE Detect(r)
  <2>1. /\ Taken(wire) /\ UNCHANGED <<reading, link, device>>
        /\ continuous' \in BOOLEAN /\ believed' \in BOOLEAN
    BY <1>14 DEF Detect
  <2>2. CASE Detected(wire) # <<>>
    <3>1. PutAll(r, "resume", Detected(wire))
      BY <1>14, <2>2 DEF Detect
    <3>2. Detected(wire) \in Seq(Measurements)
      BY <1>1, DetectedIs
    <3> QED  BY <1>1, <1>5, <1>e, <2>1, <3>1, <3>2, PutAllTypes DEF TypeOK
  <2>3. CASE Detected(wire) = <<>>
    <3>1. Return(r) /\ UNCHANGED <<task, reader, gaveUp, queue, lock>>
      BY <1>14, <2>3 DEF Detect
    <3> QED  BY <1>1, <1>2, <1>5, <1>e, <2>1, <3>1 DEF Return, TypeOK
  <2> QED  BY <2>2, <2>3
<1>15. CASE PutOn(r)
  <2>1. /\ PutAll(r, req[r].op, req[r].items)
        /\ UNCHANGED <<continuous, reading, believed, link, wire, device, shared>>
    BY <1>15 DEF PutOn
  <2>2. req[r].op \in {"resume", "reconnect"} /\ req[r].items \in Seq(Measurements)
    BY <1>1, <1>15 DEF PutOn, Staged, Request
  <2> QED  BY <2>1, <2>2, PutAllTypes DEF TypeOK
<1>16. CASE CheckSilence(r)
  BY <1>1, <1>2, <1>16 DEF CheckSilence, Return, TypeOK
<1>17. CASE CheckData(r)
  <2>1. PutAll(r, "reconnect", InTurn(wire, Pieces(wire), AsDistance))
    BY <1>17 DEF CheckData
  <2>2. InTurn(wire, Pieces(wire), AsDistance) \in Seq(Measurements)
    BY <1>1, AsDistanceIs
  <2>3. /\ Taken(wire) /\ continuous' = TRUE /\ believed' = TRUE
        /\ UNCHANGED <<reading, link, device>>
    BY <1>17 DEF CheckData
  <2> QED  BY <1>1, <1>5, <1>e, <2>1, <2>2, <2>3, PutAllTypes DEF TypeOK
<1>18. CASE Drain(r)
  <2>1. [NoRequest EXCEPT !.op = "poll", !.st = "fresh", !.last = Drained] \in Request
    BY <1>2, DrainedType DEF Request, AllOps, Stages
  <2> QED  BY <1>1, <1>e, <1>18, <2>1 DEF Drain, TypeOK, flags
<1>19. CASE NoStream(r)
  BY <1>1, <1>2, <1>19 DEF NoStream, Return, TypeOK, flags
<1>20. CASE Fresh(r)
  <2>1. Tail(queue) \in Seq(Measurements) /\ Len(Tail(queue)) <= QueueMax
    BY <1>1, <1>20, ReaderAssumption DEF Fresh
  <2> QED  BY <1>1, <1>2, <1>e, <1>20, <2>1 DEF Fresh, Return, TypeOK, flags
<1>21. CASE NoFresh(r)
  BY <1>1, <1>2, <1>21 DEF NoFresh, Return, TypeOK, flags
<1> QED  BY <1>6, <1>7, <1>8, <1>9, <1>10, <1>11, <1>12, <1>13, <1>14, <1>15, <1>16, <1>17,
            <1>18, <1>19, <1>20, <1>21 DEF RequestStep

(* Every step keeps the types.                                              *)
LEMMA NextTypes ==
  ASSUME TypeOK, Staged, [Next]_vars
  PROVE  TypeOK'
<1>1. CASE UNCHANGED vars
  BY <1>1 DEF vars, TypeOK
<1>2. CASE Next
  BY <1>2, ReaderTypes, DeviceTypes, BeginTypes, RequestTypes DEF Next
<1> QED  BY <1>1, <1>2

-----------------------------------------------------------------------------
(* A device that says it is in continuous mode has a reader.                *)

(* Between two steps the flag is set only while a reader will run: one that *)
(* has not started and will set reading, or one that finds it set.          *)
Fed ==
  continuous =>
    \/ gaveUp
    \/ \E r \in Requests : At(r, "quiet") \/ At(r, "put")
    \/ \E k \in Readers : reader[k].st = "new"
    \/ reading /\ \E k \in Readers : reader[k].st = "loop"

(* Only request r moves.                                                    *)
Alone(r) == \A q \in Requests \ {r} : req'[q] = req[q]

(* One request moves, and is what it waits for.                             *)
LEMMA StagedAlone ==
  ASSUME Staged, NEW r \in Requests, Alone(r),
         req'[r].st = "quiet" => req'[r].op \in {"start", "stop"},
         req'[r].st = "put" => req'[r].op \in {"resume", "reconnect"}
  PROVE  Staged'
<1>1. ASSUME NEW q \in Requests
      PROVE  /\ req'[q].st = "quiet" => req'[q].op \in {"start", "stop"}
             /\ req'[q].st = "put" => req'[q].op \in {"resume", "reconnect"}
  <2>1. CASE q = r
    BY <2>1
  <2>2. CASE q # r
    BY <2>2 DEF Alone, Staged, At
  <2> QED  BY <2>1, <2>2
<1> QED  BY <1>1 DEF Staged, At

(* A request that neither was waiting nor waits afterwards.                 *)
LEMMA FedAlone ==
  ASSUME Staged, Fed, NEW r \in Requests, Alone(r),
         req[r].st \notin {"quiet", "put"}, req'[r].st \notin {"quiet", "put"},
         continuous' => continuous, UNCHANGED <<reading, reader, gaveUp>>
  PROVE  Staged' /\ Fed'
<1>1. Staged'
  BY StagedAlone
<1>2. ASSUME NEW q \in Requests, At(q, "quiet") \/ At(q, "put")
      PROVE  At(q, "quiet")' \/ At(q, "put")'
  BY <1>2 DEF Alone, At
<1> QED  BY <1>1, <1>2 DEF Fed

(* A step of a reader leaves a reader to every stream, or gives up.         *)
LEMMA ReaderFed ==
  ASSUME TypeOK, Staged, Fed, NEW k \in Readers, ReaderStep(k)
  PROVE  Staged' /\ Fed'
<1>1. req' = NotDue(k) /\ continuous' = continuous
  BY DEF ReaderStep, ReaderReads, ReaderEnds, ReaderRetries, ReaderGivesUp
<1>2. \A q \in Requests : req'[q].st = req[q].st /\ req'[q].op = req[q].op
  BY <1>1 DEF NotDue, TypeOK, Request
<1>3. Staged'
  BY <1>2 DEF Staged, At
<1>4. \A q \in Requests, st \in Stages : At(q, st)' <=> At(q, st)
  BY <1>2 DEF At
<1>r. reader \in [Readers -> Reader] /\ \A j \in Readers : reader[j] \in Reader
  BY DEF TypeOK
<1>5. ASSUME ReaderReads(k) \/ ReaderRetries(k) PROVE Fed'
  <2>1. reading' = TRUE /\ reader'[k].st = "loop"
    BY <1>5, <1>r DEF ReaderReads, ReaderRetries, Reader
  <2> QED  BY <2>1 DEF Fed
<1>6. ASSUME ReaderEnds(k) PROVE Fed'
  <2>1. gaveUp' = gaveUp /\ \A j \in Readers : j # k => reader'[j] = reader[j]
    BY <1>6, <1>r DEF ReaderEnds
  <2>2. ~continuous \/ (reader[k].st = "loop" /\ ~reading)
    BY <1>6 DEF ReaderEnds
  <2>3. \A j \in Readers : reader[j].st = "new" /\ reader[k].st = "loop" => reader'[j].st = "new"
    BY <2>1
  <2> QED  BY <1>1, <1>4, <2>1, <2>2, <2>3 DEF Fed, Stages
<1>7. ASSUME ReaderGivesUp(k) PROVE Fed'
  BY <1>7 DEF ReaderGivesUp, Fed
<1> QED  BY <1>3, <1>5, <1>6, <1>7 DEF ReaderStep

(* A request that puts goes on waiting or launches a reader.                *)
LEMMA PutAllFed ==
  ASSUME TypeOK, Staged, NEW r \in Requests, NEW op \in {"resume", "reconnect"},
         NEW items \in Seq(Measurements), PutAll(r, op, items)
  PROVE  Staged' /\ Fed'
<1>p. PICK n \in 0..Len(items) : Puts(r, op, items, n)
  BY PutAllDoes
<1>1. CASE n < Len(items)
  <2>1. req' = [req EXCEPT ![r] = [NoRequest EXCEPT !.op = op, !.st = "put",
                                   !.items = SubSeq(items, n + 1, Len(items))]]
    BY <1>p, <1>1 DEF Puts
  <2>2. Alone(r) /\ req'[r].st = "put" /\ req'[r].op = op
    BY <2>1 DEF TypeOK, Alone, NoRequest
  <2> QED  BY <2>2, StagedAlone DEF Fed, At
<1>2. CASE n = Len(items)
  <2>1. req' = [req EXCEPT ![r] = IF op = "resume"
                  THEN [NoRequest EXCEPT !.op = "poll", !.st = "reply"] ELSE NoRequest]
    BY <1>p, <1>2 DEF Puts
  <2>2. Alone(r) /\ req'[r].st \in {"reply", "idle"}
    BY <2>1 DEF TypeOK, Alone, NoRequest
  <2>3. \E k \in Readers : reader'[k].st = "new"
    BY <1>p, <1>2, Launched DEF Puts
  <2> QED  BY <2>2, <2>3, StagedAlone DEF Fed
<1>3. n < Len(items) \/ n = Len(items)
  OBVIOUS
<1> QED  BY <1>1, <1>2, <1>3

(* A request that begins takes the reader only to start or to stop.         *)
LEMMA BeginFed ==
  ASSUME TypeOK, Staged, Fed, NEW r \in Requests, BeginOp(r)
  PROVE  Staged' /\ Fed'
<1>1. req \in [Requests -> Request]
  BY DEF TypeOK
<1>2. ASSUME NEW op \in {"start", "stop"}, NEW mode, BeginStop(r, op, mode)
      PROVE  Staged' /\ Fed'
  <2>1. Alone(r) /\ req'[r].st = "quiet" /\ req'[r].op = op
    BY <1>1, <1>2 DEF BeginStop, Alone, NoRequest
  <2> QED  BY <2>1, StagedAlone DEF Fed, At
<1>3. CASE BeginResume(r)
  <2>1. Alone(r) /\ req'[r].st = "detect" /\ req[r].st = "idle"
    BY <1>1, <1>3 DEF BeginResume, Alone, NoRequest, At
  <2> QED  BY <1>3, <2>1, FedAlone DEF BeginResume, flags
<1>4. ASSUME NEW n, BeginCommand(r, n) PROVE Staged' /\ Fed'
  <2>1. Alone(r) /\ req'[r].st = "send" /\ req[r].st = "idle"
    BY <1>1, <1>4 DEF BeginCommand, Alone, NoRequest, At
  <2> QED  BY <1>4, <2>1, FedAlone DEF BeginCommand, flags
<1>5. CASE SetModeOff(r)
  <2>1. Alone(r) /\ req'[r].st = "idle" /\ req[r].st = "idle"
    BY <1>5 DEF SetModeOff, Alone, At
  <2> QED  BY <1>5, <2>1, FedAlone DEF SetModeOff, flags
<1>6. CASE Reconnect(r)
  <2>1. Alone(r) /\ req'[r].st = "clear" /\ req[r].st = "idle"
    BY <1>1, <1>6 DEF Reconnect, Alone, NoRequest, At
  <2> QED  BY <1>6, <2>1, FedAlone DEF Reconnect, flags
<1> QED  BY <1>2, <1>3, <1>4, <1>5, <1>6
         DEF BeginOp, QueryRoute, ParameterRoute, ConfigRoute, MeasureRoute

(* A request ends a stream together with its flag.                          *)
LEMMA RequestFed ==
  ASSUME TypeOK, Staged, Fed, NEW r \in Requests, RequestStep(r)
  PROVE  Staged' /\ Fed'
<1>1. req \in [Requests -> Request] /\ req[r] \in Request /\ wire \in Seq(Field)
  BY DEF TypeOK
<1>2. ASSUME Return(r) PROVE Alone(r) /\ req'[r].st = "idle"
  BY <1>1, <1>2 DEF Return, Alone, NoRequest
<1>3. ASSUME NEW st, Go(r, st) PROVE Alone(r) /\ req'[r].st = st /\ req'[r].op = req[r].op
  BY <1>1, <1>3 DEF Go, Alone, Request
<1>4. CASE StopContinuous(r)
  <2>1. Alone(r) /\ req'[r].st \in {"idle", "send"}
    BY <1>2, <1>3, <1>4 DEF StopContinuous
  <2>2. continuous' = FALSE
    BY <1>4 DEF StopContinuous, Quiet
  <2> QED  BY <2>1, <2>2, StagedAlone DEF Fed
<1>5. CASE SendCommand(r)
  <2>1. Alone(r) /\ req'[r].st \in {"idle", "answer"}
    <3>1. CASE link = "up"
      <4>1. req' = [req EXCEPT ![r].st = "answer", ![r].due = Live]
        BY <1>5, <3>1 DEF SendCommand
      <4> QED  BY <1>1, <4>1 DEF Alone, Request
    <3>2. CASE link # "up"
      BY <1>2, <1>5, <3>2 DEF SendCommand
    <3> QED  BY <3>1, <3>2
  <2>2. UNCHANGED <<flags, reader>> /\ req[r].st = "send"
    BY <1>5 DEF SendCommand, At
  <2> QED  BY <2>1, <2>2, FedAlone DEF flags
<1>6. CASE StartAnswered(r)
  <2>1. Alone(r) /\ req'[r].st = "idle" /\ Launch
    BY <1>2, <1>6 DEF StartAnswered
  <2> QED  BY <2>1, Launched, StagedAlone DEF Fed
<1>7. CASE CommandAnswered(r)
  <2>1. Alone(r) /\ req'[r].st \in {"idle", "send"}
    <3>1. CASE req' = [req EXCEPT ![r].st = "send", ![r].left = @ - 1]
      BY <1>1, <3>1 DEF Alone, Request
    <3> QED  BY <1>2, <1>7, <3>1 DEF CommandAnswered
  <2>2. UNCHANGED <<flags, reader>> /\ req[r].st = "answer"
    BY <1>7 DEF CommandAnswered, At
  <2> QED  BY <2>1, <2>2, FedAlone DEF flags
<1>8. CASE NoAnswer(r)
  <2>1. UNCHANGED <<flags, reader>> /\ req[r].st = "answer" /\ Return(r)
    BY <1>8 DEF NoAnswer, At
  <2> QED  BY <1>2, <2>1, FedAlone DEF flags
<1>9. CASE DetectNothing(r)
  <2>1. UNCHANGED <<gaveUp, reading, reader>> /\ continuous' = FALSE /\ req[r].st = "detect" /\ Return(r)
    BY <1>9 DEF DetectNothing, At
  <2> QED  BY <1>2, <2>1, FedAlone
<1>10. CASE DetectPartial(r)
  <2>1. UNCHANGED <<flags, reader>> /\ req[r].st = "detect" /\ Go(r, "escape")
    BY <1>10 DEF DetectPartial, At
  <2> QED  BY <1>3, <2>1, FedAlone DEF flags
<1>11. CASE DetectEscaped(r)
  <2>1. UNCHANGED <<gaveUp, reading, reader>> /\ continuous' = FALSE /\ req[r].st = "escape" /\ Return(r)
    BY <1>11 DEF DetectEscaped, At
  <2> QED  BY <1>2, <2>1, FedAlone
<1>12. CASE Detect(r)
  <2>1. CASE Detected(wire) # <<>>
    <3>1. PutAll(r, "resume", Detected(wire))
      BY <1>12, <2>1 DEF Detect
    <3> QED  BY <1>1, <3>1, DetectedIs, PutAllFed
  <2>2. CASE Detected(wire) = <<>>
    <3>1. UNCHANGED <<gaveUp, reading, reader>> /\ continuous' = FALSE /\ req[r].st = "detect" /\ Return(r)
      BY <1>12, <2>2 DEF Detect, At
    <3> QED  BY <1>2, <3>1, FedAlone
  <2> QED  BY <2>1, <2>2
<1>13. CASE PutOn(r)
  <2>1. PutAll(r, req[r].op, req[r].items) /\ At(r, "put")
    BY <1>13 DEF PutOn
  <2>2. req[r].op \in {"resume", "reconnect"} /\ req[r].items \in Seq(Measurements)
    BY <1>1, <2>1 DEF Staged, Request
  <2> QED  BY <2>1, <2>2, PutAllFed
<1>14. CASE CheckSilence(r)
  <2>1. UNCHANGED <<gaveUp, continuous, reading, reader>> /\ req[r].st = "clear" /\ Return(r)
    BY <1>14 DEF CheckSilence, At
  <2> QED  BY <1>2, <2>1, FedAlone
<1>15. CASE CheckData(r)
  <2>1. PutAll(r, "reconnect", InTurn(wire, Pieces(wire), AsDistance))
    BY <1>15 DEF CheckData
  <2> QED  BY <1>1, <2>1, AsDistanceIs, PutAllFed
<1>16. CASE Drain(r)
  <2>1. UNCHANGED <<flags, reader>> /\ req[r].st \in {"reply", "idle"}
    BY <1>16 DEF Drain, Polls, At
  <2>2. Alone(r) /\ req'[r].st = "fresh"
    BY <1>1, <1>16 DEF Drain, Alone, NoRequest
  <2> QED  BY <2>1, <2>2, FedAlone DEF flags
<1>17. CASE NoStream(r)
  <2>1. UNCHANGED <<flags, reader>> /\ req[r].st = "reply" /\ Return(r)
    BY <1>17 DEF NoStream, At
  <2> QED  BY <1>2, <2>1, FedAlone DEF flags
<1>18. CASE Fresh(r) \/ NoFresh(r)
  <2>1. UNCHANGED <<flags, reader>> /\ req[r].st = "fresh" /\ Return(r)
    BY <1>18 DEF Fresh, NoFresh, At
  <2> QED  BY <1>2, <2>1, FedAlone DEF flags
<1> QED  BY <1>4, <1>5, <1>6, <1>7, <1>8, <1>9, <1>10, <1>11, <1>12, <1>13, <1>14, <1>15,
            <1>16, <1>17, <1>18 DEF RequestStep

(* Every step leaves a reader to every stream.                              *)
LEMMA NextFed ==
  ASSUME TypeOK, Staged, Fed, [Next]_vars
  PROVE  Staged' /\ Fed'
<1>1. CASE UNCHANGED vars
  BY <1>1 DEF vars, Staged, Fed, At
<1>2. CASE DeviceSends \/ LinkBreaks
  <2>1. UNCHANGED <<flags, reader, req>>
    BY <1>2 DEF DeviceSends, LinkBreaks
  <2> QED  BY <2>1 DEF flags, Staged, Fed, At
<1> QED  BY <1>1, <1>2, ReaderFed, BeginFed, RequestFed DEF Next

-----------------------------------------------------------------------------
(* Sequences of fields put together.                                        *)

(* The lines of a concatenation are those of its parts.                     *)
LEMMA HasConcat ==
  ASSUME NEW s \in Seq(Field), NEW t \in Seq(Field), NEW n
  PROVE  Has(s \o t, n) <=> Has(s, n) \/ Has(t, n)
<1>1. ASSUME Has(s \o t, n) PROVE Has(s, n) \/ Has(t, n)
  BY <1>1, ConcatIs DEF Has
<1>2. ASSUME Has(s, n) PROVE Has(s \o t, n)
  BY <1>2, ConcatIs DEF Has
<1>3. ASSUME Has(t, n) PROVE Has(s \o t, n)
  <2>1. PICK i \in DOMAIN t : t[i].ln = n
    BY <1>3 DEF Has
  <2>2. Len(s) + i \in DOMAIN (s \o t) /\ (s \o t)[Len(s) + i] = t[i]
    BY ConcatIs
  <2> QED  BY <2>1, <2>2 DEF Has
<1> QED  BY <1>1, <1>2, <1>3

(* The parts of a sorted sequence are sorted, and in order.                 *)
LEMMA SortedParts ==
  ASSUME NEW s \in Seq(Field), NEW t \in Seq(Field), Sorted(s \o t)
  PROVE  /\ Sorted(s) /\ Sorted(t)
         /\ \A i \in DOMAIN s, j \in DOMAIN t : s[i].ln <= t[j].ln
<1> DEFINE w == s \o t
<1>1. /\ \A i \in DOMAIN s : i \in DOMAIN w /\ w[i] = s[i] /\ i \in Nat /\ i <= Len(s)
      /\ \A i \in DOMAIN t : Len(s) + i \in DOMAIN w /\ w[Len(s) + i] = t[i] /\ i \in Nat /\ i >= 1
      /\ Len(s) \in Nat
  BY ConcatIs
<1>2. \A i, j \in DOMAIN w : i <= j => w[i].ln <= w[j].ln
  BY DEF Sorted
<1> HIDE DEF w
<1>3. Sorted(s)
  BY <1>1, <1>2 DEF Sorted
<1>4. Sorted(t)
  <2>1. ASSUME NEW i \in DOMAIN t, NEW j \in DOMAIN t, i <= j PROVE t[i].ln <= t[j].ln
    <3>1. Len(s) + i <= Len(s) + j
      BY <1>1, <2>1
    <3> QED  BY <1>1, <1>2, <3>1
  <2> QED  BY <2>1 DEF Sorted
<1>5. ASSUME NEW i \in DOMAIN s, NEW j \in DOMAIN t PROVE s[i].ln <= t[j].ln
  <2>1. i <= Len(s) + j
    BY <1>1
  <2> QED  BY <1>1, <1>2, <2>1
<1> QED  BY <1>3, <1>4, <1>5

(* Sorted parts that are in order make a sorted sequence.                   *)
LEMMA SortedConcat ==
  ASSUME NEW s \in Seq(Field), NEW t \in Seq(Field), Sorted(s), Sorted(t),
         \A i \in DOMAIN s, j \in DOMAIN t : s[i].ln <= t[j].ln
  PROVE  Sorted(s \o t)
<1> DEFINE w == s \o t
<1>1. /\ \A i \in DOMAIN w :
           \/ i \in DOMAIN s /\ w[i] = s[i]
           \/ i > Len(s) /\ i - Len(s) \in DOMAIN t /\ w[i] = t[i - Len(s)]
      /\ Len(s) \in Nat /\ DOMAIN s = 1..Len(s) /\ DOMAIN w \subseteq Nat
  BY ConcatIs
<1> HIDE DEF w
<1>2. ASSUME NEW i \in DOMAIN w, NEW j \in DOMAIN w, i <= j PROVE w[i].ln <= w[j].ln
  <2>1. i \in Nat /\ j \in Nat
    BY <1>1
  <2>2. CASE j \in DOMAIN s /\ w[j] = s[j]
    <3>1. i \in DOMAIN s /\ w[i] = s[i]
      BY <1>1, <1>2, <2>1, <2>2
    <3> QED  BY <1>2, <2>2, <3>1 DEF Sorted
  <2>3. CASE j > Len(s) /\ j - Len(s) \in DOMAIN t /\ w[j] = t[j - Len(s)]
    <3>1. CASE i \in DOMAIN s /\ w[i] = s[i]
      BY <2>3, <3>1
    <3>2. CASE i > Len(s) /\ i - Len(s) \in DOMAIN t /\ w[i] = t[i - Len(s)]
      <4>1. i - Len(s) <= j - Len(s)
        BY <1>1, <1>2, <2>1
      <4> QED  BY <2>3, <3>2, <4>1 DEF Sorted
    <3> QED  BY <1>1, <3>1, <3>2
  <2> QED  BY <1>1, <2>2, <2>3
<1> QED  BY <1>2 DEF Sorted, w

(* Fields of other lines before it leave a line in one piece.               *)
LEMMA PrependLine ==
  ASSUME NEW s \in Seq(Field), NEW t \in Seq(Field), NEW n, NEW d,
         InPlace(t, n, d), ~Has(s, n)
  PROVE  InPlace(s \o t, n, d)
<1>1. PICK mode \in Modes : \E p \in 1..Len(LineOf(mode)), a \in 1..Len(t) :
        /\ Run(t, n, a, p, mode)
        /\ n < d.ln => p = Len(LineOf(mode))
        /\ n = d.ln => p = d.pos /\ mode = d.mode
  BY DEF InPlace
<1>2. PICK p \in 1..Len(LineOf(mode)), a \in 1..Len(t) :
        /\ Run(t, n, a, p, mode)
        /\ n < d.ln => p = Len(LineOf(mode))
        /\ n = d.ln => p = d.pos /\ mode = d.mode
  BY <1>1
<1>3. /\ \A i \in DOMAIN t : t[i].ln = n <=> i \in a..a + p - 1
      /\ \A q \in 1..p : t[a + q - 1].f = LineOf(mode)[q]
      /\ a + p - 1 <= Len(t)
  BY <1>2 DEF Run
<1> DEFINE w == s \o t
           m == Len(s)
<1>n. /\ p \in Nat /\ p >= 1 /\ a \in Nat /\ a >= 1 /\ m \in Nat /\ DOMAIN s = 1..m
      /\ Len(w) = m + Len(t) /\ Len(t) \in Nat /\ DOMAIN t = 1..Len(t)
  BY LineOfIs, ConcatIs
<1>4. /\ \A i \in DOMAIN w :
           \/ i \in DOMAIN s /\ w[i] = s[i]
           \/ i > m /\ i - m \in DOMAIN t /\ w[i] = t[i - m]
      /\ \A i \in DOMAIN t : m + i \in DOMAIN w /\ w[m + i] = t[i]
  BY ConcatIs
<1>w. DOMAIN w \subseteq Nat
  <2>1. w \in Seq(Field)
    BY ConcatIs
  <2> HIDE DEF w
  <2> QED  BY <2>1
<1> HIDE DEF w, m
<1>5. m + a + p - 1 <= Len(w) /\ m + a \in 1..Len(w) /\ m + a + p - 1 \in Nat
  BY <1>3, <1>n
<1>6. Run(w, n, m + a, p, mode)
  <2>1. ASSUME NEW i \in DOMAIN w PROVE w[i].ln = n <=> i \in m + a..m + a + p - 1
    <3>0. i \in Nat
      BY <1>w
    <3>1. CASE i \in DOMAIN s /\ w[i] = s[i]
      <4>1. w[i].ln # n
        BY <3>1 DEF Has
      <4>2. ~(i \in m + a..m + a + p - 1)
        BY <1>n, <3>1
      <4> QED  BY <4>1, <4>2
    <3>2. CASE i > m /\ i - m \in DOMAIN t /\ w[i] = t[i - m]
      <4>1. i - m \in a..a + p - 1 <=> i \in m + a..m + a + p - 1
        BY <1>n, <3>0, <3>2
      <4> QED  BY <1>3, <3>2, <4>1
    <3> QED  BY <1>4, <3>1, <3>2
  <2>2. ASSUME NEW q \in 1..p PROVE w[m + a + q - 1].f = LineOf(mode)[q]
    <3>1. a + q - 1 \in DOMAIN t /\ m + (a + q - 1) = m + a + q - 1
      BY <1>3, <1>n
    <3> QED  BY <1>3, <1>4, <3>1
  <2> QED  BY <1>5, <2>1, <2>2 DEF Run
<1> QED  BY <1>2, <1>5, <1>6 DEF InPlace, w

(* Where a line lies depends on the device only as far as it has sent it.   *)
LEMMA SameLine ==
  ASSUME NEW s, NEW n \in Nat, NEW d \in Device, NEW e \in Device, InPlace(s, n, d),
         \/ n < d.ln /\ n < e.ln
         \/ e.ln = d.ln /\ e.pos = d.pos /\ e.mode = d.mode
  PROVE  InPlace(s, n, e)
<1>1. d.ln \in Nat /\ e.ln \in Nat
  BY DEF Device
<1>2. CASE n < d.ln /\ n < e.ln
  <2>1. n # e.ln /\ n # d.ln
    BY <1>1, <1>2
  <2> QED  BY <1>2, <2>1 DEF InPlace
<1>3. CASE e.ln = d.ln /\ e.pos = d.pos /\ e.mode = d.mode
  BY <1>3 DEF InPlace
<1> QED  BY <1>2, <1>3

-----------------------------------------------------------------------------
(* The bytes between the device and the readers.                            *)

(* What reader k would read now.                                            *)
View(k) == reader[k].buffer \o wire
Holds(k, n) == Has(reader[k].buffer, n)

(* The device d has sent all of s.                                          *)
SentBy(s, d) ==
  \A i \in DOMAIN s : /\ 1 <= s[i].ln /\ s[i].ln <= d.ln
                      /\ d.pos = 0 => s[i].ln < d.ln

(* A reader keeps no complete line, and what it keeps was sent before what  *)
(* is on the wire.                                                          *)
Buffers ==
  \A k \in Readers :
    /\ reader[k].st \in {"none", "new"} => reader[k].buffer = <<>>
    /\ Ends(reader[k].buffer) = {}
    /\ Sorted(View(k))

(* Everything that is under way was sent, in its order.                     *)
Behind ==
  /\ Sorted(wire) /\ SentBy(wire, device)
  /\ \A k \in Readers : SentBy(reader[k].buffer, device)
  /\ device.pos < Len(LineOf(device.mode))

(* A line that nobody took a part of is either held by a single reader,     *)
(* which would read it as it was sent, or lies on the wire as it was sent;  *)
(* the line the device is at has not been lost.                             *)
Placed ==
  \A n \in (1..device.ln) \ shared :
    /\ \A k \in Readers : Holds(k, n) =>
         InPlace(View(k), n, device) /\ \A j \in Readers : Holds(j, n) => j = k
    /\ Has(wire, n) /\ (\A k \in Readers : ~Holds(k, n)) => InPlace(wire, n, device)
    /\ n = device.ln /\ device.pos > 0 => Has(wire, n) \/ \E k \in Readers : Holds(k, n)

Stream == Buffers /\ Behind /\ Placed

(* The types of what a reader has before it.                                *)
LEMMA ViewType ==
  ASSUME TypeOK, NEW k \in Readers
  PROVE  /\ reader[k].buffer \in Seq(Field) /\ wire \in Seq(Field) /\ View(k) \in Seq(Field)
         /\ device \in Device /\ device.ln \in Nat \ {0} /\ device.pos \in Nat /\ device.mode \in Modes
BY ConcatIs DEF TypeOK, Reader, View, Device

(* A line that has been sent is not after the one the device is at.         *)
LEMMA SentIs ==
  ASSUME NEW s \in Seq(Field), NEW d \in Device, SentBy(s, d), NEW n, Has(s, n)
  PROVE  n \in 1..d.ln /\ (d.pos = 0 => n < d.ln)
<1>1. PICK i \in DOMAIN s : s[i].ln = n
  BY DEF Has
<1>2. n \in Nat /\ d.ln \in Nat
  BY <1>1, FieldOf DEF Device
<1>3. 1 <= n /\ n <= d.ln /\ (d.pos = 0 => n < d.ln)
  <2>1. 1 <= s[i].ln /\ s[i].ln <= d.ln /\ (d.pos = 0 => s[i].ln < d.ln)
    BY Zenon DEF SentBy
  <2> QED  BY <1>1, <2>1, Zenon
<1> QED  BY <1>2, <1>3

(* All that a reader has before it has been sent.                           *)
LEMMA ViewSent ==
  ASSUME TypeOK, Stream, NEW k \in Readers
  PROVE  SentBy(View(k), device)
<1>1. /\ reader[k].buffer \in Seq(Field) /\ wire \in Seq(Field)
      /\ SentBy(reader[k].buffer, device) /\ SentBy(wire, device)
  BY ViewType DEF Stream, Behind
<1>2. ASSUME NEW i \in DOMAIN View(k)
      PROVE  \/ \E j \in DOMAIN reader[k].buffer : View(k)[i] = reader[k].buffer[j]
             \/ \E j \in DOMAIN wire : View(k)[i] = wire[j]
  BY SMTT(20), <1>1, ConcatIs DEF View
<1> QED  BY <1>1, <1>2 DEF SentBy

(* A private line that a reader has before it lies there as it was sent.    *)
LEMMA InView ==
  ASSUME TypeOK, Stream, NEW k \in Readers, NEW n \in (1..device.ln) \ shared, Has(View(k), n),
         \A j \in Readers : Holds(j, n) => j = k
  PROVE  InPlace(View(k), n, device)
<1>1. CASE Holds(k, n)
  BY <1>1 DEF Stream, Placed
<1>2. CASE ~Holds(k, n)
  <2>1. Has(wire, n)
    BY <1>2, ViewType, HasConcat DEF View, Holds
  <2>2. InPlace(wire, n, device)
    BY <1>2, <2>1 DEF Stream, Placed
  <2> QED  BY <1>2, <2>2, ViewType, PrependLine DEF View, Holds
<1> QED  BY <1>1, <1>2

(* A private line that is held and not on the wire is the one the device is *)
(* at.                                                                      *)
LEMMA HeldIsOpen ==
  ASSUME TypeOK, Stream, NEW k \in Readers, NEW n \in (1..device.ln) \ shared,
         Holds(k, n), ~Has(wire, n)
  PROVE  n = device.ln
<1>1. InPlace(reader[k].buffer, n, device)
  <2>1. InPlace(View(k), n, device)
    BY DEF Stream, Placed
  <2> QED  BY <2>1, ViewType, SplitLine DEF View
<1>2. n \in Nat /\ n <= device.ln /\ device.ln \in Nat
  BY ViewType
<1>3. ~(n < device.ln)
  <2>1. SUFFICES ASSUME n < device.ln PROVE FALSE
    OBVIOUS
  <2>2. \E e \in Ends(reader[k].buffer) : TRUE
    BY <1>1, <1>2, <2>1, ViewType, ClosedLine
  <2> QED  BY <2>2 DEF Stream, Buffers
<1> QED  BY <1>2, <1>3

-----------------------------------------------------------------------------
(* The device sends the next fields of a line.                              *)

(* What has been sent stays sent.                                           *)
LEMMA SentByGrows ==
  ASSUME NEW s \in Seq(Field), NEW d \in Device, NEW e \in Device, SentBy(s, d),
         \/ d.ln < e.ln
         \/ e.ln = d.ln /\ (e.pos = 0 => d.pos = 0)
  PROVE  SentBy(s, e)
<1>1. d.ln \in Nat /\ e.ln \in Nat
  BY DEF Device
<1>2. ASSUME NEW i \in DOMAIN s
      PROVE  1 <= s[i].ln /\ s[i].ln <= e.ln /\ (e.pos = 0 => s[i].ln < e.ln)
  <2>1. s[i].ln \in Nat
    BY FieldOf
  <2>2. 1 <= s[i].ln /\ s[i].ln <= d.ln /\ (d.pos = 0 => s[i].ln < d.ln)
    BY DEF SentBy
  <2> QED  BY <1>1, <2>1, <2>2
<1> QED  BY <1>2 DEF SentBy

(* A line that s holds as the device has sent it, or not yet at all, is in  *)
(* s as the device has sent it after its next fields have arrived.          *)
LEMMA SentOn ==
  ASSUME NEW s \in Seq(Field), Sorted(s), NEW d \in Device, SentBy(s, d),
         d.pos < Len(LineOf(d.mode)),
         NEW c \in 1..Len(LineOf(d.mode)), d.pos < c,
         NEW e \in Device,
         \/ e.ln = d.ln /\ e.pos = c /\ e.mode = d.mode
         \/ e.ln = d.ln + 1 /\ c = Len(LineOf(d.mode)),
         InPlace(s, d.ln, d) \/ d.pos = 0
  PROVE  InPlace(s \o NextFields(d, c), d.ln, e)
<1>1. d.pos \in Nat /\ d.mode \in Modes /\ d.ln \in Nat /\ Len(s) \in Nat /\ DOMAIN s = 1..Len(s)
  BY DEF Device
<1>2. CASE d.pos = 0
  <2>1. ASSUME NEW i \in DOMAIN s PROVE s[i].ln # d.ln /\ ~(i \in Len(s) - d.pos + 1..Len(s))
    <3>1. s[i].ln < d.ln /\ s[i].ln \in Nat
      BY <1>2, FieldOf DEF SentBy
    <3>2. i \in 1..Len(s)
      BY <1>1
    <3> QED  BY <1>1, <1>2, <3>1, <3>2
  <2>2. \A q \in 1..d.pos : s[Len(s) - d.pos + q].f = LineOf(d.mode)[q]
    BY <1>2
  <2>3. d.pos <= Len(s)
    BY <1>1, <1>2
  <2>4. \A i \in DOMAIN s : s[i].ln = d.ln <=> i \in Len(s) - d.pos + 1..Len(s)
    BY <2>1
  <2> QED  BY <2>2, <2>3, <2>4, ExtendLine
<1>3. CASE InPlace(s, d.ln, d)
  <2>1. \A i \in DOMAIN s : s[i].ln <= d.ln
    BY DEF SentBy
  <2>2. /\ d.pos <= Len(s)
        /\ \A i \in DOMAIN s : s[i].ln = d.ln <=> i \in Len(s) - d.pos + 1..Len(s)
        /\ \A q \in 1..d.pos : s[Len(s) - d.pos + q].f = LineOf(d.mode)[q]
    BY <1>3, <2>1, OpenLine
  <2> QED  BY <2>2, ExtendLine
<1> QED  BY <1>2, <1>3

(* The step of the device.                                                  *)
Sends(c) ==
  /\ c \in 1..Len(LineOf(device.mode)) /\ device.pos < c
  /\ wire' = wire \o NextFields(device, c)
  /\ \/ device'.ln = device.ln /\ device'.pos = c /\ device'.mode = device.mode
        /\ c < Len(LineOf(device.mode))
     \/ device'.ln = device.ln + 1 /\ device'.pos = 0 /\ c = Len(LineOf(device.mode))
  /\ UNCHANGED <<reader, shared>>

(* DeviceSends sends the fields up to a cut or to the line end.             *)
LEMMA SendsDoes ==
  ASSUME TypeOK, DeviceSends
  PROVE  \E c \in Nat : Sends(c)
<1>1. device \in Device /\ device.mode \in Modes /\ device.pos \in Nat
  BY DEF TypeOK, Device
<1>2. PICK c \in {c \in Cuts \cup {Len(LineOf(device.mode))} :
                   device.pos < c /\ c <= Len(LineOf(device.mode))} :
        /\ wire' = wire \o NextFields(device, c)
        /\ device' = IF c = Len(LineOf(device.mode))
                     THEN [device EXCEPT !.ln = @ + 1, !.pos = 0]
                     ELSE [device EXCEPT !.pos = c]
  BY DEF DeviceSends, NextFields
<1>3. c \in Nat /\ c \in 1..Len(LineOf(device.mode)) /\ device.pos < c
  BY <1>1, <1>2, LineOfIs, ReaderAssumption
<1>4. UNCHANGED <<reader, shared>>
  BY DEF DeviceSends
<1>5. CASE c = Len(LineOf(device.mode))
  <2>1. device'.ln = device.ln + 1 /\ device'.pos = 0
    BY <1>1, <1>2, <1>5 DEF Device
  <2> QED  BY <1>2, <1>3, <1>4, <1>5, <2>1 DEF Sends
<1>6. CASE c # Len(LineOf(device.mode))
  <2>1. device'.ln = device.ln /\ device'.pos = c /\ device'.mode = device.mode
    BY <1>1, <1>2, <1>6 DEF Device
  <2>2. c < Len(LineOf(device.mode))
    BY <1>1, <1>3, <1>6, LineOfIs
  <2> QED  BY <1>2, <1>3, <1>4, <2>1, <2>2 DEF Sends
<1> QED  BY <1>5, <1>6

(* Sending keeps every private line in one piece.                           *)
LEMMA SendsStream ==
  ASSUME TypeOK, TypeOK', Stream, DeviceSends
  PROVE  Stream'
<1>1. PICK c \in Nat : Sends(c)
  BY SendsDoes
<1> DEFINE t == NextFields(device, c)
<1>2. /\ wire \in Seq(Field) /\ device \in Device /\ device.ln \in Nat /\ device.pos \in Nat
      /\ device.mode \in Modes /\ device' \in Device /\ device'.mode \in Modes /\ device'.pos \in Nat
      /\ \A k \in Readers : reader[k].buffer \in Seq(Field) /\ View(k) \in Seq(Field)
  <2>1. wire \in Seq(Field) /\ device \in Device /\ device' \in Device
    BY DEF TypeOK
  <2> QED  BY <2>1, ViewType DEF Device
<1>3. /\ c \in 1..Len(LineOf(device.mode)) /\ device.pos < c
      /\ wire' = wire \o t /\ reader' = reader /\ shared' = shared
      /\ \/ device'.ln = device.ln /\ device'.pos = c /\ device'.mode = device.mode
         \/ device'.ln = device.ln + 1 /\ c = Len(LineOf(device.mode))
      /\ device'.pos # 0 => device'.ln = device.ln
      /\ device'.pos = 0 => device'.ln = device.ln + 1
      /\ device'.pos < Len(LineOf(device'.mode))
  BY <1>1, <1>2, LineOfIs DEF Sends
<1>4. /\ t \in Seq(Field) /\ \A i \in DOMAIN t : t[i].ln = device.ln
      /\ \A n : Has(t, n) <=> n = device.ln
  <2>1. /\ t \in Seq(Field) /\ Len(t) = c - device.pos
        /\ \A i \in 1..c - device.pos : t[i].ln = device.ln
        /\ \A n : Has(t, n) <=> n = device.ln
    BY <1>2, <1>3, NextFieldsIs
  <2> HIDE DEF t
  <2>2. DOMAIN t = 1..c - device.pos
    BY <2>1
  <2> QED  BY <2>1, <2>2
<1> HIDE DEF t
<1>5. \A k \in Readers : View(k)' = View(k) \o t
  <2>1. ASSUME NEW k \in Readers PROVE reader[k].buffer \o (wire \o t) = (reader[k].buffer \o wire) \o t
    <3>1. reader[k].buffer \in Seq(Field) /\ wire \in Seq(Field) /\ t \in Seq(Field)
      BY <1>2, <1>4
    <3>2. \A u, v, w \in Seq(Field) : (u \o v) \o w = u \o (v \o w)
      BY ConcatAssociative
    <3> QED  BY <3>1, <3>2, Zenon
  <2> QED  BY <1>3, <2>1 DEF View
<1>6. ASSUME NEW s \in Seq(Field), SentBy(s, device)
      PROVE  SentBy(s, device') /\ (Sorted(s) => Sorted(s \o t))
  <2>1. SentBy(s, device')
    BY <1>2, <1>3, <1>6, SentByGrows
  <2>2. Sorted(t)
    BY <1>2, <1>4 DEF Sorted
  <2>3. \A i \in DOMAIN s, j \in DOMAIN t : s[i].ln <= t[j].ln
    BY <1>4, <1>6 DEF SentBy
  <2> QED  BY <1>4, <2>1, <2>2, <2>3, SortedConcat
<1>7. Buffers'
  <2>1. \A k \in Readers : Sorted(View(k)')
    BY <1>2, <1>5, <1>6, ViewSent DEF Stream, Buffers
  <2> QED  BY <1>3, <2>1 DEF Stream, Buffers
<1>8. Behind'
  <2>1. Sorted(wire') /\ SentBy(wire, device') /\ \A k \in Readers : SentBy(reader[k].buffer, device')
    BY <1>2, <1>3, <1>6 DEF Stream, Behind
  <2>2. SentBy(wire \o t, device')
    <3>1. SentBy(t, device')
      <4>1. device.ln >= 1 /\ device'.ln \in Nat /\ (device'.pos = 0 => device.ln < device'.ln)
            /\ device.ln <= device'.ln
        BY <1>2, <1>3 DEF Device
      <4> QED  BY <1>4, <4>1 DEF SentBy
    <3> QED  BY <1>2, <1>4, <2>1, <3>1, ConcatIs DEF SentBy
  <2> QED  BY <1>3, <2>1, <2>2 DEF Behind
<1>9. ASSUME NEW n \in (1..device'.ln) \ shared
      PROVE  /\ \A k \in Readers : Holds(k, n) => InPlace(View(k) \o t, n, device')
             /\ Has(wire \o t, n) /\ (\A k \in Readers : ~Holds(k, n)) => InPlace(wire \o t, n, device')
  <2>n. n \in Nat /\ Sorted(wire) /\ SentBy(wire, device) /\ device.pos < Len(LineOf(device.mode))
    BY DEF Stream, Behind
  <2>1. CASE n < device.ln
    <3>1. n \in (1..device.ln) \ shared /\ ~Has(t, n) /\ n < device'.ln
      BY <1>2, <1>3, <1>4, <2>1
    <3>2. ASSUME NEW k \in Readers, Holds(k, n) PROVE InPlace(View(k) \o t, n, device')
      <4>1. InPlace(View(k), n, device)
        BY <3>1, <3>2 DEF Stream, Placed
      <4>2. InPlace(View(k) \o t, n, device)
        BY <1>2, <1>4, <3>1, <4>1, GrowLine
      <4> QED  BY <1>2, <2>n, <2>1, <3>1, <4>2, SameLine
    <3>3. ASSUME Has(wire \o t, n), \A k \in Readers : ~Holds(k, n)
          PROVE  InPlace(wire \o t, n, device')
      <4>1. Has(wire, n)
        BY <1>2, <1>4, <3>1, <3>3, HasConcat
      <4>2. InPlace(wire, n, device)
        BY <3>1, <3>3, <4>1 DEF Stream, Placed
      <4>3. InPlace(wire \o t, n, device)
        BY <1>2, <1>4, <3>1, <4>2, GrowLine
      <4> QED  BY <1>2, <2>n, <2>1, <3>1, <4>3, SameLine
    <3> QED  BY <3>2, <3>3
  <2>2. CASE n = device.ln
    <3>1. n \in (1..device.ln) \ shared
      BY <1>2, <2>2
    <3>2. ASSUME NEW k \in Readers, Holds(k, n) PROVE InPlace(View(k) \o t, n, device')
      <4>1. InPlace(View(k), device.ln, device)
        BY <2>2, <3>1, <3>2 DEF Stream, Placed
      <4>2. Sorted(View(k)) /\ SentBy(View(k), device)
        BY ViewSent DEF Stream, Buffers
      <4> QED  BY <1>2, <1>3, <2>n, <2>2, <4>1, <4>2, SentOn DEF t
    <3>3. ASSUME \A k \in Readers : ~Holds(k, n) PROVE InPlace(wire \o t, n, device')
      <4>1. device.pos = 0 \/ InPlace(wire, device.ln, device)
        <5>1. device.pos > 0 => Has(wire, n)
          BY <2>2, <3>1, <3>3 DEF Stream, Placed
        <5>2. Has(wire, n) => InPlace(wire, n, device)
          BY <3>1, <3>3 DEF Stream, Placed
        <5> QED  BY <1>2, <2>2, <5>1, <5>2
      <4> QED  BY <1>2, <1>3, <2>n, <2>2, <4>1, SentOn DEF t
    <3> QED  BY <3>2, <3>3
  <2>3. CASE n > device.ln
    <3>1. \A s \in Seq(Field) : SentBy(s, device) => ~Has(s, n)
      BY <1>2, <2>3, <2>n, SentIs
    <3>2. ~Has(wire \o t, n)
      <4>1. n # device.ln
        BY <1>2, <2>n, <2>3
      <4> QED  BY <1>2, <1>4, <2>n, <3>1, <4>1, HasConcat
    <3>3. \A k \in Readers : ~Holds(k, n)
      BY <1>2, <3>1 DEF Stream, Behind, Holds
    <3> QED  BY <3>2, <3>3
  <2> QED  BY <1>2, <2>n, <2>1, <2>2, <2>3
<1>10. Placed'
  <2>1. ASSUME NEW n \in (1..device'.ln) \ shared
        PROVE  /\ \A k \in Readers : Holds(k, n) => \A j \in Readers : Holds(j, n) => j = k
               /\ n = device'.ln /\ device'.pos > 0 => Has(wire \o t, n)
    <3>1. n \in (1..device.ln) \ shared \/ n > device.ln
      BY <1>2, <1>3
    <3>2. \A k \in Readers : Holds(k, n) => n \in 1..device.ln
      BY <1>2, SentIs DEF Stream, Behind, Holds
    <3>3. n = device'.ln /\ device'.pos > 0 => Has(wire \o t, n)
      BY <1>2, <1>3, <1>4, HasConcat
    <3> QED  BY <3>2, <3>3 DEF Stream, Placed
  <2>2. \A k \in Readers : \A n : Holds(k, n)' <=> Holds(k, n)
    BY <1>3 DEF Holds
  <2>3. ASSUME NEW n \in (1..device'.ln) \ shared
        PROVE  /\ \A k \in Readers : Holds(k, n)' =>
                    InPlace(View(k)', n, device') /\ \A j \in Readers : Holds(j, n)' => j = k
               /\ Has(wire', n) /\ (\A k \in Readers : ~Holds(k, n)') => InPlace(wire', n, device')
               /\ n = device'.ln /\ device'.pos > 0 => Has(wire', n)
    <3>1. /\ \A k \in Readers : Holds(k, n)' => InPlace(View(k)', n, device')
          /\ Has(wire', n) /\ (\A k \in Readers : ~Holds(k, n)') => InPlace(wire', n, device')
      BY <1>3, <1>5, <1>9, <2>2, Zenon
    <3>2. \A k \in Readers : Holds(k, n)' => \A j \in Readers : Holds(j, n)' => j = k
      BY <2>1, <2>2, Zenon
    <3>3. n = device'.ln /\ device'.pos > 0 => Has(wire', n)
      BY <1>3, <2>1, Zenon
    <3> QED  BY <3>1, <3>2, <3>3, Zenon
  <2> QED  BY <1>3, <2>3 DEF Placed
<1> QED  BY <1>7, <1>8, <1>10 DEF Stream

-----------------------------------------------------------------------------
(* Somebody else takes bytes, or drops a reader that holds some.            *)

(* A buffer or the wire is emptied only when its lines are shared from now  *)
(* on, and a new line begins only where the one before is complete or       *)
(* shared.                                                                  *)
Lossy ==
  /\ shared \subseteq shared'
  /\ \A k \in Readers :
       \/ /\ reader'[k].buffer = reader[k].buffer
          /\ reader'[k].st \in {reader[k].st, "loop"}
       \/ /\ reader'[k].buffer = <<>>
          /\ \A n : Holds(k, n) => n \in shared'
  /\ \/ wire' = wire
     \/ wire' = <<>> /\ \A n : Has(wire, n) => n \in shared'
  /\ \/ device'.ln = device.ln /\ device'.pos = device.pos /\ device'.mode = device.mode
     \/ device'.ln = device.ln /\ device'.pos = 0 /\ device.pos = 0
     \/ device'.ln = device.ln + 1 /\ device'.pos = 0 /\ device.pos # 0 /\ device.ln \in shared'

(* A step that loses bytes loses no part of a private line.                 *)
LEMMA LossyStream ==
  ASSUME TypeOK, TypeOK', Stream, Lossy
  PROVE  Stream'
<1>1. /\ wire \in Seq(Field) /\ device \in Device /\ device' \in Device
      /\ device.ln \in Nat \ {0} /\ device.pos \in Nat /\ device'.pos \in Nat
      /\ device'.mode \in Modes /\ device'.ln \in Nat
      /\ \A k \in Readers : reader[k].buffer \in Seq(Field) /\ View(k) \in Seq(Field)
  <2>1. wire \in Seq(Field) /\ device \in Device /\ device' \in Device
    BY DEF TypeOK
  <2> QED  BY <2>1, ViewType DEF Device
<1>2. /\ \A n : ~Has(<<>>, n)
      /\ Ends(<<>>) = {} /\ Sorted(<<>>) /\ \A d : SentBy(<<>>, d)
  BY DEF Has, Ends, Sorted, SentBy
<1>3. \A k \in Readers : /\ reader'[k].buffer \in {reader[k].buffer, <<>>}
                         /\ \A n : Holds(k, n)' => Holds(k, n)
                         /\ \A n : Holds(k, n) /\ n \notin shared' => Holds(k, n)'
                         /\ \A n : Holds(k, n)' => reader'[k].buffer = reader[k].buffer
  BY <1>2 DEF Lossy, Holds
<1>4. /\ wire' \in {wire, <<>>}
      /\ \A n : Has(wire', n) => Has(wire, n) /\ wire' = wire
      /\ \A n : Has(wire, n) /\ n \notin shared' => Has(wire', n) /\ wire' = wire
  BY <1>2 DEF Lossy
<1>5. ASSUME NEW k \in Readers
      PROVE  /\ Sorted(View(k)')
             /\ reader'[k].st \in {"none", "new"} => reader'[k].buffer = <<>>
             /\ Ends(reader'[k].buffer) = {}
  <2>1. Sorted(View(k)) /\ Sorted(reader[k].buffer) /\ Sorted(wire)
    BY <1>1, SortedParts DEF Stream, Buffers, View
  <2>2. Sorted(View(k)')
    <3>0. View(k)' = reader'[k].buffer \o wire'
      BY DEF View
    <3>1. CASE reader'[k].buffer = reader[k].buffer /\ wire' = wire
      BY <2>1, <3>0, <3>1 DEF View
    <3>2. CASE reader'[k].buffer = <<>> /\ wire' = wire
      <4>1. <<>> \o wire = wire
        BY <1>1
      <4> QED  BY <2>1, <3>0, <3>2, <4>1
    <3>3. CASE reader'[k].buffer = reader[k].buffer /\ wire' = <<>>
      <4>1. reader[k].buffer \o <<>> = reader[k].buffer
        BY <1>1
      <4> QED  BY <2>1, <3>0, <3>3, <4>1
    <3>4. CASE reader'[k].buffer = <<>> /\ wire' = <<>>
      <4>1. View(k)' = <<>>
        BY <3>0, <3>4
      <4> QED  BY <1>2, <4>1
    <3> QED  BY <1>3, <1>4, <3>1, <3>2, <3>3, <3>4
  <2>3. Ends(reader'[k].buffer) = {}
    BY <1>2, <1>3 DEF Stream, Buffers
  <2>4. reader'[k].st \in {"none", "new"} => reader'[k].buffer = <<>>
    BY DEF Lossy, Stream, Buffers
  <2> QED  BY <2>2, <2>3, <2>4
<1>6. Buffers'
  BY <1>5 DEF Buffers
<1>7. Behind'
  <2>1. \A s \in Seq(Field) : SentBy(s, device) => SentBy(s, device')
    <3>1. device.ln < device'.ln \/ (device'.ln = device.ln /\ (device'.pos = 0 => device.pos = 0))
      BY <1>1 DEF Lossy
    <3> QED  BY <1>1, <3>1, SentByGrows
  <2>2. Sorted(wire') /\ SentBy(wire', device')
    BY <1>1, <1>2, <1>4, <2>1 DEF Stream, Behind
  <2>3. \A k \in Readers : SentBy(reader'[k].buffer, device')
    BY <1>1, <1>2, <1>3, <2>1 DEF Stream, Behind
  <2>4. device'.pos < Len(LineOf(device'.mode))
    <3>1. 0 < Len(LineOf(device'.mode))
      BY <1>1, LineOfIs
    <3> QED  BY <3>1 DEF Lossy, Stream, Behind
  <2> QED  BY <2>2, <2>3, <2>4 DEF Behind
<1>8. ASSUME NEW n \in (1..device'.ln) \ shared'
      PROVE  /\ \A k \in Readers : Holds(k, n)' =>
                  InPlace(View(k)', n, device') /\ \A j \in Readers : Holds(j, n)' => j = k
             /\ Has(wire', n) /\ (\A k \in Readers : ~Holds(k, n)') => InPlace(wire', n, device')
             /\ n = device'.ln /\ device'.pos > 0 => Has(wire', n) \/ \E k \in Readers : Holds(k, n)'
  <2>1. n \in Nat /\ n >= 1 /\ n \notin shared
    BY DEF Lossy
  <2>2. \A s \in Seq(Field) : Has(s, n) /\ SentBy(s, device) =>
          n \in (1..device.ln) \ shared /\ (device.pos = 0 => n < device.ln)
    BY <1>1, <2>1, SentIs
  <2>3. ASSUME NEW s \in Seq(Field), InPlace(s, n, device), n \in 1..device.ln,
               device.pos = 0 => n < device.ln
        PROVE  InPlace(s, n, device')
    <3>1. \/ n < device.ln /\ n < device'.ln
          \/ device'.ln = device.ln /\ device'.pos = device.pos /\ device'.mode = device.mode
      BY <1>1, <2>1, <2>3 DEF Lossy
    <3> QED  BY <1>1, <2>1, <2>3, <3>1, SameLine
  <2>4. ASSUME NEW k \in Readers, Holds(k, n)'
        PROVE  InPlace(View(k)', n, device') /\ \A j \in Readers : Holds(j, n)' => j = k
    <3>1. Holds(k, n) /\ reader'[k].buffer = reader[k].buffer
      BY <1>3, <2>4
    <3>2. n \in (1..device.ln) \ shared /\ (device.pos = 0 => n < device.ln)
      BY <1>1, <2>2, <3>1 DEF Stream, Behind, Holds
    <3>3. InPlace(View(k), n, device) /\ \A j \in Readers : Holds(j, n) => j = k
      BY <3>1, <3>2 DEF Stream, Placed
    <3>4. InPlace(View(k)', n, device)
      <4>1. CASE wire' = wire
        BY <3>1, <3>3, <4>1 DEF View
      <4>2. CASE wire' # wire
        <5>1. wire' = <<>> /\ ~Has(wire, n)
          BY <1>4, <4>2
        <5>2. View(k)' = reader[k].buffer
          <6>1. reader[k].buffer \o <<>> = reader[k].buffer
            BY <1>1
          <6> QED  BY <3>1, <5>1, <6>1 DEF View
        <5>3. InPlace(reader[k].buffer, n, device)
          BY <1>1, <3>3, <5>1, SplitLine DEF View
        <5> QED  BY <5>2, <5>3
      <4> QED  BY <4>1, <4>2
    <3>5. View(k)' \in Seq(Field)
      <4>1. reader'[k].buffer \in Seq(Field) /\ wire' \in Seq(Field)
        BY DEF TypeOK, Reader
      <4> QED  BY <4>1, ConcatIs DEF View
    <3> QED  BY <1>3, <2>3, <3>2, <3>3, <3>4, <3>5
  <2>5. ASSUME Has(wire', n), \A k \in Readers : ~Holds(k, n)' PROVE InPlace(wire', n, device')
    <3>1. Has(wire, n) /\ wire' = wire /\ \A k \in Readers : ~Holds(k, n)
      BY <1>3, <1>4, <2>5
    <3>2. n \in (1..device.ln) \ shared /\ (device.pos = 0 => n < device.ln)
      BY <1>1, <2>2, <3>1 DEF Stream, Behind
    <3>3. InPlace(wire, n, device)
      BY <3>1, <3>2 DEF Stream, Placed
    <3> QED  BY <1>1, <2>3, <3>1, <3>2, <3>3
  <2>6. ASSUME n = device'.ln, device'.pos > 0
        PROVE  Has(wire', n) \/ \E k \in Readers : Holds(k, n)'
    <3>1. device'.pos = device.pos /\ device'.ln = device.ln
      BY <1>1, <2>6 DEF Lossy
    <3>2. Has(wire, n) \/ \E k \in Readers : Holds(k, n)
      BY <1>1, <2>1, <2>6, <3>1 DEF Stream, Placed
    <3> QED  BY <1>3, <1>4, <3>2
  <2> QED  BY <2>4, <2>5, <2>6
<1>9. Placed'
  BY <1>8 DEF Placed
<1> QED  BY <1>6, <1>7, <1>9 DEF Stream

-----------------------------------------------------------------------------
(* A reader takes what is on the wire.                                      *)

(* Two readers are more than one.                                           *)
LEMMA TwoLive ==
  ASSUME NEW j \in Live, NEW k \in Live, j # k
  PROVE  Cardinality(Live) > 1
<1>1. IsFiniteSet(Live)
  BY ReaderAssumption, FS_Subset DEF Live
<1>2. {j, k} \in SUBSET Live /\ IsFiniteSet({k}) /\ Cardinality({k}) = 1
  BY FS_Singleton
<1>3. {j, k} = {k} \cup {j} /\ j \notin {k}
  OBVIOUS
<1>4. Cardinality({j, k}) = 2
  BY <1>2, <1>3, FS_AddElement
<1>5. Cardinality({j, k}) <= Cardinality(Live) /\ Cardinality(Live) \in Nat
  BY <1>1, <1>2, FS_Subset, FS_CardinalityType
<1> QED  BY <1>4, <1>5

(* What reader k reads, when it reads.                                      *)
LEMMA ReadsDoes ==
  ASSUME TypeOK, Stream, NEW k \in Readers, ReaderReads(k)
  PROVE  /\ wire' = <<>> /\ device' = device /\ shared \subseteq shared'
         /\ reader'[k].st = "loop" /\ reader'[k].buffer = Incomplete(View(k))
         /\ \A j \in Readers \ {k} : reader'[j] = reader[j]
         /\ queue' = Pushed(queue, Parsed(View(k))) /\ req' = NotDue(k)
         /\ \A j \in Readers \ {k} : \A n : Holds(j, n) /\ Has(wire, n) => n \in shared'
<1>1. reader \in [Readers -> Reader]
  BY DEF TypeOK
<1>2. /\ wire' = <<>> /\ device' = device /\ req' = NotDue(k)
      /\ reader' = [reader EXCEPT ![k] = [st |-> "loop", buffer |-> Incomplete(View(k))]]
      /\ queue' = Pushed(queue, Parsed(View(k)))
      /\ shared' = IF Cardinality(Live) > 1 THEN shared \cup LinesIn(wire) ELSE shared
  BY DEF ReaderReads, View, Kept
<1>3. ASSUME NEW j \in Readers \ {k}, NEW n, Holds(j, n), Has(wire, n) PROVE n \in shared'
  <2>1. reader[j].st # "none"
    <3>1. reader[j].buffer # <<>>
      BY <1>3 DEF Holds, Has
    <3> QED  BY <3>1 DEF Stream, Buffers
  <2>2. j \in Live /\ k \in Live
    BY <2>1 DEF Live, ReaderReads
  <2> QED  BY <1>2, <1>3, <2>2, TwoLive, LinesInIs
<1> QED  BY <1>1, <1>2, <1>3

(* A line that is private afterwards lies in the view as it was sent, and   *)
(* nobody else holds a part of it.                                          *)
LEMMA ReadsPrivate ==
  ASSUME TypeOK, Stream, NEW k \in Readers, ReaderReads(k),
         NEW n, Has(View(k), n), n \notin shared'
  PROVE  /\ n \in (1..device.ln) \ shared /\ InPlace(View(k), n, device)
         /\ \A j \in Readers : Holds(j, n) => j = k
<1>1. n \in 1..device.ln
  BY ViewType, ViewSent, SentIs
<1>2. n \in (1..device.ln) \ shared
  BY <1>1, ReadsDoes
<1>3. ASSUME NEW j \in Readers, Holds(j, n), j # k PROVE FALSE
  <2>1. ~Has(wire, n)
    BY <1>3, ReadsDoes
  <2>2. Holds(k, n)
    BY <2>1, ViewType, HasConcat DEF View, Holds
  <2> QED  BY <1>2, <1>3, <2>2 DEF Stream, Placed
<1> QED  BY <1>2, <1>3, InView

(* A read keeps every private line in one piece.                            *)
LEMMA ReadsStream ==
  ASSUME TypeOK, TypeOK', Stream, NEW k \in Readers, ReaderReads(k)
  PROVE  Stream'
<1> DEFINE s == View(k)
<1>1. /\ s \in Seq(Field) /\ wire \in Seq(Field) /\ device \in Device /\ device.ln \in Nat
      /\ \A j \in Readers : reader[j].buffer \in Seq(Field)
  BY ViewType
<1>2. /\ wire' = <<>> /\ device' = device /\ shared \subseteq shared'
      /\ reader'[k].st = "loop" /\ reader'[k].buffer = Incomplete(s)
      /\ \A j \in Readers \ {k} : reader'[j] = reader[j]
      /\ \A j \in Readers \ {k} : \A n : Holds(j, n) /\ Has(wire, n) => n \in shared'
  BY ReadsDoes
<1>3. /\ Sorted(s) /\ SentBy(s, device) /\ device.pos < Len(LineOf(device.mode))
      /\ \A i \in DOMAIN s : s[i].ln <= device.ln
  BY ViewSent DEF Stream, Buffers, Behind, SentBy
<1>4. \A n : Has(s, n) /\ n \notin shared' =>
        /\ n \in (1..device.ln) \ shared /\ InPlace(s, n, device)
        /\ \A j \in Readers : Holds(j, n) => j = k
  BY ReadsPrivate
<1> DEFINE rest == Incomplete(s)
           b == Before(s, Len(s) + 1)
<1>5. /\ rest \in Seq(Field) /\ Ends(rest) = {} /\ b \in 0..Len(s)
      /\ \A i \in DOMAIN rest : rest[i] = s[b + i] /\ b + i \in DOMAIN s
  BY <1>1, IncompleteIs
<1> HIDE DEF b
<1>v. \A n : Has(View(k), n) <=> Has(s, n)
  OBVIOUS
<1> HIDE DEF s
<1>h. \A n : Holds(k, n) => Has(s, n)
  BY <1>1, HasConcat DEF Holds, s, View
<1>w. \A n : Has(wire, n) => Has(s, n)
  BY <1>1, HasConcat DEF s, View
<1>6. \A n : Has(rest, n) => Has(s, n)
  BY <1>5 DEF Has
<1>7. Sorted(rest) /\ SentBy(rest, device)
  <2>1. ASSUME NEW i \in DOMAIN rest, NEW j \in DOMAIN rest, i <= j PROVE rest[i].ln <= rest[j].ln
    <3>1. b + i <= b + j
      BY <1>5, <2>1
    <3> QED  BY <1>3, <1>5, <3>1 DEF Sorted
  <2> HIDE DEF rest
  <2> QED  BY <1>3, <1>5, <2>1 DEF Sorted, SentBy
<1>8. ASSUME NEW n, Has(rest, n), n \notin shared' PROVE n = device.ln /\ InPlace(rest, n, device)
  <2>1. n \in Nat /\ n <= device.ln /\ InPlace(s, n, device)
    BY <1>1, <1>4, <1>6, <1>8
  <2>2. ~(n < device.ln)
    BY <1>1, <1>8, <2>1, IncompleteDrops
  <2>3. n = device.ln
    BY <1>1, <2>1, <2>2
  <2> QED  BY <1>1, <1>3, <2>1, <2>3, IncompleteKeeps
<1> HIDE DEF rest
<1>9. \A j \in Readers : /\ View(j)' = reader'[j].buffer
                         /\ reader'[j].buffer \in Seq(Field)
                         /\ j # k => reader'[j] = reader[j]
                         /\ j = k => reader'[j].buffer = rest
  <2>1. ASSUME NEW j \in Readers PROVE View(j)' = reader'[j].buffer /\ reader'[j].buffer \in Seq(Field)
    <3>1. reader'[j].buffer \in Seq(Field)
      BY DEF TypeOK, Reader
    <3>2. reader'[j].buffer \o <<>> = reader'[j].buffer
      BY <3>1
    <3> QED  BY <1>2, <3>1, <3>2 DEF View
  <2> QED  BY <1>2, <2>1 DEF rest
<1>10. Buffers'
  <2>1. ASSUME NEW j \in Readers, j # k
        PROVE  Sorted(reader[j].buffer)
    <3>1. Sorted(reader[j].buffer \o wire)
      BY DEF Stream, Buffers, View
    <3> QED  BY <1>1, <3>1, SortedParts
  <2>2. ASSUME NEW j \in Readers
        PROVE  /\ reader'[j].st \in {"none", "new"} => reader'[j].buffer = <<>>
               /\ Ends(reader'[j].buffer) = {} /\ Sorted(View(j)')
    <3>1. CASE j = k
      BY <1>2, <1>5, <1>7, <1>9, <3>1
    <3>2. CASE j # k
      BY <1>9, <2>1, <3>2 DEF Stream, Buffers
    <3> QED  BY <3>1, <3>2
  <2> QED  BY <2>2 DEF Buffers
<1>11. Behind'
  <2>1. ASSUME NEW j \in Readers PROVE SentBy(reader'[j].buffer, device)
    <3>1. CASE j = k
      BY <1>7, <1>9, <3>1
    <3>2. CASE j # k
      BY <1>9, <3>2 DEF Stream, Behind
    <3> QED  BY <3>1, <3>2
  <2>2. Sorted(<<>>) /\ SentBy(<<>>, device)
    BY DEF Sorted, SentBy
  <2> QED  BY <1>2, <1>3, <2>1, <2>2 DEF Behind
<1>12. \A n : ~Has(wire', n)
  BY <1>2 DEF Has
<1>13. ASSUME NEW n \in (1..device.ln) \ shared'
       PROVE  /\ \A j \in Readers : Holds(j, n)' =>
                   InPlace(View(j)', n, device) /\ \A i \in Readers : Holds(i, n)' => i = j
              /\ n = device.ln /\ device.pos > 0 => \E j \in Readers : Holds(j, n)'
  <2>1. \A j \in Readers : /\ j # k => (Holds(j, n)' <=> Holds(j, n))
                           /\ j = k => (Holds(j, n)' <=> Has(rest, n))
    BY <1>9 DEF Holds
  <2>2. n \in (1..device.ln) \ shared
    BY <1>2
  <2>3. ASSUME NEW j \in Readers, Holds(j, n)' PROVE InPlace(View(j)', n, device)
    <3>1. CASE j = k
      BY <1>8, <1>9, <2>1, <2>3, <3>1
    <3>2. CASE j # k
      <4>1. Holds(j, n) /\ ~Has(wire, n)
        BY <1>2, <2>1, <2>3, <3>2
      <4>2. InPlace(reader[j].buffer \o wire, n, device)
        BY <2>2, <4>1 DEF Stream, Placed, View
      <4>3. InPlace(reader[j].buffer, n, device)
        BY <1>1, <4>1, <4>2, SplitLine
      <4> QED  BY <1>9, <3>2, <4>3
    <3> QED  BY <3>1, <3>2
  <2>4. ASSUME NEW i \in Readers, NEW j \in Readers, Holds(i, n)', Holds(j, n)' PROVE i = j
    <3>1. CASE i = k \/ j = k
      <4>1. Has(s, n)
        BY <1>6, <2>1, <2>4, <3>1
      <4> QED  BY <1>4, <2>1, <2>4, <3>1, <4>1
    <3>2. CASE i # k /\ j # k
      BY <2>1, <2>2, <2>4, <3>2 DEF Stream, Placed
    <3> QED  BY <3>1, <3>2
  <2>5. ASSUME n = device.ln, device.pos > 0 PROVE \E j \in Readers : Holds(j, n)'
    <3>1. Has(wire, n) \/ \E j \in Readers : Holds(j, n)
      BY <2>2, <2>5 DEF Stream, Placed
    <3>2. CASE \E j \in Readers \ {k} : Holds(j, n)
      BY <2>1, <3>2
    <3>3. CASE Has(wire, n) \/ Holds(k, n)
      <4>1. Has(s, n)
        BY <1>h, <1>w, <3>3
      <4>2. InPlace(s, device.ln, device)
        BY <1>4, <2>5, <4>1
      <4>3. InPlace(rest, device.ln, device)
        BY <1>1, <1>3, <4>2, IncompleteKeeps DEF rest
      <4>4. Has(rest, n)
        BY <1>5, <2>5, <4>3, InPlaceHas
      <4> QED  BY <2>1, <4>4
    <3> QED  BY <3>1, <3>2, <3>3
  <2> QED  BY <2>3, <2>4, <2>5
<1>14. Placed'
  BY <1>2, <1>12, <1>13 DEF Placed
<1> QED  BY <1>10, <1>11, <1>14 DEF Stream

-----------------------------------------------------------------------------
(* The measurements that have been made.                                    *)

(* What a request still has to put into the queue.                          *)
Items == UNION {Range(req[r].items) : r \in Requests}

(* A part of line n has not been read yet.                                  *)
Pending(n) == n = device.ln \/ Has(wire, n) \/ \E k \in Readers : Holds(k, n)

(* A measurement is faithful or of a line somebody else took a part of, and *)
(* older than what a reader may still make of a private line; what a        *)
(* request puts is of lines that it took from the readers.                  *)
Measured ==
  /\ \A m \in Delivered \cup Items :
       /\ Faithful(m) \/ m.first \in shared
       /\ m.first <= m.last /\ m.last <= device.ln
       /\ \A n \in (1..device.ln) \ shared : Pending(n) => m.last < n
  /\ \A m \in Items : m.last \in shared

(* A step moves ms behind the queue, and everything that a queue or a       *)
(* request has afterwards was there before or is new.                       *)
Hands(ms, new) ==
  /\ queue' = <<>> \/ Drops(queue', queue \o ms)
  /\ Range(ms) \subseteq Items \cup new
  /\ \A r \in Requests :
       /\ req'[r].last \in Delivered \cup {Null}
       /\ queue' # <<>> => req'[r].last \in {req[r].last, Null}
       /\ Range(req'[r].items) \subseteq Items \cup new

(* Measurements that are delivered or to be put have their type.            *)
LEMMA MeasurementTypes ==
  ASSUME TypeOK
  PROVE  /\ Delivered \subseteq Measurements /\ Items \subseteq Measurements
         /\ \A r \in Requests : req[r].last \in Measurements /\ req[r].last \in Delivered
         /\ \A i \in DOMAIN queue : queue[i] \in Measurements /\ queue[i] \in Delivered
         /\ \A m \in Measurements : m.first \in Nat /\ m.last \in Nat
<1>1. queue \in Seq(Measurements) /\ \A r \in Requests : req[r] \in Request
  BY DEF TypeOK
<1>2. \A i \in DOMAIN queue : queue[i] \in Measurements /\ queue[i] \in Range(queue)
  BY <1>1 DEF Range
<1>3. \A r \in Requests : req[r].last \in Measurements /\ req[r].items \in Seq(Measurements)
  BY <1>1 DEF Request
<1>4. \A r \in Requests : Range(req[r].items) \subseteq Measurements
  BY <1>3 DEF Range
<1>5. Range(queue) \subseteq Measurements
  BY <1>2 DEF Range
<1>6. \A m \in Measurements : m.first \in Nat /\ m.last \in Nat
  BY DEF Measurements
<1> QED  BY <1>2, <1>3, <1>4, <1>5, <1>6 DEF Delivered, Items

(* A place of the queue after the step was one of the queue, or of ms.      *)
LEMMA Came ==
  ASSUME TypeOK, NEW ms \in Seq(Measurements), NEW o \in Nat,
         NEW q \in Seq(Measurements), Len(queue \o ms) = Len(q) + o,
         \A i \in DOMAIN q : o + i \in DOMAIN (queue \o ms) /\ q[i] = (queue \o ms)[o + i],
         NEW i \in DOMAIN q
  PROVE  \/ o + i \in DOMAIN queue /\ q[i] = queue[o + i]
         \/ /\ o + i > Len(queue) /\ o + i - Len(queue) \in DOMAIN ms
            /\ q[i] = ms[o + i - Len(queue)]
<1>1. queue \in Seq(Measurements) /\ Len(queue) \in Nat /\ DOMAIN queue = 1..Len(queue)
  BY DEF TypeOK
<1>2. \A j \in DOMAIN (queue \o ms) :
        \/ j \in DOMAIN queue /\ (queue \o ms)[j] = queue[j]
        \/ j > Len(queue) /\ j - Len(queue) \in DOMAIN ms /\ (queue \o ms)[j] = ms[j - Len(queue)]
  BY <1>1
<1> QED  BY <1>2

(* What there is after the step was there before, or is new.                *)
LEMMA HandedIs ==
  ASSUME TypeOK, TypeOK', NEW ms \in Seq(Measurements), NEW new, Hands(ms, new)
  PROVE  /\ Delivered' \subseteq Delivered \cup Items \cup {Null} \cup new
         /\ Items' \subseteq Items \cup new
<1>1. Items' \subseteq Items \cup new
  BY DEF Hands, Items
<1>2. ASSUME NEW i \in DOMAIN queue' PROVE queue'[i] \in Delivered \cup Items \cup new
  <2>1. PICK o \in Nat :
          /\ Len(queue \o ms) = Len(queue') + o
          /\ \A j \in DOMAIN queue' :
               o + j \in DOMAIN (queue \o ms) /\ queue'[j] = (queue \o ms)[o + j]
    <3>1. queue' # <<>>
      BY <1>2
    <3> QED  BY <3>1 DEF Hands, Drops
  <2>2. queue' \in Seq(Measurements)
    BY DEF TypeOK
  <2>3. \/ \E j \in DOMAIN queue : queue'[i] = queue[j]
        \/ \E j \in DOMAIN ms : queue'[i] = ms[j]
    BY <2>1, <2>2, Came
  <2> QED  BY <2>3, MeasurementTypes DEF Hands, Range
<1>3. Range(queue') \subseteq Delivered \cup Items \cup new
  BY <1>2 DEF Range
<1>4. \A r \in Requests : req'[r].last \in Delivered \cup {Null}
  BY DEF Hands
<1>5. Delivered' = Range(queue') \cup {req'[r].last : r \in Requests}
  BY DEF Delivered
<1> QED  BY <1>1, <1>3, <1>4, <1>5

(* Nobody has taken a part of a line of m, when sh are the lines shared.    *)
PrivateIn(m, sh) == \A n \in m.first..m.last : n \notin sh

(* The order is kept when a private measurement is put behind only what is  *)
(* older.                                                                   *)
LEMMA OrderHanded ==
  ASSUME TypeOK, TypeOK', InOrder, shared \subseteq shared',
         NEW ms \in Seq(Measurements), NEW new, Hands(ms, new),
         \A j \in DOMAIN ms : PrivateIn(ms[j], shared') =>
           /\ \A m \in Delivered : m.last < ms[j].last
           /\ \A i \in DOMAIN ms : i < j => ms[i].last < ms[j].last
  PROVE  InOrder'
<1>1. \A m : PrivateIn(m, shared') => PrivateIn(m, shared)
  BY DEF PrivateIn
<1>o. /\ \A i, j \in DOMAIN queue :
           i < j /\ PrivateIn(queue[j], shared) => queue[i].last < queue[j].last
      /\ \A r \in Requests, i \in DOMAIN queue :
           PrivateIn(queue[i], shared) => req[r].last.last < queue[i].last
  BY DEF InOrder, Private, PrivateIn
<1>q. queue \in Seq(Measurements) /\ queue' \in Seq(Measurements) /\ Len(queue) \in Nat
  BY DEF TypeOK
<1>2. CASE queue' = <<>>
  BY <1>2 DEF InOrder
<1>3. CASE queue' # <<>>
  <2>1. PICK o \in Nat :
          /\ Len(queue \o ms) = Len(queue') + o
          /\ \A j \in DOMAIN queue' :
               o + j \in DOMAIN (queue \o ms) /\ queue'[j] = (queue \o ms)[o + j]
    BY <1>3 DEF Hands, Drops
  <2>2. \A i \in DOMAIN queue' :
          \/ o + i \in DOMAIN queue /\ queue'[i] = queue[o + i]
          \/ /\ o + i > Len(queue) /\ o + i - Len(queue) \in DOMAIN ms
             /\ queue'[i] = ms[o + i - Len(queue)]
    BY <1>q, <2>1, Came
  <2>3. ASSUME NEW i \in DOMAIN queue', NEW j \in DOMAIN queue', i < j, PrivateIn(queue'[j], shared')
        PROVE  queue'[i].last < queue'[j].last
    <3>0. i \in Nat /\ j \in Nat /\ o + i < o + j
      BY <1>q, <2>3
    <3>1. CASE o + j \in DOMAIN queue /\ queue'[j] = queue[o + j]
      <4>1. o + i \in DOMAIN queue
        BY <1>q, <2>2, <3>0, <3>1
      <4>2. queue'[i] = queue[o + i]
        BY <1>q, <2>2, <4>1
      <4>3. PrivateIn(queue[o + j], shared)
        BY <1>1, <2>3, <3>1
      <4> QED  BY <1>o, <3>0, <3>1, <4>1, <4>2, <4>3
    <3>2. CASE /\ o + j > Len(queue) /\ o + j - Len(queue) \in DOMAIN ms
               /\ queue'[j] = ms[o + j - Len(queue)]
      <4>1. CASE o + i \in DOMAIN queue /\ queue'[i] = queue[o + i]
        <5>1. queue'[i] \in Delivered
          BY <4>1, MeasurementTypes
        <5> QED  BY <2>3, <3>2, <5>1
      <4>2. CASE /\ o + i > Len(queue) /\ o + i - Len(queue) \in DOMAIN ms
                 /\ queue'[i] = ms[o + i - Len(queue)]
        <5>1. o + i - Len(queue) < o + j - Len(queue)
          BY <1>q, <3>0
        <5> QED  BY <2>3, <3>2, <4>2, <5>1
      <4> QED  BY <2>2, <4>1, <4>2
    <3> QED  BY <2>2, <3>1, <3>2
  <2>4. ASSUME NEW r \in Requests, NEW i \in DOMAIN queue', PrivateIn(queue'[i], shared')
        PROVE  req'[r].last.last < queue'[i].last
    <3>1. req[r].last.last < queue'[i].last
      <4>1. CASE o + i \in DOMAIN queue /\ queue'[i] = queue[o + i]
        BY <1>1, <1>o, <2>4, <4>1
      <4>2. CASE /\ o + i > Len(queue) /\ o + i - Len(queue) \in DOMAIN ms
                 /\ queue'[i] = ms[o + i - Len(queue)]
        BY <2>4, <4>2, MeasurementTypes
      <4> QED  BY <2>2, <4>1, <4>2
    <3>2. req[r].last.last \in Nat /\ queue'[i].last \in Nat
      <4>1. queue'[i] \in Measurements
        BY <1>q
      <4> QED  BY <4>1, MeasurementTypes
    <3>3. req'[r].last = req[r].last \/ req'[r].last.last = 0
      BY <1>3 DEF Hands, Null
    <3> QED  BY <3>1, <3>2, <3>3
  <2> QED  BY <2>3, <2>4 DEF InOrder, Private, PrivateIn
<1> QED  BY <1>2, <1>3

(* Measurements that are new in a step that takes the wire, or none.        *)
LEMMA MeasuredLossy ==
  ASSUME TypeOK, TypeOK', Stream, Lossy, Measured,
         NEW ms \in Seq(Measurements), NEW new, Hands(ms, new), new \subseteq Measurements,
         new # {} => wire' = <<>> /\ \A n : Has(wire, n) => n \in shared',
         \A m \in new : /\ m.first \in shared' /\ m.last \in shared'
                        /\ m.first <= m.last /\ m.last <= device.ln
  PROVE  Measured'
<1>1. /\ Delivered' \subseteq Delivered \cup Items \cup {Null} \cup new
      /\ Items' \subseteq Items \cup new
  BY HandedIs
<1>2. /\ device.ln \in Nat /\ device.ln >= 1 /\ device'.ln \in Nat
      /\ device'.ln = device.ln \/ device'.ln = device.ln + 1
      /\ shared \subseteq shared'
  <2>1. device' \in Device
    BY DEF TypeOK
  <2>2. device'.ln \in Nat
    BY <2>1 DEF Device
  <2>3. device.ln \in Nat /\ device.ln >= 1
    BY DEF TypeOK, Device
  <2> QED  BY <2>2, <2>3 DEF Lossy
<1>3. \A n : Has(wire', n) => Has(wire, n)
  BY DEF Lossy, Has
<1>4. \A k \in Readers : \A n : Holds(k, n)' => Holds(k, n)
  BY DEF Lossy, Holds, Has
<1>5. ASSUME NEW m \in Delivered \cup Items \cup {Null} \cup new
      PROVE  /\ Faithful(m) \/ m.first \in shared'
             /\ m.first <= m.last /\ m.last <= device'.ln
             /\ \A n \in (1..device'.ln) \ shared' : Pending(n)' => m.last < n
  <2>m. m \in Measurements /\ m.first \in Nat /\ m.last \in Nat
    BY MeasurementTypes, NullType
  <2>1. CASE m \in Delivered \cup Items
    <3>1. /\ Faithful(m) \/ m.first \in shared
          /\ m.first <= m.last /\ m.last <= device.ln
          /\ \A n \in (1..device.ln) \ shared : Pending(n) => m.last < n
      BY <2>1 DEF Measured
    <3>2. ASSUME NEW n \in (1..device'.ln) \ shared', Pending(n)' PROVE m.last < n
      <4>1. n \in Nat /\ n \notin shared
        BY <1>2
      <4>2. CASE n \in 1..device.ln
        <5>1. Pending(n)
          <6>1. n = device'.ln => n = device.ln
            BY <1>2, <4>1, <4>2
          <6> QED  BY <1>3, <1>4, <3>2, <6>1 DEF Pending
        <5> QED  BY <3>1, <4>1, <4>2, <5>1
      <4>3. CASE n \notin 1..device.ln
        <5>1. n > device.ln
          BY <1>2, <4>1, <4>3
        <5> QED  BY <1>2, <2>m, <3>1, <4>1, <5>1
      <4> QED  BY <4>2, <4>3
    <3>3. m.last <= device'.ln
      BY <1>2, <2>m, <3>1
    <3> QED  BY <1>2, <3>1, <3>2, <3>3
  <2>2. CASE m = Null
    <3>1. Faithful(m) /\ m.first = 0 /\ m.last = 0
      BY <2>2 DEF Null, Faithful, NoField
    <3> QED  BY <1>2, <3>1
  <2>3. CASE m \in new
    <3>1. /\ m.first \in shared' /\ m.last \in shared'
          /\ m.first <= m.last /\ m.last <= device.ln
          /\ wire' = <<>> /\ \A n : Has(wire, n) => n \in shared'
      BY <2>3
    <3>2. ASSUME NEW n \in (1..device'.ln) \ shared', Pending(n)' PROVE m.last < n
      <4>1. n \in Nat /\ n \notin shared /\ m.last # n
        BY <1>2, <3>1
      <4>2. n = device'.ln \/ n = device.ln
        <5>1. CASE \E k \in Readers : Holds(k, n)'
          <6>1. PICK k \in Readers : Holds(k, n)
            BY <1>4, <5>1
          <6>2. ~Has(wire, n)
            BY <3>1, <3>2
          <6>3. n \in 1..device.ln
            BY <6>1, ViewType, SentIs DEF Stream, Behind, Holds
          <6> QED  BY <4>1, <6>1, <6>2, <6>3, HeldIsOpen
        <5>2. ~Has(wire', n)
          BY <3>1 DEF Has
        <5> QED  BY <3>2, <5>1, <5>2 DEF Pending
      <4> QED  BY <1>2, <2>m, <3>1, <4>1, <4>2
    <3>3. m.last <= device'.ln
      BY <1>2, <2>m, <3>1
    <3> QED  BY <3>1, <3>2, <3>3
  <2> QED  BY <2>1, <2>2, <2>3
<1>6. \A m \in Items' : m.last \in shared'
  BY <1>1, <1>2 DEF Measured
<1> QED  BY <1>1, <1>5, <1>6 DEF Measured

(* Sending makes no measurement, and only newer lines.                      *)
LEMMA MeasuredSends ==
  ASSUME TypeOK, TypeOK', Stream, Measured, DeviceSends
  PROVE  Measured'
<1>1. PICK c \in Nat : Sends(c)
  BY SendsDoes
<1>2. /\ device \in Device /\ device.mode \in Modes /\ device.ln \in Nat /\ device'.ln \in Nat
      /\ wire \in Seq(Field)
  BY DEF TypeOK, Device
<1>3. /\ reader' = reader /\ shared' = shared
      /\ wire' = wire \o NextFields(device, c)
      /\ device'.ln = device.ln \/ device'.ln = device.ln + 1
      /\ \A n : Has(wire', n) => Has(wire, n) \/ n = device.ln
  <2>1. /\ NextFields(device, c) \in Seq(Field)
        /\ \A n : Has(NextFields(device, c), n) <=> n = device.ln
    BY <1>1, <1>2, NextFieldsIs DEF Sends
  <2>2. /\ reader' = reader /\ shared' = shared
        /\ wire' = wire \o NextFields(device, c)
        /\ device'.ln = device.ln \/ device'.ln = device.ln + 1
    BY <1>1 DEF Sends
  <2> QED  BY <1>2, <2>1, <2>2, HasConcat
<1>4. Delivered' = Delivered /\ Items' = Items
  BY DEF DeviceSends, Delivered, Items
<1>5. ASSUME NEW m \in Delivered \cup Items
      PROVE  /\ m.last <= device'.ln
             /\ \A n \in (1..device'.ln) \ shared : Pending(n)' => m.last < n
  <2>1. m.last \in Nat /\ m.last <= device.ln
    BY MeasurementTypes DEF Measured
  <2>2. ASSUME NEW n \in (1..device'.ln) \ shared, Pending(n)' PROVE m.last < n
    <3>1. CASE n \in 1..device.ln
      <4>1. Pending(n)
        <5>1. \A k \in Readers : Holds(k, n)' => Holds(k, n)
          BY <1>3 DEF Holds
        <5>2. n = device'.ln => n = device.ln
          BY <1>2, <1>3, <3>1
        <5> QED  BY <1>3, <2>2, <5>1, <5>2 DEF Pending
      <4> QED  BY <3>1, <4>1 DEF Measured
    <3>2. CASE n \notin 1..device.ln
      BY <1>2, <2>1, <3>2
    <3> QED  BY <3>1, <3>2
  <2> QED  BY <1>2, <1>3, <2>1, <2>2
<1>6. \A m \in Delivered \cup Items : (Faithful(m) \/ m.first \in shared) /\ m.first <= m.last
  BY DEF Measured
<1>7. \A m \in Items : m.last \in shared
  BY DEF Measured
<1> QED  BY <1>3, <1>4, <1>5, <1>6, <1>7 DEF Measured

(* A line that may still be read after reader k has read is the one that    *)
(* the device is at.                                                        *)
LEMMA PendingAfterRead ==
  ASSUME TypeOK, Stream, NEW k \in Readers, ReaderReads(k),
         NEW n \in (1..device.ln) \ shared', Pending(n)'
  PROVE  n = device.ln
<1>1. /\ device' = device /\ wire' = <<>> /\ shared \subseteq shared'
      /\ reader'[k].buffer = Incomplete(View(k))
      /\ \A j \in Readers \ {k} : reader'[j] = reader[j]
      /\ \A j \in Readers \ {k} : \A i : Holds(j, i) /\ Has(wire, i) => i \in shared'
  BY ReadsDoes
<1>2. ~Has(wire', n)
  BY <1>1 DEF Has
<1>t. View(k) \in Seq(Field) /\ device \in Device /\ device.ln \in Nat /\ n \in Nat /\ n <= device.ln
  BY ViewType
<1>3. CASE Has(Incomplete(View(k)), n)
  <2>1. Has(View(k), n)
    <3>1. \A i \in DOMAIN Incomplete(View(k)) : \E j \in DOMAIN View(k) : Incomplete(View(k))[i] = View(k)[j]
      BY <1>t, IncompleteIs
    <3> QED  BY <1>3, <3>1 DEF Has
  <2>2. InPlace(View(k), n, device)
    BY <2>1, ReadsPrivate
  <2>3. ~(n < device.ln)
    BY <1>3, <1>t, <2>2, IncompleteDrops
  <2> QED  BY <1>t, <2>3
<1>4. ASSUME NEW j \in Readers \ {k}, Holds(j, n) PROVE n = device.ln
  <2>1. ~Has(wire, n)
    BY <1>1, <1>4
  <2> QED  BY <1>1, <1>4, <2>1, HeldIsOpen
<1>5. ASSUME NEW j \in Readers, Holds(j, n)' PROVE n = device.ln
  <2>1. CASE j = k
    BY <1>1, <1>3, <1>5, <2>1 DEF Holds
  <2>2. CASE j # k
    BY <1>1, <1>4, <1>5, <2>2 DEF Holds
  <2> QED  BY <2>1, <2>2
<1> QED  BY <1>1, <1>2, <1>5 DEF Pending

(* What a read makes of a view.                                             *)
LEMMA ReadsMake ==
  ASSUME TypeOK, Stream, Measured, NEW k \in Readers, ReaderReads(k),
         NEW i \in DOMAIN Parsed(View(k))
  PROVE  LET m == Parsed(View(k))[i] IN
           /\ m.first <= m.last /\ m.last <= device.ln
           /\ \A n \in (1..device.ln) \ shared' : Pending(n)' => m.last < n
           /\ m.first \notin shared' =>
                /\ Faithful(m)
                /\ \A d \in Delivered : d.last < m.last
                /\ \A j \in DOMAIN Parsed(View(k)) : j < i => Parsed(View(k))[j].last < m.last
<1> DEFINE s == View(k)
           es == {e \in Ends(s) : Usable(Piece(s, e))}
           ms == Parsed(s)
           m == ms[i]
<1>1. s \in Seq(Field) /\ device \in Device /\ device.ln \in Nat /\ wire \in Seq(Field)
      /\ reader[k].buffer \in Seq(Field)
  BY ViewType
<1>2. /\ Reads(s, es, ms) /\ ms \in Seq(Measurements)
      /\ \A j \in DOMAIN ms : ms[j] = Guessed(Piece(s, Nth(es, j)))
  BY <1>1, ParsedIs
<1>3. /\ Sorted(s) /\ SentBy(s, device) /\ device.pos < Len(LineOf(device.mode))
      /\ \A j \in DOMAIN s : s[j].ln <= device.ln
  BY ViewSent DEF Stream, Buffers, Behind, SentBy
<1>4. \A n : Has(s, n) /\ n \notin shared' =>
        n \in (1..device.ln) \ shared /\ InPlace(s, n, device)
  BY ReadsPrivate
<1>5. \A n : Has(s, n) => Has(wire, n) \/ Holds(k, n)
  BY <1>1, HasConcat DEF View, Holds
<1>e. es \subseteq Ends(s) /\ IsFiniteSet(es) /\ es \subseteq Nat /\ Ends(s) \subseteq DOMAIN s /\ DOMAIN s \subseteq Nat
  <2>1. es \subseteq Ends(s)
    OBVIOUS
  <2> HIDE DEF es
  <2>2. IsFiniteSet(es) /\ es \subseteq 1..Len(s) + 1
    BY <1>1, <2>1, EndsFinite
  <2>3. es \subseteq Nat
    BY <1>1, <2>2
  <2>4. Ends(s) \subseteq DOMAIN s
    BY DEF Ends
  <2> HIDE DEF s
  <2>5. DOMAIN s \subseteq Nat
    BY <1>1
  <2> QED  BY <2>1, <2>2, <2>3, <2>4, <2>5
<1> HIDE DEF s, es, ms
<1>6. DOMAIN ms = 1..Cardinality(es) /\ i \in DOMAIN ms
  BY <1>2 DEF Reads, ms, s
<1>7. ASSUME NEW j \in DOMAIN ms
      PROVE  /\ Nth(es, j) \in es /\ Nth(es, j) - 1 \in DOMAIN s
             /\ Before(s, Nth(es, j)) + 1 \in DOMAIN s /\ Before(s, Nth(es, j)) + 1 <= Nth(es, j) - 1
             /\ ms[j].first = s[Before(s, Nth(es, j)) + 1].ln /\ ms[j].last = s[Nth(es, j) - 1].ln
  BY <1>2 DEF Reads
<1> DEFINE e == Nth(es, i)
           b == Before(s, e)
<1>8. /\ e \in es /\ e \in Ends(s) /\ e \in DOMAIN s /\ e - 1 \in DOMAIN s /\ b + 1 \in DOMAIN s
      /\ b + 1 <= e - 1 /\ m.first = s[b + 1].ln /\ m.last = s[e - 1].ln /\ e \in Nat
      /\ m = Guessed(Piece(s, e))
  BY <1>2, <1>6, <1>7, <1>e
<1>9. /\ \A j \in Ends(s) : j < e => j <= b
      /\ b \in Nat
  <2>1. e \in 1..Len(s) + 1
    BY <1>1, <1>8
  <2>2. b \in 0..e - 1 /\ \A j \in Ends(s) : j < e => j <= b
    BY <1>1, <2>1, BeforeIs
  <2> QED  BY <2>2
<1> HIDE DEF e, b, m
<1>10. /\ m.first <= m.last /\ m.last <= s[e].ln /\ m.last <= device.ln /\ s[e].ln <= device.ln
       /\ m.first \in Nat /\ m.last \in Nat /\ s[e].ln \in Nat
  <2>1. e - 1 <= e
    BY <1>8
  <2> QED  BY <1>1, <1>3, <1>8, <2>1, FieldOf DEF Sorted
<1>11. ASSUME NEW n \in (1..device.ln) \ shared', Pending(n)' PROVE m.last < n
  <2>1. n = device.ln
    BY <1>11, PendingAfterRead
  <2>2. s[e].ln # device.ln
    <3>1. SUFFICES ASSUME s[e].ln = device.ln PROVE FALSE
      OBVIOUS
    <3>2. InPlace(s, device.ln, device)
      BY <1>4, <1>8, <1>11, <2>1, <3>1 DEF Has
    <3>3. s[e].ln < device.ln
      BY <1>1, <1>3, <1>8, <3>2, OpenLine
    <3> QED  BY <1>1, <3>1, <3>3
  <2> QED  BY <1>1, <1>10, <2>1, <2>2
<1>12. ASSUME m.first \notin shared'
       PROVE  /\ Faithful(m)
              /\ \A d \in Delivered : d.last < m.last
              /\ \A j \in DOMAIN ms : j < i => ms[j].last < m.last
  <2> DEFINE n == m.first
  <2>1. Has(s, n) /\ n \in (1..device.ln) \ shared /\ InPlace(s, n, device)
    <3>1. Has(s, n)
      BY <1>8 DEF Has
    <3> QED  BY <1>4, <1>12, <3>1
  <2>2. InPlace(s, s[Before(s, e) + 1].ln, device) /\ Before(s, e) + 1 <= e - 1
    BY <1>8, <2>1 DEF b
  <2>3. /\ s[e - 1].ln = s[Before(s, e) + 1].ln
        /\ \A j \in Ends(s) : s[j].ln = s[Before(s, e) + 1].ln => j = e
        /\ Faithful(Guessed(Piece(s, e)))
    BY <1>1, <1>3, <1>8, <2>2, PieceOfLine
  <2>4. m.last = n /\ Faithful(m) /\ \A j \in Ends(s) : s[j].ln = n => j = e
    BY <1>8, <2>3 DEF b
  <2>5. \A d \in Delivered : d.last < n
    <3>1. Pending(n)
      BY <1>5, <2>1 DEF Pending
    <3> QED  BY <2>1, <3>1 DEF Measured
  <2>6. ASSUME NEW j \in DOMAIN ms, j < i PROVE ms[j].last < n
    <3> DEFINE f == Nth(es, j)
    <3>1. f \in es /\ f - 1 \in DOMAIN s /\ ms[j].last = s[f - 1].ln
      BY <1>7
    <3>2. f < e
      BY <1>6, <1>e, <2>6, NthGrows DEF e
    <3> HIDE DEF f
    <3>3. f \in Ends(s) /\ f \in DOMAIN s /\ f \in Nat /\ f <= b
      BY <1>9, <1>e, <3>1, <3>2
    <3>4. f - 1 <= f /\ f <= b + 1
      BY <1>9, <3>3
    <3>5. s[f - 1].ln <= s[f].ln /\ s[f].ln <= n
      BY <1>3, <1>8, <3>1, <3>3, <3>4 DEF Sorted
    <3>6. s[f].ln # n
      BY <1>8, <2>4, <3>2, <3>3
    <3>7. s[f - 1].ln \in Nat /\ s[f].ln \in Nat
      BY <1>1, <3>1, <3>3, FieldOf
    <3> QED  BY <1>10, <3>1, <3>5, <3>6, <3>7
  <2> QED  BY <2>4, <2>5, <2>6
<1> QED  BY <1>10, <1>11, <1>12 DEF m, ms, s

(* The bytes and the measurements are in order.                             *)
Made == Stream /\ Measured /\ InOrder

(* Sending keeps the order of bytes and measurements.                       *)
LEMMA SendsMade ==
  ASSUME TypeOK, TypeOK', Made, DeviceSends
  PROVE  Made'
<1>1. Stream' /\ Measured'
  BY SendsStream, MeasuredSends DEF Made
<1>2. UNCHANGED <<queue, req, shared>>
  BY DEF DeviceSends
<1>3. InOrder'
  BY <1>2 DEF Made, InOrder, Private
<1> QED  BY <1>1, <1>3 DEF Made

(* A read keeps the order of bytes and measurements.                        *)
LEMMA ReadsMade ==
  ASSUME TypeOK, TypeOK', Made, NEW k \in Readers, ReaderReads(k)
  PROVE  Made'
<1> DEFINE ms == Parsed(View(k))
<1>1. Stream /\ Measured /\ InOrder
  BY DEF Made
<1>2. /\ queue' = Pushed(queue, ms) /\ req' = NotDue(k) /\ device' = device /\ shared \subseteq shared'
  BY <1>1, ReadsDoes
<1>3. ms \in Seq(Measurements) /\ queue \in Seq(Measurements) /\ device.ln \in Nat
  BY ViewType, ParsedIs DEF TypeOK
<1>4. \A r \in Requests : req'[r].last = req[r].last /\ req'[r].items = req[r].items
  BY <1>2 DEF NotDue, TypeOK, Request
<1>5. \A i \in DOMAIN ms :
        /\ ms[i].first <= ms[i].last /\ ms[i].last <= device.ln
        /\ \A n \in (1..device.ln) \ shared' : Pending(n)' => ms[i].last < n
        /\ ms[i].first \notin shared' =>
             /\ Faithful(ms[i])
             /\ \A d \in Delivered : d.last < ms[i].last
             /\ \A j \in DOMAIN ms : j < i => ms[j].last < ms[i].last
  BY <1>1, ReadsMake
<1> HIDE DEF ms
<1>6. Hands(ms, Range(ms))
  <2>1. Drops(queue', queue \o ms)
    BY <1>2, <1>3, PushedIs
  <2>2. \A r \in Requests : Range(req'[r].items) \subseteq Items
    BY <1>4 DEF Items
  <2> QED  BY <1>4, <2>1, <2>2 DEF Hands, Delivered
<1>7. Delivered' \subseteq Delivered \cup Items \cup {Null} \cup Range(ms) /\ Items' = Items
  BY <1>3, <1>4, <1>6, HandedIs DEF Items
<1>8. Stream'
  BY <1>1, ReadsStream
<1>9. InOrder'
  <2>1. ASSUME NEW j \in DOMAIN ms, PrivateIn(ms[j], shared') PROVE ms[j].first \notin shared'
    <3>1. ms[j].first \in Nat /\ ms[j].last \in Nat
      BY <1>3, MeasurementTypes
    <3>2. ms[j].first \in ms[j].first..ms[j].last
      BY <1>5, <3>1
    <3> QED  BY <2>1, <3>2 DEF PrivateIn
  <2> QED  BY <1>1, <1>2, <1>3, <1>5, <1>6, <2>1, OrderHanded
<1>10. Measured'
  <2>1. \A n \in (1..device.ln) \ shared' : Pending(n)' => Pending(n)
    BY <1>1, PendingAfterRead DEF Pending
  <2>2. ASSUME NEW m \in Delivered \cup Items \cup {Null} \cup Range(ms)
        PROVE  /\ Faithful(m) \/ m.first \in shared'
               /\ m.first <= m.last /\ m.last <= device.ln
               /\ \A n \in (1..device.ln) \ shared' : Pending(n)' => m.last < n
    <3>1. CASE m \in Delivered \cup Items
      BY <1>1, <1>2, <2>1, <3>1 DEF Measured
    <3>2. CASE m = Null
      <4>1. Faithful(m) /\ m.first = 0 /\ m.last = 0
        BY <3>2 DEF Null, Faithful, NoField
      <4> QED  BY <1>3, <4>1
    <3>3. CASE m \in Range(ms)
      <4>1. PICK i \in DOMAIN ms : m = ms[i]
        BY <3>3 DEF Range
      <4> QED  BY <1>5, <4>1
    <3> QED  BY <3>1, <3>2, <3>3
  <2>3. \A m \in Items' : m.last \in shared'
    BY <1>1, <1>2, <1>7 DEF Measured
  <2> QED  BY <1>2, <1>7, <2>2, <2>3 DEF Measured
<1> QED  BY <1>8, <1>9, <1>10 DEF Made

-----------------------------------------------------------------------------
(* The steps that only take or drop bytes.                                  *)

(* A step that cancels, launches, flushes or escapes only loses bytes.      *)
LEMMA LossyOf ==
  ASSUME TypeOK, Stream, shared \subseteq shared',
         \/ UNCHANGED reader
         \/ Launch
         \/ \E k : /\ reader' = [j \in Readers |-> IF j = k THEN NoReader ELSE reader[j]]
                   /\ Held({k}) \subseteq shared',
         \/ UNCHANGED wire
         \/ wire' = <<>> /\ LinesIn(wire) \subseteq shared',
         \/ UNCHANGED device
         \/ Escaped
  PROVE  Lossy
<1>1. ASSUME NEW k \in Readers
      PROVE  \/ /\ reader'[k].buffer = reader[k].buffer
                /\ reader'[k].st \in {reader[k].st, "loop"}
             \/ /\ reader'[k].buffer = <<>>
                /\ \A n : Holds(k, n) => n \in shared'
  <2>1. CASE UNCHANGED reader
    BY <2>1
  <2>2. CASE Launch
    <3>1. PICK j \in Readers :
            /\ reader[j].st = "none" /\ reader'[j].buffer = <<>>
            /\ \A i \in Readers : i # j => reader'[i] = reader[i]
      BY <2>2, Launched
    <3>2. CASE k = j
      <4>1. reader[k].buffer = <<>>
        BY <3>1, <3>2 DEF Stream, Buffers
      <4>2. \A n : ~Holds(k, n)
        BY <4>1 DEF Holds, Has
      <4> QED  BY <3>1, <3>2, <4>2
    <3>3. CASE k # j
      BY <3>1, <3>3
    <3> QED  BY <3>2, <3>3
  <2>3. ASSUME NEW j, reader' = [i \in Readers |-> IF i = j THEN NoReader ELSE reader[i]],
               Held({j}) \subseteq shared'
        PROVE  \/ /\ reader'[k].buffer = reader[k].buffer
                  /\ reader'[k].st \in {reader[k].st, "loop"}
               \/ /\ reader'[k].buffer = <<>>
                  /\ \A n : Holds(k, n) => n \in shared'
    <3>1. CASE k = j
      <4>1. reader'[k].buffer = <<>>
        BY <2>3, <3>1 DEF NoReader
      <4>2. ASSUME NEW n, Holds(k, n) PROVE n \in shared'
        <5>1. n \in LinesIn(reader[k].buffer)
          BY <4>2, LinesInIs DEF Holds
        <5>2. n \in Held({j})
          BY <3>1, <5>1 DEF Held
        <5> QED  BY <2>3, <5>2
      <4> QED  BY <4>1, <4>2
    <3>2. CASE k # j
      BY <2>3, <3>2
    <3> QED  BY <3>1, <3>2
  <2> QED  BY <2>1, <2>2, <2>3
<1>2. wire' = wire \/ (wire' = <<>> /\ \A n : Has(wire, n) => n \in shared')
  BY LinesInIs
<1>3. device'.ln = device.ln /\ device'.pos = device.pos /\ device'.mode = device.mode
  BY EscapedType DEF TypeOK
<1> QED  BY <1>1, <1>2, <1>3 DEF Lossy

(* A step in which nothing is put into the queue.                           *)
LEMMA HandsNothing ==
  ASSUME TypeOK, queue' = queue \/ queue' = <<>> \/ (queue # <<>> /\ queue' = Tail(queue)),
         \A q \in Requests : /\ req'[q].last \in {req[q].last, Null}
                             /\ req'[q].items \in {req[q].items, <<>>}
  PROVE  Hands(<<>>, {})
<1>1. queue \in Seq(Measurements)
  BY DEF TypeOK
<1>2. queue \o <<>> = queue
  BY <1>1
<1>3. queue' = <<>> \/ Drops(queue', queue)
  <2>1. CASE queue' = queue
    <3>1. Len(queue) = Len(queue') + 0 /\ \A i \in DOMAIN queue' : 0 + i \in DOMAIN queue /\ queue'[i] = queue[0 + i]
      BY <1>1, <2>1
    <3> QED  BY <3>1 DEF Drops
  <2>2. CASE queue # <<>> /\ queue' = Tail(queue)
    <3>1. Len(queue) = Len(queue') + 1 /\ \A i \in DOMAIN queue' : 1 + i \in DOMAIN queue /\ queue'[i] = queue[1 + i]
      BY <1>1, <2>2
    <3> QED  BY <3>1 DEF Drops
  <2> QED  BY <2>1, <2>2
<1>4. ASSUME NEW q \in Requests
      PROVE  req'[q].last \in Delivered \cup {Null} /\ Range(req'[q].items) \subseteq Items
  <2>1. Range(<<>>) = {}
    BY DEF Range
  <2> QED  BY <2>1 DEF Delivered, Items
<1>5. Range(<<>>) \subseteq Items \cup {}
  BY DEF Range
<1> QED  BY <1>2, <1>3, <1>4, <1>5 DEF Hands

(* A step that only loses bytes keeps the order of what is left.            *)
LEMMA LossyMade ==
  ASSUME TypeOK, TypeOK', Made, Lossy, Hands(<<>>, {})
  PROVE  Made'
<1>1. Stream /\ Measured /\ InOrder /\ <<>> \in Seq(Measurements)
  BY DEF Made
<1>2. Stream'
  BY <1>1, LossyStream
<1>3. Measured'
  <2> DEFINE new == {}
  <2>1. new \subseteq Measurements /\ new = {} /\ Hands(<<>>, new)
    OBVIOUS
  <2> HIDE DEF new
  <2>2. /\ new # {} => wire' = <<>> /\ \A n : Has(wire, n) => n \in shared'
        /\ \A m \in new : /\ m.first \in shared' /\ m.last \in shared'
                          /\ m.first <= m.last /\ m.last <= device.ln
    BY <2>1
  <2> QED  BY <1>1, <2>1, <2>2, MeasuredLossy
<1>4. InOrder'
  <2>1. shared \subseteq shared'
    BY DEF Lossy
  <2>2. \A j \in DOMAIN <<>> : FALSE
    OBVIOUS
  <2> QED  BY <1>1, <2>1, <2>2, OrderHanded
<1> QED  BY <1>2, <1>3, <1>4 DEF Made

(* No request puts anything, or keeps what it has not drained.              *)
KeepsItems ==
  \A q \in Requests : /\ req'[q].last \in {req[q].last, Null}
                      /\ req'[q].items \in {req[q].items, <<>>}

(* A step that only loses bytes and measurements.                           *)
LEMMA LossMade ==
  ASSUME TypeOK, TypeOK', Made, shared \subseteq shared', KeepsItems,
         queue' = queue \/ queue' = <<>> \/ (queue # <<>> /\ queue' = Tail(queue)),
         \/ UNCHANGED reader
         \/ Launch
         \/ \E k : /\ reader' = [j \in Readers |-> IF j = k THEN NoReader ELSE reader[j]]
                   /\ Held({k}) \subseteq shared',
         \/ UNCHANGED wire
         \/ wire' = <<>> /\ LinesIn(wire) \subseteq shared',
         \/ UNCHANGED device
         \/ Escaped
  PROVE  Made'
<1>1. Lossy
  BY LossyOf DEF Made
<1>2. Hands(<<>>, {})
  BY HandsNothing DEF KeepsItems
<1> QED  BY <1>1, <1>2, LossyMade

(* A request that returns or goes on puts nothing.                          *)
LEMMA ReturnKeeps ==
  ASSUME TypeOK, NEW r \in Requests,
         \/ Return(r)
         \/ \E st \in Stages : Go(r, st)
         \/ UNCHANGED req
  PROVE  KeepsItems
<1>1. req \in [Requests -> Request]
  BY DEF TypeOK
<1>2. CASE Return(r)
  <2>1. \A q \in Requests : req'[q] \in {req[q], NoRequest}
    BY <1>1, <1>2 DEF Return
  <2>2. NoRequest.last = Null /\ NoRequest.items = <<>>
    BY DEF NoRequest
  <2>3. ASSUME NEW q \in Requests
        PROVE  req'[q].last \in {req[q].last, Null} /\ req'[q].items \in {req[q].items, <<>>}
    BY <2>1, <2>2
  <2> QED  BY <2>3 DEF KeepsItems
<1>3. CASE \E st \in Stages : Go(r, st)
  <2>1. \A q \in Requests : req'[q].last = req[q].last /\ req'[q].items = req[q].items
    BY <1>1, <1>3 DEF Go, Request
  <2> QED  BY <2>1 DEF KeepsItems
<1>4. CASE UNCHANGED req
  BY <1>4 DEF KeepsItems
<1> QED  BY <1>2, <1>3, <1>4

(* Every step of a reader keeps the order.                                  *)
LEMMA ReaderMade ==
  ASSUME TypeOK, TypeOK', Made, NEW k \in Readers, ReaderStep(k)
  PROVE  Made'
<1>1. reader \in [Readers -> Reader] /\ req \in [Requests -> Request]
  BY DEF TypeOK
<1>2. CASE ReaderReads(k)
  BY <1>2, ReadsMade
<1>3. CASE ReaderEnds(k) \/ ReaderGivesUp(k)
  <2>1. /\ reader' = [reader EXCEPT ![k] = NoReader] /\ req' = NotDue(k)
        /\ shared' = shared \cup Held({k}) /\ UNCHANGED <<queue, wire, device>>
    BY <1>3 DEF ReaderEnds, ReaderGivesUp
  <2>2. reader' = [j \in Readers |-> IF j = k THEN NoReader ELSE reader[j]]
    BY <1>1, <2>1
  <2>3. \A q \in Requests : req'[q].last = req[q].last /\ req'[q].items = req[q].items
    BY <1>1, <2>1 DEF NotDue, Request
  <2> QED  BY <2>1, <2>2, <2>3, LossMade DEF KeepsItems
<1>4. CASE ReaderRetries(k)
  <2>1. /\ reader' = [reader EXCEPT ![k].st = "loop"] /\ req' = NotDue(k)
        /\ UNCHANGED <<queue, wire, device, shared>>
    BY <1>4 DEF ReaderRetries
  <2>2. \A q \in Requests : req'[q].last = req[q].last /\ req'[q].items = req[q].items
    BY <1>1, <2>1 DEF NotDue, Request
  <2>3. \A j \in Readers : /\ reader'[j].buffer = reader[j].buffer
                           /\ reader'[j].st \in {reader[j].st, "loop"}
    BY <1>1, <2>1 DEF Reader
  <2>4. Lossy
    BY <2>1, <2>3 DEF Lossy
  <2>5. Hands(<<>>, {})
    BY <2>1, <2>2, HandsNothing
  <2> QED  BY <2>4, <2>5, LossyMade
<1> QED  BY <1>2, <1>3, <1>4 DEF ReaderStep

(* Every step of the device and the link keeps the order.                   *)
LEMMA DeviceMade ==
  ASSUME TypeOK, TypeOK', Made, DeviceSends \/ LinkBreaks
  PROVE  Made'
<1>1. CASE DeviceSends
  BY <1>1, SendsMade
<1>2. CASE LinkBreaks
  <2>1. UNCHANGED <<reader, queue, req, wire, device, shared>>
    BY <1>2 DEF LinkBreaks
  <2>2. KeepsItems
    BY <2>1 DEF KeepsItems
  <2> QED  BY <2>1, <2>2, LossMade
<1> QED  BY <1>1, <1>2

(* A request that begins keeps the order.                                   *)
LEMMA BeginMade ==
  ASSUME TypeOK, TypeOK', Made, NEW r \in Requests, BeginOp(r)
  PROVE  Made'
<1>1. reader \in [Readers -> Reader] /\ req \in [Requests -> Request]
  BY DEF TypeOK
<1>2. ASSUME NEW op, NEW mode, BeginStop(r, op, mode) PROVE Made'
  <2>1. /\ reader' = [j \in Readers |-> IF j = task THEN NoReader ELSE reader[j]]
        /\ shared' = shared \cup Held({task}) /\ UNCHANGED <<queue, wire, device>>
        /\ req' = [req EXCEPT ![r] = [NoRequest EXCEPT !.op = op, !.st = "quiet", !.mode = mode]]
    BY <1>2 DEF BeginStop, CancelTask
  <2>2. KeepsItems
    BY <1>1, <2>1 DEF KeepsItems, NoRequest
  <2> QED  BY <2>1, <2>2, LossMade
<1>3. ASSUME BeginResume(r) PROVE Made'
  <2>1. /\ UNCHANGED <<reader, queue, wire, device, shared>>
        /\ req' = [req EXCEPT ![r] = [NoRequest EXCEPT !.op = "resume", !.st = "detect"]]
    BY <1>3 DEF BeginResume
  <2>2. KeepsItems
    BY <1>1, <2>1 DEF KeepsItems, NoRequest
  <2> QED  BY <2>1, <2>2, LossMade
<1>4. ASSUME NEW n, BeginCommand(r, n) PROVE Made'
  <2>1. /\ UNCHANGED <<reader, queue, wire, device, shared>>
        /\ req' = [req EXCEPT ![r] = [NoRequest EXCEPT !.op = "command", !.st = "send", !.left = n]]
    BY <1>4 DEF BeginCommand
  <2>2. KeepsItems
    BY <1>1, <2>1 DEF KeepsItems, NoRequest
  <2> QED  BY <2>1, <2>2, LossMade
<1>5. ASSUME SetModeOff(r) PROVE Made'
  <2>1. UNCHANGED <<reader, queue, req, wire, shared>> /\ (UNCHANGED device \/ Escaped)
    BY <1>5 DEF SetModeOff
  <2>2. KeepsItems
    BY <2>1 DEF KeepsItems
  <2> QED  BY <2>1, <2>2, LossMade
<1>6. ASSUME Reconnect(r) PROVE Made'
  <2>1. /\ UNCHANGED <<reader, queue>> /\ wire' = <<>> /\ Escaped
        /\ shared \subseteq shared' /\ LinesIn(wire) \subseteq shared'
        /\ req' = [req EXCEPT ![r] = [NoRequest EXCEPT !.op = "reconnect", !.st = "clear"]]
    BY <1>6 DEF Reconnect
  <2>2. KeepsItems
    BY <1>1, <2>1 DEF KeepsItems, NoRequest
  <2> QED  BY <2>1, <2>2, LossMade
<1> QED  BY <1>2, <1>3, <1>4, <1>5, <1>6
         DEF BeginOp, QueryRoute, ParameterRoute, ConfigRoute, MeasureRoute

(* The device begins a new line when it is told to stream.                  *)
LEMMA SendCommandMade ==
  ASSUME TypeOK, TypeOK', Made, NEW r \in Requests, SendCommand(r)
  PROVE  Made'
<1>1. req \in [Requests -> Request] /\ device \in Device /\ req[r].mode \in Modes
  BY DEF TypeOK, Request
<1>2. CASE link = "up"
  <2>1. /\ UNCHANGED <<reader, queue>> /\ wire' = <<>>
        /\ shared' = shared \cup LinesIn(wire) \cup CutBy(req[r].op)
        /\ req' = [req EXCEPT ![r].st = "answer", ![r].due = Live]
        /\ device' = IF req[r].op = "start" THEN Streaming(req[r].mode) ELSE device
    BY <1>2 DEF SendCommand
  <2>2. Hands(<<>>, {})
    <3>1. \A q \in Requests : req'[q].last = req[q].last /\ req'[q].items = req[q].items
      BY <1>1, <2>1 DEF Request
    <3> QED  BY <2>1, <3>1, HandsNothing
  <2>3. \/ device'.ln = device.ln /\ device'.pos = device.pos /\ device'.mode = device.mode
        \/ device'.ln = device.ln /\ device'.pos = 0 /\ device.pos = 0
        \/ device'.ln = device.ln + 1 /\ device'.pos = 0 /\ device.pos # 0 /\ device.ln \in shared'
    <3>1. CASE req[r].op # "start"
      BY <2>1, <3>1
    <3>2. CASE req[r].op = "start"
      <4>1. device' = Streaming(req[r].mode) /\ (device.pos > 0 => device.ln \in shared')
        BY <2>1, <3>2 DEF CutBy
      <4>2. device.pos # 0 => device.pos > 0
        BY <1>1 DEF Device
      <4> QED  BY <1>1, <4>1, <4>2, StreamingType
    <3> QED  BY <3>1, <3>2
  <2>4. \A n : Has(wire, n) => n \in shared'
    BY <2>1, LinesInIs
  <2>5. Lossy
    BY <2>1, <2>3, <2>4 DEF Lossy
  <2> QED  BY <2>2, <2>5, LossyMade
<1>3. CASE link # "up"
  <2>1. UNCHANGED <<reader, queue, wire, shared, device>> /\ Return(r)
    BY <1>3 DEF SendCommand
  <2> QED  BY <2>1, ReturnKeeps, LossMade
<1> QED  BY <1>2, <1>3

-----------------------------------------------------------------------------
(* The steps that put what a request took from the wire.                    *)

(* What is made of a taken wire is of lines that are shared from now on.    *)
LEMMA TakenReads ==
  ASSUME TypeOK, Stream, Taken(wire), NEW es, NEW ms, Reads(wire, es, ms)
  PROVE  \A m \in Range(ms) :
           /\ m \in Measurements /\ m.first \in shared' /\ m.last \in shared'
           /\ m.first <= m.last /\ m.last <= device.ln
<1>1. Sorted(wire) /\ SentBy(wire, device) /\ ms \in Seq(Measurements)
  BY DEF Stream, Behind, Reads
<1>2. \A i \in DOMAIN wire : wire[i].ln \in shared'
  BY DEF Taken, LinesIn, Range
<1>3. ASSUME NEW i \in DOMAIN ms
      PROVE  /\ ms[i] \in Measurements /\ ms[i].first \in shared' /\ ms[i].last \in shared'
             /\ ms[i].first <= ms[i].last /\ ms[i].last <= device.ln
  <2> DEFINE e == Nth(es, i)
             b == Before(wire, e)
  <2>1. /\ e - 1 \in DOMAIN wire /\ b + 1 \in DOMAIN wire /\ b + 1 <= e - 1
        /\ ms[i].first = wire[b + 1].ln /\ ms[i].last = wire[e - 1].ln
    BY DEF Reads
  <2> HIDE DEF e, b
  <2>2. ms[i] \in Measurements
    BY <1>1
  <2> QED  BY <1>1, <1>2, <2>1, <2>2 DEF Sorted, SentBy
<1> QED  BY <1>3 DEF Range

(* PutAll moves the first items to the queue, and keeps the rest.           *)
LEMMA PutsHands ==
  ASSUME TypeOK, NEW r \in Requests, NEW op \in {"resume", "reconnect"},
         NEW items \in Seq(Measurements), NEW n \in 0..Len(items), Puts(r, op, items, n),
         NEW new, Range(items) \subseteq Items \cup new
  PROVE  /\ SubSeq(items, 1, n) \in Seq(Measurements)
         /\ Range(SubSeq(items, 1, n)) \subseteq Range(items)
         /\ Hands(SubSeq(items, 1, n), new)
<1> DEFINE ms == SubSeq(items, 1, n)
           rest == SubSeq(items, n + 1, Len(items))
<1>1. queue \in Seq(Measurements) /\ req \in [Requests -> Request] /\ Len(items) \in Nat /\ n \in Nat
  BY DEF TypeOK
<1>2. /\ ms \in Seq(Measurements) /\ \A i \in DOMAIN ms : i \in DOMAIN items /\ ms[i] = items[i]
  BY <1>1
<1>3. \A i \in DOMAIN rest : n + i \in DOMAIN items /\ rest[i] = items[n + i]
  BY <1>1
<1>4. Range(ms) \subseteq Range(items) /\ Range(rest) \subseteq Range(items)
  <2> HIDE DEF ms, rest
  <2> QED  BY <1>2, <1>3 DEF Range
<1>p. /\ queue' = queue \o ms
      /\ n < Len(items) =>
           req' = [req EXCEPT ![r] = [NoRequest EXCEPT !.op = op, !.st = "put", !.items = rest]]
      /\ n = Len(items) =>
           req' = [req EXCEPT ![r] = IF op = "resume"
                     THEN [NoRequest EXCEPT !.op = "poll", !.st = "reply"] ELSE NoRequest]
  BY DEF Puts
<1> HIDE DEF ms, rest
<1>5. Drops(queue', queue \o ms)
  <2> DEFINE all == queue \o ms
  <2>1. all \in Seq(Measurements)
    BY <1>1, <1>2
  <2> HIDE DEF all
  <2>2. Len(all) = Len(all) + 0 /\ \A i \in DOMAIN all : 0 + i \in DOMAIN all /\ all[i] = all[0 + i]
    BY <2>1
  <2>3. Drops(all, all)
    BY <2>2 DEF Drops
  <2> QED  BY <1>p, <2>3 DEF all
<1>6. ASSUME NEW q \in Requests
      PROVE  /\ req'[q].last \in {req[q].last, Null}
             /\ Range(req'[q].items) \subseteq Items \cup new
  <2>1. CASE q # r
    <3>1. req'[q] = req[q]
      BY <1>1, <1>p, <2>1
    <3> QED  BY <3>1 DEF Items
  <2>2. CASE q = r /\ n < Len(items)
    <3>1. req'[r].last = Null /\ req'[r].items = rest
      <4> DEFINE R == [NoRequest EXCEPT !.op = op, !.st = "put", !.items = rest]
      <4>1. R.last = Null /\ R.items = rest
        BY DEF NoRequest
      <4>2. req' = [req EXCEPT ![r] = R]
        BY <1>p, <2>2
      <4> HIDE DEF R
      <4> QED  BY <1>1, <4>1, <4>2
    <3> QED  BY <1>4, <2>2, <3>1
  <2>3. CASE q = r /\ n = Len(items)
    <3>0. \/ req' = [req EXCEPT ![r] = [NoRequest EXCEPT !.op = "poll", !.st = "reply"]]
          \/ req' = [req EXCEPT ![r] = NoRequest]
      <4>1. CASE op = "resume"
        BY <1>p, <2>3, <4>1
      <4>2. CASE op # "resume"
        BY <1>p, <2>3, <4>2
      <4> QED  BY <4>1, <4>2
    <3>1. req'[r].last = Null /\ req'[r].items = <<>>
      <4>1. CASE req' = [req EXCEPT ![r] = [NoRequest EXCEPT !.op = "poll", !.st = "reply"]]
        BY <1>1, <4>1 DEF NoRequest
      <4>2. CASE req' = [req EXCEPT ![r] = NoRequest]
        BY <1>1, <4>2 DEF NoRequest
      <4> QED  BY <3>0, <4>1, <4>2
    <3>2. Range(<<>>) = {}
      BY DEF Range
    <3> QED  BY <2>3, <3>1, <3>2
  <2> QED  BY <1>1, <2>1, <2>2, <2>3
<1>7. \A q \in Requests : req[q].last \in Delivered
  BY DEF Delivered
<1>8. Hands(ms, new)
  BY <1>4, <1>5, <1>6, <1>7 DEF Hands
<1> QED  BY <1>2, <1>4, <1>8 DEF ms

(* Measurements of shared lines may be put at any time.                     *)
LEMMA PutMade ==
  ASSUME TypeOK, TypeOK', Made, NEW r \in Requests, NEW op \in {"resume", "reconnect"},
         NEW items \in Seq(Measurements), PutAll(r, op, items),
         shared \subseteq shared', UNCHANGED device,
         NEW new, new \subseteq Measurements, Range(items) \subseteq Items \cup new,
         \/ UNCHANGED wire /\ new = {}
         \/ wire' = <<>> /\ LinesIn(wire) \subseteq shared',
         \A m \in new : /\ m.first \in shared' /\ m.last \in shared'
                        /\ m.first <= m.last /\ m.last <= device.ln
  PROVE  Made'
<1>p. PICK n \in 0..Len(items) : Puts(r, op, items, n)
  BY PutAllDoes
<1> DEFINE ms == SubSeq(items, 1, n)
<1>1. ms \in Seq(Measurements) /\ Range(ms) \subseteq Range(items) /\ Hands(ms, new)
  BY <1>p, PutsHands
<1> HIDE DEF ms
<1>2. UNCHANGED reader \/ Launch
  <2>1. n < Len(items) \/ n = Len(items)
    OBVIOUS
  <2> QED  BY <1>p, <2>1 DEF Puts
<1>3. Stream /\ Measured /\ InOrder
  BY DEF Made
<1>4. Lossy
  BY <1>2, <1>3, LossyOf
<1>5. Stream'
  BY <1>3, <1>4, LossyStream
<1>6. Measured'
  <2>1. new # {} => wire' = <<>> /\ \A n_1 : Has(wire, n_1) => n_1 \in shared'
    BY LinesInIs
  <2> QED  BY <1>1, <1>3, <1>4, <2>1, MeasuredLossy
<1>7. InOrder'
  <2>1. ASSUME NEW j \in DOMAIN ms PROVE ~PrivateIn(ms[j], shared')
    <3>1. ms[j] \in Items \cup new /\ ms[j] \in Measurements
      BY <1>1 DEF Range
    <3>2. ms[j].last \in shared' /\ ms[j].first <= ms[j].last
      BY <1>3, <3>1 DEF Measured
    <3>3. ms[j].first \in Nat /\ ms[j].last \in Nat
      BY <3>1, MeasurementTypes
    <3>4. ms[j].last \in ms[j].first..ms[j].last
      BY <3>2, <3>3
    <3> QED  BY <3>2, <3>4 DEF PrivateIn
  <2> QED  BY <1>1, <1>3, <2>1, OrderHanded
<1> QED  BY <1>5, <1>6, <1>7 DEF Made

(* Every step of a request keeps the order.                                 *)
LEMMA RequestMade ==
  ASSUME TypeOK, TypeOK', Staged, Made, NEW r \in Requests, RequestStep(r)
  PROVE  Made'
<1>1. req \in [Requests -> Request] /\ wire \in Seq(Field) /\ queue \in Seq(Measurements)
  BY DEF TypeOK
<1>2. CASE StopContinuous(r)
  <2>1. /\ queue' = <<>> /\ UNCHANGED <<reader, wire, shared>>
        /\ UNCHANGED device \/ Escaped
        /\ Return(r) \/ Go(r, "send")
    BY <1>2 DEF StopContinuous
  <2>2. KeepsItems
    BY <2>1, ReturnKeeps DEF Stages
  <2> QED  BY <2>1, <2>2, LossMade
<1>3. CASE SendCommand(r)
  BY <1>3, SendCommandMade
<1>4. CASE StartAnswered(r)
  <2>1. UNCHANGED <<queue, device>> /\ Taken(wire) /\ Launch /\ Return(r)
    BY <1>4 DEF StartAnswered
  <2> QED  BY <2>1, ReturnKeeps, LossMade DEF Taken
<1>5. CASE CommandAnswered(r) \/ NoAnswer(r)
  <2>1. /\ UNCHANGED <<reader, queue, device>> /\ Taken(wire)
        /\ Return(r) \/ req' = [req EXCEPT ![r].st = "send", ![r].left = @ - 1]
    BY <1>5 DEF CommandAnswered, NoAnswer
  <2>2. CASE Return(r)
    BY <2>1, <2>2, ReturnKeeps, LossMade DEF Taken
  <2>3. CASE req' = [req EXCEPT ![r].st = "send", ![r].left = @ - 1]
    <3>1. \A q \in Requests : req'[q].last = req[q].last /\ req'[q].items = req[q].items
      BY <1>1, <2>3 DEF Request
    <3> QED  BY <2>1, <3>1, LossMade DEF Taken, KeepsItems
  <2> QED  BY <2>1, <2>2, <2>3
<1>6. CASE DetectNothing(r)
  <2>1. /\ UNCHANGED <<reader, queue, device>> /\ Return(r)
        /\ Taken(wire) \/ UNCHANGED <<wire, shared>>
    BY <1>6 DEF DetectNothing
  <2> QED  BY <2>1, ReturnKeeps, LossMade DEF Taken
<1>7. CASE DetectPartial(r)
  <2>1. UNCHANGED <<reader, queue>> /\ Taken(wire) /\ Escaped /\ Go(r, "escape")
    BY <1>7 DEF DetectPartial
  <2>2. KeepsItems
    BY <2>1, ReturnKeeps DEF Stages
  <2> QED  BY <2>1, <2>2, LossMade DEF Taken
<1>8. CASE DetectEscaped(r) \/ CheckSilence(r) \/ NoStream(r) \/ NoFresh(r)
  <2>1. UNCHANGED <<reader, queue, wire, device, shared>> /\ Return(r)
    BY <1>8 DEF DetectEscaped, CheckSilence, NoStream, NoFresh
  <2> QED  BY <2>1, ReturnKeeps, LossMade
<1>9. CASE Detect(r)
  <2>1. UNCHANGED device /\ Taken(wire)
    BY <1>9 DEF Detect
  <2>2. CASE Detected(wire) # <<>>
    <3>1. PutAll(r, "resume", Detected(wire))
      BY <1>9, <2>2 DEF Detect
    <3> DEFINE items == Detected(wire)
    <3>2. /\ items \in Seq(Measurements)
          /\ \E es : Reads(wire, es, items)
      BY <1>1, DetectedIs
    <3> HIDE DEF items
    <3>3. \A m \in Range(items) :
            /\ m \in Measurements /\ m.first \in shared' /\ m.last \in shared'
            /\ m.first <= m.last /\ m.last <= device.ln
      BY <2>1, <3>2, TakenReads DEF Made
    <3> QED  BY <2>1, <3>1, <3>2, <3>3, PutMade DEF Taken, items
  <2>3. CASE Detected(wire) = <<>>
    <3>1. UNCHANGED <<reader, queue>> /\ Return(r)
      BY <1>9, <2>3 DEF Detect
    <3> QED  BY <2>1, <3>1, ReturnKeeps, LossMade DEF Taken
  <2> QED  BY <2>2, <2>3
<1>10. CASE PutOn(r)
  <2>1. PutAll(r, req[r].op, req[r].items) /\ UNCHANGED <<wire, device, shared>>
    BY <1>10 DEF PutOn
  <2>2. req[r].op \in {"resume", "reconnect"} /\ req[r].items \in Seq(Measurements)
    BY <1>1, <1>10 DEF PutOn, Staged, Request
  <2> DEFINE new == {}
             items == req[r].items
             op == req[r].op
  <2>3. /\ new \subseteq Measurements /\ new = {} /\ Range(items) \subseteq Items \cup new
        /\ PutAll(r, op, items) /\ op \in {"resume", "reconnect"} /\ items \in Seq(Measurements)
    BY <2>1, <2>2 DEF Items
  <2> HIDE DEF new, items, op
  <2>4. \A m \in new : /\ m.first \in shared' /\ m.last \in shared'
                       /\ m.first <= m.last /\ m.last <= device.ln
    BY <2>3
  <2> QED  BY <2>1, <2>3, <2>4, PutMade
<1>11. CASE CheckData(r)
  <2> DEFINE items == InTurn(wire, Pieces(wire), AsDistance)
  <2>1. UNCHANGED device /\ Taken(wire) /\ PutAll(r, "reconnect", items)
    BY <1>11 DEF CheckData
  <2>2. items \in Seq(Measurements) /\ \E es : Reads(wire, es, items)
    BY <1>1, AsDistanceIs
  <2> HIDE DEF items
  <2>3. \A m \in Range(items) :
          /\ m \in Measurements /\ m.first \in shared' /\ m.last \in shared'
          /\ m.first <= m.last /\ m.last <= device.ln
    BY <2>1, <2>2, TakenReads DEF Made
  <2> QED  BY <2>1, <2>2, <2>3, PutMade DEF Taken
<1>12. CASE Drain(r)
  <2>1. /\ UNCHANGED <<reader, wire, device, shared>> /\ queue' = <<>>
        /\ req' = [req EXCEPT ![r] = [NoRequest EXCEPT !.op = "poll", !.st = "fresh", !.last = Drained]]
    BY <1>12 DEF Drain
  <2>2. Drained \in Delivered \cup {Null}
    BY DrainedType DEF Delivered, Drained
  <2>3. ASSUME NEW q \in Requests
        PROVE  req'[q].last \in Delivered \cup {Null} /\ Range(req'[q].items) \subseteq Items
    <3>1. CASE q # r
      <4>1. req'[q] = req[q]
        BY <1>1, <2>1, <3>1
      <4> QED  BY <4>1 DEF Delivered, Items
    <3>2. CASE q = r
      <4>1. req'[r].last = Drained /\ req'[r].items = <<>>
        BY <1>1, <2>1 DEF NoRequest
      <4>2. Range(<<>>) = {}
        BY DEF Range
      <4> QED  BY <2>2, <3>2, <4>1, <4>2
    <3> QED  BY <3>1, <3>2
  <2>4. Range(<<>>) = {}
    BY DEF Range
  <2>5. Hands(<<>>, {})
    BY <2>1, <2>3, <2>4 DEF Hands
  <2>6. Lossy
    BY <2>1, LossyOf DEF Made
  <2> QED  BY <2>5, <2>6, LossyMade
<1>13. CASE Fresh(r)
  <2>1. /\ UNCHANGED <<reader, wire, device, shared>> /\ Return(r)
        /\ queue # <<>> /\ queue' = Tail(queue)
    BY <1>13 DEF Fresh
  <2> QED  BY <2>1, ReturnKeeps, LossMade
<1> QED  BY <1>2, <1>3, <1>4, <1>5, <1>6, <1>7, <1>8, <1>9, <1>10, <1>11, <1>12, <1>13
         DEF RequestStep

(* Every step keeps the order of bytes and measurements.                    *)
LEMMA NextMade ==
  ASSUME TypeOK, TypeOK', Staged, Made, [Next]_vars
  PROVE  Made'
<1>1. CASE UNCHANGED vars
  <2>1. UNCHANGED <<reader, queue, req, wire, device, shared>>
    BY <1>1 DEF vars
  <2>2. KeepsItems
    BY <2>1 DEF KeepsItems
  <2> QED  BY <2>1, <2>2, LossMade
<1> QED  BY <1>1, ReaderMade, DeviceMade, BeginMade, RequestMade DEF Next

-----------------------------------------------------------------------------
(* The theorems.                                                            *)

(* The inductive invariant: the types, what the waiting requests are there  *)
(* for, that a stream has a reader, and where the bytes and the             *)
(* measurements are.                                                        *)
IInv == TypeOK /\ Staged /\ Fed /\ Made

(* Nothing is under way in the beginning.                                   *)
LEMMA InitIInv ==
  ASSUME Init
  PROVE  IInv
<1>1. /\ \A n : ~Has(<<>>, n)
      /\ Ends(<<>>) = {} /\ Sorted(<<>>) /\ \A d : SentBy(<<>>, d)
      /\ Range(<<>>) = {} /\ <<>> \in Seq(Measurements) /\ <<>> \in Seq(Field)
  BY DEF Has, Ends, Sorted, SentBy, Range
<1>2. QueueMax >= 0
  BY ReaderAssumption
<1>3. TypeOK
  <2>1. device \in Device
    BY DEF Init, Device, Modes
  <2> QED  BY <1>1, <1>2, <2>1, NullType DEF Init, TypeOK
<1>4. Staged /\ Fed
  BY DEF Init, Staged, Fed, At, NoRequest
<1>5. \A k \in Readers : reader[k].buffer = <<>> /\ \A n : ~Holds(k, n)
  BY <1>1 DEF Init, NoReader, Holds
<1>6. Buffers
  <2>1. \A k \in Readers : View(k) = <<>>
    BY <1>5 DEF View, Init
  <2> QED  BY <1>1, <1>5, <2>1 DEF Buffers
<1>7. device.ln = 1 /\ device.pos = 0 /\ device.mode = "VT" /\ wire = <<>>
  BY DEF Init
<1>8. Behind
  <2>1. 0 < Len(LineOf("VT"))
    BY LineOfIs DEF Modes
  <2> QED  BY <1>1, <1>5, <1>7, <2>1 DEF Behind
<1>9. Placed
  <2>1. ~(device.pos > 0)
    BY <1>7
  <2> QED  BY <1>1, <1>5, <1>7, <2>1 DEF Placed
<1>10. Items = {} /\ Delivered \subseteq {Null}
  <2>1. queue = <<>> /\ \A r \in Requests : req[r].items = <<>> /\ req[r].last = Null
    BY DEF Init, NoRequest
  <2> QED  BY <1>1, <2>1 DEF Items, Delivered
<1>11. Measured
  <2>1. Faithful(Null) /\ Null.first = 0 /\ Null.last = 0
    BY DEF Null, Faithful, NoField
  <2> QED  BY <1>7, <1>10, <2>1 DEF Measured
<1>12. InOrder
  BY DEF Init, InOrder
<1> QED  BY <1>3, <1>4, <1>6, <1>8, <1>9, <1>11, <1>12 DEF IInv, Made, Stream

(* Whatever the requests, the readers, the device and the link do in        *)
(* whatever order, the inductive invariant holds.                           *)
THEOREM ReaderInvariant == Spec => []IInv
<1>1. Init => IInv
  BY InitIInv
<1>2. IInv /\ [Next]_vars => IInv'
  <2>1. SUFFICES ASSUME IInv, [Next]_vars PROVE IInv'
    OBVIOUS
  <2>2. TypeOK /\ Staged /\ Fed /\ Made
    BY <2>1 DEF IInv
  <2>3. TypeOK'
    BY <2>1, <2>2, NextTypes
  <2>4. Staged' /\ Fed'
    BY <2>1, <2>2, NextFed
  <2>5. Made'
    BY <2>1, <2>2, <2>3, NextMade
  <2> QED  BY <2>3, <2>4, <2>5 DEF IInv
<1> QED  BY <1>1, <1>2, PTL DEF Spec

(* The variables of the continuous reader keep their types, and the queue   *)
(* never holds more than its maximum: the reader drops the oldest, a resume *)
(* waits for room.                                                          *)
THEOREM ReaderTypeCorrect == Spec => []TypeOK
<1>1. IInv => TypeOK
  BY DEF IInv
<1> QED  BY <1>1, ReaderInvariant, PTL

(* _read_continuous_data puts every line together again, wherever the reads *)
(* cut it: a measurement whose values are not those of one line is of a     *)
(* line that a flush, a second reader, a cancelled reader or a new          *)
(* connection took a part of.                                               *)
THEOREM LinesStayWhole == Spec => []Whole
<1>1. IInv => Whole
  <2>1. SUFFICES ASSUME IInv, NEW m \in Delivered, ~Faithful(m)
                 PROVE  \E n \in m.first..m.last : n \in shared
    BY DEF Whole
  <2>2. m.first \in shared /\ m.first <= m.last
    BY <2>1 DEF IInv, Made, Measured
  <2>3. m.first \in Nat /\ m.last \in Nat
    BY <2>1, MeasurementTypes DEF IInv
  <2>4. m.first \in m.first..m.last
    BY <2>2, <2>3
  <2> QED  BY <2>2, <2>4
<1> QED  BY <1>1, ReaderInvariant, PTL

(* When no request is on its way, a laser whose _continuous_mode is set has *)
(* a reader, unless one gave up on a broken link.                           *)
THEOREM ContinuousStaysBacked == Spec => []Backed
<1>1. IInv => Backed
  <2>1. SUFFICES ASSUME IInv, Quiescent, continuous, ~gaveUp PROVE Live # {}
    BY DEF Backed
  <2>2. \A r \in Requests : ~At(r, "quiet") /\ ~At(r, "put")
    BY <2>1 DEF Quiescent, IInv, Staged, At
  <2>3. \E k \in Readers : reader[k].st \in {"new", "loop"}
    BY <2>1, <2>2 DEF IInv, Fed
  <2> QED  BY <2>3 DEF Live
<1> QED  BY <1>1, ReaderInvariant, PTL

(* The queue holds the measurements of private lines in the order in which  *)
(* the device sent them, each once, and get_continuous_data never has in    *)
(* its hand a newer one than what it will find next.                        *)
THEOREM MeasurementsInOrder == Spec => []InOrder
<1>1. IInv => InOrder
  BY DEF IInv, Made
<1> QED  BY <1>1, ReaderInvariant, PTL
=============================================================================
