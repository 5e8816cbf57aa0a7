------------------------ MODULE PatternSearchProofs -------------------------
(***************************************************************************)
(* The signature search of searchers.h, for every signature and every      *)
(* section: compiling a signature of whole bytes loses nothing, so the     *)
(* search ends at the first place the signature denotes.  The invariant    *)
(* says what compile_pattern has kept after each character; that it is     *)
(* enough is a matter of the ranks of the digits and wildcards.            *)
(***************************************************************************)
EXTENDS PatternSearch, FiniteSetTheorems, WellFoundedInduction, TLAPS

Masked == [value : Bytes, mask : SUBSET Shifts]

\* The masked byte a digit or wildcard belongs to, and its half, by its rank.
ByteOf(k) == 1 + (k - 1) \div 2
HalfOf(k) == IF k % 2 = 1 THEN 4 ELSE 0

\* The masked bytes built so far, the one being built among them.
Masks == IF shift = 0 THEN Append(compiled, b) ELSE compiled

\* The digits and wildcards that have been read.
Before == {j \in Marks : j < next}

\* The half s of the masked byte p stands for the digit or wildcard c.
Says(p, s, c) ==
  IF c = Any THEN s \notin p.mask ELSE s \in p.mask /\ p.value[s] = c

Typed ==
  /\ pattern \in Seq(Chars) /\ data \in Seq(Bytes)
  /\ next \in 1..Len(pattern) + 1
  /\ b \in Masked /\ shift \in Shifts /\ compiled \in Seq(Masked)

Half0Kept == IF shift = 4 THEN b = Cleared ELSE 0 \in b.mask

Counted ==
  Cardinality(Before) = 2 * Len(compiled) + IF shift = 0 THEN 1 ELSE 0

\* The ranks of what has been read are the numbers up to how much it is.
Ranked ==
  /\ \A j \in Before : Rank(j) \in 1..Cardinality(Before)
  /\ \A k \in 1..Cardinality(Before) : \E j \in Before : Rank(j) = k

Kept ==
  \A j \in Before : Says(Masks[ByteOf(Rank(j))], HalfOf(Rank(j)), pattern[j])

SearchInv ==
  /\ Typed
  /\ result = 0 => Half0Kept /\ Counted /\ Ranked /\ Kept
  /\ FindsFirst
-----------------------------------------------------------------------------
(***************************************************************************)
(* Numbers and ranks                                                       *)
(***************************************************************************)

\* A nonempty set of naturals has a least element: what CHOOSE picks exists.
LEMMA Smallest ==
  ASSUME NEW T, T \subseteq Nat, T # {}
  PROVE  \E x \in T : \A y \in T : x <= y
<1> DEFINE R == {ss \in Nat \X Nat : ss[1] < ss[2]}
<1>1. OpToRel(<, Nat) = R
  BY DEF OpToRel
<1>2. IsWellFoundedOn(R, Nat)
  BY <1>1, NatLessThanWellFounded
<1> HIDE DEF R
<1>3. PICK x \in T : \A y \in T : ~(<<y, x>> \in R)
  BY <1>2, WFMin
<1>4. ASSUME NEW y \in T PROVE x <= y
  <2>1. x \in Nat /\ y \in Nat /\ ~(<<y, x>> \in R)
    BY <1>3
  <2>2. <<y, x>> \in Nat \X Nat
    BY <2>1
  <2>3. ~(y < x)
    BY <2>1, <2>2 DEF R
  <2>4. QED BY <2>1, <2>3
<1>5. QED BY <1>4

\* The odd ranks are the high halves of the bytes, the even ones the low.
LEMMA Odd ==
  ASSUME NEW m \in Nat
  PROVE  ByteOf(2 * m + 1) = m + 1 /\ HalfOf(2 * m + 1) = 4
BY DEF ByteOf, HalfOf

LEMMA Even ==
  ASSUME NEW m \in Nat
  PROVE  ByteOf(2 * m + 2) = m + 1 /\ HalfOf(2 * m + 2) = 0
BY DEF ByteOf, HalfOf

LEMMA OddOrEven ==
  ASSUME NEW n \in Nat, NEW k \in 1..n
  PROVE  /\ \E m \in Nat : k = 2 * m + 1 \/ k = 2 * m + 2
         /\ ByteOf(k) \in Nat /\ 1 <= ByteOf(k) /\ 2 * ByteOf(k) <= n + 1
         /\ HalfOf(k) \in Shifts
<1>1. PICK m \in Nat : k = 2 * m + 1 \/ k = 2 * m + 2
  <2>1. (k - 1) \div 2 \in Nat /\ (k = 2 * ((k - 1) \div 2) + 1 \/ k = 2 * ((k - 1) \div 2) + 2)
    OBVIOUS
  <2>2. QED BY <2>1
<1>2. CASE k = 2 * m + 1
  BY <1>2, Odd DEF Shifts
<1>3. CASE k = 2 * m + 2
  BY <1>3, Even DEF Shifts
<1>4. QED BY <1>1, <1>2, <1>3

\* The sets of the digits and wildcards are finite.
LEMMA MarksFinite ==
  ASSUME pattern \in Seq(Chars)
  PROVE  /\ Marks \subseteq 1..Len(pattern) /\ IsFiniteSet(Marks)
         /\ \A T \in SUBSET Marks : IsFiniteSet(T) /\ Cardinality(T) \in Nat
<1>1. Len(pattern) \in Nat /\ Marks \subseteq 1..Len(pattern)
  BY DEF Marks
<1>2. IsFiniteSet(1..Len(pattern))
  BY <1>1, FS_Interval
<1>3. IsFiniteSet(Marks)
  BY <1>1, <1>2, FS_Subset
<1>4. QED BY <1>1, <1>3, FS_Subset, FS_CardinalityType
-----------------------------------------------------------------------------
(***************************************************************************)
(* compile_pattern                                                         *)
(***************************************************************************)

\* The half s of p is as it was in the byte being built.
AsBefore(p, s) == p.value[s] = b.value[s] /\ (s \in p.mask <=> s \in b.mask)

\* A digit or a wildcard sets the half it is placed in and no other.
LEMMA BuiltSays ==
  ASSUME ConstantsAssumption, Typed, Half0Kept, NEW c \in Nibbles \union {Any}
  PROVE  /\ Built(c) \in Masked
         /\ Says(Built(c), shift, c)
         /\ AsBefore(Built(c), 4 - shift)
<1>1. b \in Masked /\ shift \in Shifts /\ Any \notin Nibbles
  BY DEF Typed, ConstantsAssumption
<1>2. shift \in b.mask
  <2>1. CASE shift = 4
    <3>1. b = Cleared
      BY <2>1 DEF Half0Kept
    <3>2. QED BY <3>1, <1>1 DEF Cleared
  <2>2. CASE shift = 0
    BY <2>2 DEF Half0Kept
  <2>3. QED BY <1>1, <2>1, <2>2 DEF Shifts
<1>3. CASE c = Any
  <2>1. Built(c) = [b EXCEPT !.mask = b.mask \ {shift}]
    BY <1>3 DEF Built, Wildcard
  <2>2. /\ Built(c) \in Masked /\ Built(c).value = b.value
        /\ Built(c).mask = b.mask \ {shift}
    BY <1>1, <2>1 DEF Masked
  <2>3. 4 - shift # shift
    BY <1>1 DEF Shifts
  <2>4. QED BY <1>3, <2>2, <2>3 DEF Says, AsBefore
<1>4. CASE c # Any
  <2>1. Built(c) = [b EXCEPT !.value = [b.value EXCEPT ![shift] = c]]
    BY <1>4 DEF Built, Digit
  <2>2. /\ Built(c) \in Masked /\ Built(c).mask = b.mask
        /\ Built(c).value = [b.value EXCEPT ![shift] = c]
    BY <1>1, <1>4, <2>1 DEF Masked, Bytes
  <2>3. b.value \in [Shifts -> Nibbles]
    BY <1>1 DEF Masked, Bytes
  <2>4. 4 - shift # shift /\ 4 - shift \in Shifts
    BY <1>1 DEF Shifts
  <2>5. Says(Built(c), shift, c)
    BY <1>1, <1>2, <1>4, <2>2, <2>3 DEF Says
  <2>6. AsBefore(Built(c), 4 - shift)
    BY <1>1, <2>2, <2>3, <2>4 DEF AsBefore
  <2>7. QED BY <2>2, <2>5, <2>6
<1>5. QED BY <1>3, <1>4

\* Reading a digit or a wildcard gives it the next rank.
LEMMA NextRank ==
  ASSUME Typed, next \in Marks
  PROVE  /\ {j \in Marks : j < next + 1} = Before \union {next}
         /\ Cardinality(Before) \in Nat
         /\ Cardinality(Before \union {next}) = Cardinality(Before) + 1
         /\ Rank(next) = Cardinality(Before) + 1
<1>1. Marks \subseteq 1..Len(pattern) /\ IsFiniteSet(Before) /\ Cardinality(Before) \in Nat
  <2>1. Before \in SUBSET Marks
    BY DEF Before
  <2>2. QED BY <2>1, MarksFinite DEF Typed
<1>2. next \notin Before /\ next \in Nat
  BY DEF Before, Typed
<1>3. /\ {j \in Marks : j < next + 1} = Before \union {next}
      /\ {j \in Marks : j <= next} = Before \union {next}
  <2>1. ASSUME NEW j
        PROVE  /\ j \in {m \in Marks : m < next + 1} <=> j \in Before \union {next}
               /\ j \in {m \in Marks : m <= next} <=> j \in Before \union {next}
    <3>1. CASE j \in Marks
      <4>1. j \in Before <=> j < next
        BY <3>1 DEF Before
      <4>2. j \in Nat
        BY <3>1, <1>1
      <4>3. j \in Before \union {next} <=> j < next \/ j = next
        BY <4>1
      <4>4. QED BY <3>1, <4>2, <4>3, <1>2
    <3>2. CASE j \notin Marks
      BY <3>2 DEF Before
    <3>3. QED BY <3>1, <3>2
  <2>2. QED BY <2>1, Zenon
<1>4. Cardinality(Before \union {next}) = Cardinality(Before) + 1
  BY <1>1, <1>2, FS_AddElement
<1>5. QED BY <1>1, <1>3, <1>4 DEF Rank

\* A character that is passed over has no rank.
LEMMA NoRank ==
  ASSUME Typed, next \notin Marks
  PROVE  {j \in Marks : j < next + 1} = Before
<1>1. Marks \subseteq 1..Len(pattern) /\ next \in Nat
  BY MarksFinite DEF Typed
<1>2. \A j \in Marks : j \in Nat /\ j # next
  BY <1>1
<1>3. \A j \in Marks : j < next + 1 <=> j < next
  BY <1>1, <1>2
<1>4. QED BY <1>3 DEF Before

\* What a step of the compilation does to the names of the invariant.
LEMMA ReadFrame ==
  ASSUME Typed, Read
  PROVE  /\ Marks' = Marks /\ \A j : Rank(j)' = Rank(j)
         /\ Before' = {j \in Marks : j < next + 1}
         /\ next \in Marks <=> pattern[next] # Other
<1>1. pattern' = pattern /\ next' = next + 1 /\ next \in DOMAIN pattern
  BY DEF Read, Typed
<1>2. Marks' = Marks
  BY <1>1 DEF Marks
<1>3. QED BY <1>1, <1>2 DEF Before, Rank, Marks
-----------------------------------------------------------------------------
\* Reading a digit or a wildcard, whose half is the next to be given: what
\* was kept is kept, the high half of a byte when its low half is added too.
LEMMA MarkKept ==
  ASSUME ConstantsAssumption, Typed, Half0Kept, Counted, Ranked, Kept, Read,
         next \in Marks
  PROVE  Typed' /\ Half0Kept' /\ Counted' /\ Ranked' /\ Kept'
<1> DEFINE p == Built(pattern[next])
           n == Cardinality(Before)
           m == Len(compiled)
<1>1. /\ pattern' = pattern /\ data' = data /\ next' = next + 1
      /\ next \in 1..Len(pattern) /\ pattern[next] \in Nibbles \union {Any}
  BY DEF Read, Typed, Marks, Chars
<1>2. /\ p \in Masked /\ Says(p, shift, pattern[next])
      /\ AsBefore(p, 4 - shift)
  BY <1>1, BuiltSays
<1>3. /\ Marks' = Marks /\ \A j : Rank(j)' = Rank(j)
      /\ Before' = Before \union {next}
      /\ Cardinality(Before)' = n + 1 /\ Rank(next) = n + 1 /\ n \in Nat
  BY ReadFrame, NextRank
<1>4. IF shift = 0
      THEN compiled' = Append(compiled, p) /\ b' = Cleared /\ shift' = 4
      ELSE compiled' = compiled /\ b' = p /\ shift' = 0
  <2>1. pattern[next] # Other
    BY DEF Marks
  <2>2. QED BY <2>1 DEF Read, Fresh
<1> HIDE DEF p
<1>5. compiled \in Seq(Masked) /\ m \in Nat /\ shift \in {0, 4} /\ b \in Masked
  BY DEF Typed, Shifts
<1>6. n = 2 * m + IF shift = 0 THEN 1 ELSE 0
  BY DEF Counted
<1> HIDE DEF n
<1>7. Masks' = Append(compiled, p)
  BY <1>4, <1>5 DEF Masks
<1>8. Typed'
  <2>1. compiled' \in Seq(Masked) /\ b' \in Masked /\ shift' \in Shifts
    <3>1. Cleared \in Masked
      BY DEF Cleared, Masked, Bytes, ConstantsAssumption
    <3>2. QED BY <1>2, <1>4, <1>5, <3>1 DEF Shifts
  <2>2. QED BY <1>1, <2>1 DEF Typed
<1>9. Half0Kept'
  <2>1. CASE shift = 0
    BY <2>1, <1>4 DEF Half0Kept
  <2>2. CASE shift = 4
    <3>1. 0 \in b.mask
      <4>1. b = Cleared
        BY <2>2 DEF Half0Kept
      <4>2. QED BY <4>1 DEF Cleared, Shifts
    <3>2. 0 \in p.mask
      <4>1. AsBefore(p, 0)
        BY <1>2, <2>2
      <4>2. QED BY <3>1, <4>1 DEF AsBefore
    <3>3. QED BY <2>2, <3>2, <1>4 DEF Half0Kept
  <2>3. QED BY <1>5, <2>1, <2>2
<1>10. Counted'
  <2>1. Cardinality(Before)' = 2 * Len(compiled') + IF shift' = 0 THEN 1 ELSE 0
    <3>1. CASE shift = 0
      <4>1. Len(compiled') = m + 1 /\ shift' = 4
        BY <3>1, <1>2, <1>4, <1>5
      <4>2. QED BY <3>1, <4>1, <1>3, <1>5, <1>6
    <3>2. CASE shift = 4
      <4>1. Len(compiled') = m /\ shift' = 0
        BY <3>2, <1>4
      <4>2. QED BY <3>2, <4>1, <1>3, <1>5, <1>6
    <3>3. QED BY <1>5, <3>1, <3>2
  <2>2. QED BY <2>1 DEF Counted
<1>11. Ranked'
  <2>1. /\ \A j \in Before : Rank(j) \in 1..n
        /\ \A k \in 1..n : \E j \in Before : Rank(j) = k
    BY DEF Ranked, n
  <2>2. \A j \in Before \union {next} : Rank(j) \in 1..n + 1
    BY <1>3, <2>1
  <2>3. \A k \in 1..n + 1 : \E j \in Before \union {next} : Rank(j) = k
    <3>1. \A k \in 1..n + 1 : k \in 1..n \/ k = n + 1
      BY <1>3
    <3>2. QED BY <1>3, <2>1, <3>1
  <2>4. QED BY <1>3, <2>2, <2>3 DEF Ranked
<1>12. Kept'
  <2>1. ASSUME NEW j \in Before
        PROVE  Says(Append(compiled, p)[ByteOf(Rank(j))], HalfOf(Rank(j)), pattern[j])
    <3>1. Rank(j) \in 1..n /\ Says(Masks[ByteOf(Rank(j))], HalfOf(Rank(j)), pattern[j])
      BY DEF Ranked, Kept, n
    <3>2. /\ ByteOf(Rank(j)) \in Nat /\ 1 <= ByteOf(Rank(j))
          /\ 2 * ByteOf(Rank(j)) <= n + 1
      BY <1>3, <3>1, OddOrEven
    <3>3. CASE ByteOf(Rank(j)) <= m
      <4>1. /\ Masks[ByteOf(Rank(j))] = compiled[ByteOf(Rank(j))]
            /\ Append(compiled, p)[ByteOf(Rank(j))] = compiled[ByteOf(Rank(j))]
        BY <1>2, <1>5, <3>2, <3>3 DEF Masks
      <4>2. QED BY <3>1, <4>1
    <3>4. CASE ~(ByteOf(Rank(j)) <= m)
      <4>1. ByteOf(Rank(j)) = m + 1 /\ shift = 0 /\ n = 2 * m + 1
        BY <1>3, <1>5, <1>6, <3>2, <3>4
      <4>2. Rank(j) = 2 * m + 1
        <5>1. PICK h \in Nat : Rank(j) = 2 * h + 1 \/ Rank(j) = 2 * h + 2
          BY <1>3, <3>1, OddOrEven
        <5>2. ByteOf(Rank(j)) = h + 1
          BY <5>1, Odd, Even
        <5>3. QED BY <1>5, <3>1, <4>1, <5>1, <5>2
      <4>3. HalfOf(Rank(j)) = 4
        BY <1>5, <4>2, Odd
      <4>4. Masks[ByteOf(Rank(j))] = b /\ Append(compiled, p)[ByteOf(Rank(j))] = p
        BY <1>2, <1>5, <4>1 DEF Masks
      <4>5. p.value[4] = b.value[4] /\ (4 \in p.mask <=> 4 \in b.mask)
        <5>1. AsBefore(p, 4)
          BY <1>2, <4>1
        <5>2. QED BY <5>1 DEF AsBefore
      <4>6. QED BY <3>1, <4>3, <4>4, <4>5 DEF Says
    <3>5. QED BY <3>3, <3>4
  <2>2. Says(Append(compiled, p)[ByteOf(Rank(next))], HalfOf(Rank(next)), pattern[next])
    <3>1. ByteOf(Rank(next)) = m + 1 /\ HalfOf(Rank(next)) = shift
      <4>1. CASE shift = 0
        <5>1. Rank(next) = 2 * m + 2
          BY <4>1, <1>3, <1>5, <1>6
        <5>2. QED BY <4>1, <5>1, <1>5, Even
      <4>2. CASE shift = 4
        <5>1. Rank(next) = 2 * m + 1
          BY <4>2, <1>3, <1>5, <1>6
        <5>2. QED BY <4>2, <5>1, <1>5, Odd
      <4>3. QED BY <1>5, <4>1, <4>2
    <3>2. Append(compiled, p)[m + 1] = p
      BY <1>2, <1>5
    <3>3. QED BY <1>2, <3>1, <3>2
  <2>3. QED BY <1>1, <1>3, <1>7, <2>1, <2>2 DEF Kept
<1>13. QED BY <1>8, <1>9, <1>10, <1>11, <1>12
-----------------------------------------------------------------------------
(***************************************************************************)
(* pattern_searcher                                                        *)
(***************************************************************************)

\* The half a rank denotes is that of the byte the rank belongs to.
LEMMA HalfAt ==
  ASSUME NEW i \in Nat, NEW k \in Nat
  PROVE  Half(i, k) = data[i + ByteOf(k) - 1][HalfOf(k)]
<1>1. i + ByteOf(k) - 1 = i + (k - 1) \div 2
  <2>1. (k - 1) \div 2 \in Int
    OBVIOUS
  <2>2. QED BY <2>1 DEF ByteOf
<1>2. QED BY <1>1 DEF Half, HalfOf

\* When the whole of a signature of whole bytes has been read, the masked
\* bytes match where the signature denotes the section, and nowhere else.
LEMMA MatchIsMeaning ==
  ASSUME Typed, Ranked, Kept, shift = 4, Before = Marks,
         Cardinality(Marks) = 2 * Len(compiled), NEW i \in 1..Len(data)
  PROVE  MatchesAt(compiled, i) <=> Denotes(i)
<1> DEFINE m == Len(compiled)
<1>1. m \in Nat /\ i \in Nat /\ Len(data) \in Nat
  BY DEF Typed
<1>2. /\ \A j \in Marks : Rank(j) \in 1..2 * m
      /\ \A k \in 1..2 * m : \E j \in Marks : Rank(j) = k
      /\ \A j \in Marks : Says(compiled[ByteOf(Rank(j))], HalfOf(Rank(j)), pattern[j])
  <2>1. Masks = compiled
    BY DEF Masks
  <2>2. QED BY <2>1 DEF Ranked, Kept
<1> HIDE DEF m
<1>3. ASSUME MatchesAt(compiled, i)
      PROVE  Denotes(i)
  <2>1. /\ i + m <= Len(data) + 1
        /\ \A q \in 1..m : Equal(data[i + q - 1], compiled[q])
    BY <1>3 DEF MatchesAt, m
  <2>2. 2 * (i - 1) + Cardinality(Marks) <= 2 * Len(data)
    BY <1>1, <2>1 DEF m
  <2>3. ASSUME NEW j \in Marks
        PROVE  pattern[j] \in {Any, Half(i, Rank(j))}
    <3> DEFINE q == ByteOf(Rank(j))
               h == HalfOf(Rank(j))
    <3>1. q \in 1..m /\ Rank(j) \in Nat
      <4>1. Rank(j) \in 1..2 * m /\ 2 * m \in Nat
        BY <1>1, <1>2
      <4>2. q \in Nat /\ 1 <= q /\ 2 * q <= 2 * m + 1
        BY <4>1, OddOrEven
      <4>3. QED BY <1>1, <4>1, <4>2
    <3>2. Says(compiled[q], h, pattern[j])
      BY <1>2
    <3>3. Half(i, Rank(j)) = data[i + q - 1][h]
      BY <1>1, <3>1, HalfAt
    <3> HIDE DEF q, h
    <3>4. Equal(data[i + q - 1], compiled[q])
      BY <2>1, <3>1
    <3>5. QED BY <3>2, <3>3, <3>4 DEF Says, Equal
  <2>4. QED BY <2>2, <2>3 DEF Denotes
<1>4. ASSUME Denotes(i)
      PROVE  MatchesAt(compiled, i)
  <2>1. /\ 2 * (i - 1) + Cardinality(Marks) <= 2 * Len(data)
        /\ \A j \in Marks : pattern[j] \in {Any, Half(i, Rank(j))}
    BY <1>4 DEF Denotes
  <2>2. i + m <= Len(data) + 1
    BY <1>1, <2>1 DEF m
  <2>3. ASSUME NEW q \in 1..m, NEW s \in compiled[q].mask
        PROVE  data[i + q - 1][s] = compiled[q].value[s]
    <3>1. s \in Shifts /\ q \in Nat
      <4>1. compiled[q] \in Masked /\ q \in Nat
        BY <1>1 DEF Typed, m
      <4>2. QED BY <4>1 DEF Masked
    <3>2. PICK k \in 1..2 * m : ByteOf(k) = q /\ HalfOf(k) = s
      <4>1. q - 1 \in Nat /\ q = (q - 1) + 1
        BY <1>1
      <4>2. CASE s = 4
        <5>1. 2 * (q - 1) + 1 \in 1..2 * m
          BY <1>1
        <5>2. QED BY <4>1, <4>2, <5>1, Odd
      <4>3. CASE s = 0
        <5>1. 2 * (q - 1) + 2 \in 1..2 * m
          BY <1>1
        <5>2. QED BY <4>1, <4>3, <5>1, Even
      <4>4. QED BY <3>1, <4>2, <4>3 DEF Shifts
    <3>3. PICK j \in Marks : Rank(j) = k
      BY <1>2
    <3>4. Says(compiled[q], s, pattern[j]) /\ pattern[j] \in {Any, Half(i, k)}
      BY <1>2, <2>1, <3>2, <3>3
    <3>5. Half(i, k) = data[i + q - 1][s]
      <4>1. k \in Nat
        BY <1>1
      <4>2. QED BY <1>1, <3>2, <4>1, HalfAt
    <3>6. QED BY <3>4, <3>5 DEF Says
  <2>4. QED BY <2>2, <2>3 DEF MatchesAt, Equal, m
<1>5. QED BY <1>3, <1>4
\* Where the search ends: at the first match, or at the end.
LEMMA FoundFirst ==
  ASSUME data \in Seq(Bytes), data # <<>>, NEW cp, cp # <<>>
  PROVE  /\ Found(cp) \in 1..End
         /\ Found(cp) # End => MatchesAt(cp, Found(cp))
         /\ \A i \in 1..Len(data) : i < Found(cp) => ~MatchesAt(cp, i)
<1> DEFINE places == {i \in 1..Len(data) : MatchesAt(cp, i)}
<1>1. Len(data) \in Nat /\ Len(data) # 0
  OBVIOUS
<1>2. Found(cp) = IF places = {} THEN End
                  ELSE CHOOSE i \in places : \A j \in places : i <= j
  BY <1>1 DEF Found
<1>3. CASE places = {}
  <2>1. Found(cp) = End /\ \A i \in 1..Len(data) : ~MatchesAt(cp, i)
    BY <1>2, <1>3
  <2>2. QED BY <1>1, <2>1 DEF End
<1>4. CASE places # {}
  <2>1. places \subseteq Nat
    BY <1>1
  <2>2. \E i \in places : \A j \in places : i <= j
    BY <1>4, <2>1, Smallest
  <2> HIDE DEF places
  <2>3. Found(cp) \in places /\ \A j \in places : Found(cp) <= j
    BY <1>2, <1>4, <2>2
  <2>4. Found(cp) \in 1..Len(data) /\ MatchesAt(cp, Found(cp))
    BY <2>3 DEF places
  <2>5. ASSUME NEW i \in 1..Len(data), i < Found(cp)
        PROVE  ~MatchesAt(cp, i)
    <3>1. i \notin places
      BY <1>1, <2>3, <2>4, <2>5
    <3>2. QED BY <3>1 DEF places
  <2>6. QED BY <1>1, <2>4, <2>5 DEF End
<1>5. QED BY <1>3, <1>4

-----------------------------------------------------------------------------
(***************************************************************************)
(* The invariant                                                           *)
(***************************************************************************)

LEMMA InitInv == ASSUME ConstantsAssumption, Init PROVE SearchInv
<1>1. pattern \in Seq(Chars) /\ data \in Seq(Bytes)
  BY DEF Init, UpTo
<1>2. Typed
  <2>1. Cleared \in Masked
    BY DEF Cleared, Masked, Bytes, ConstantsAssumption
  <2>2. next \in 1..Len(pattern) + 1
    BY <1>1 DEF Init
  <2>3. QED BY <1>1, <2>1, <2>2 DEF Typed, Init, Shifts
<1>3. Before = {} /\ Cardinality(Before) = 0
  <2>1. next = 1 /\ Marks \subseteq 1..Len(pattern)
    BY <1>1, MarksFinite DEF Init
  <2>2. Before = {}
    <3>1. \A j \in Marks : ~(j < next)
      BY <2>1
    <3>2. QED BY <3>1 DEF Before
  <2>3. QED BY <2>2, FS_EmptySet
<1>4. Half0Kept /\ FindsFirst
  BY DEF Init, Half0Kept, FindsFirst
<1>5. Counted
  BY <1>3 DEF Init, Counted
<1>6. Ranked /\ Kept
  BY <1>3 DEF Ranked, Kept
<1>7. QED BY <1>2, <1>4, <1>5, <1>6 DEF SearchInv

LEMMA ReadInv == ASSUME ConstantsAssumption, SearchInv, Read PROVE SearchInv'
<1>1. /\ Typed /\ Half0Kept /\ Counted /\ Ranked /\ Kept
      /\ result = 0 /\ result' = 0
  BY DEF SearchInv, Read
<1>2. FindsFirst'
  BY <1>1 DEF FindsFirst
<1>3. CASE next \in Marks
  BY <1>1, <1>2, <1>3, MarkKept DEF SearchInv
<1>4. CASE next \notin Marks
  <2>1. /\ pattern[next] = Other /\ next' = next + 1 /\ next \in 1..Len(pattern)
        /\ UNCHANGED <<pattern, data, b, shift, compiled>>
    BY <1>1, <1>4 DEF Read, Typed, Marks
  <2>2. Before' = Before /\ Marks' = Marks /\ \A j : Rank(j)' = Rank(j)
    BY <1>1, <1>4, ReadFrame, NoRank
  <2>3. Masks' = Masks
    BY <2>1 DEF Masks
  <2>4. Cardinality(Before)' = Cardinality(Before)
    BY <2>2
  <2>5. Typed'
    BY <1>1, <2>1 DEF Typed
  <2>6. Half0Kept'
    BY <1>1, <2>1 DEF Half0Kept
  <2>7. Counted'
    BY <1>1, <2>1, <2>4 DEF Counted
  <2>8. Ranked'
    BY <1>1, <2>2, <2>4 DEF Ranked
  <2>9. Kept'
    BY <1>1, <2>1, <2>2, <2>3 DEF Kept
  <2>10. QED BY <1>2, <2>5, <2>6, <2>7, <2>8, <2>9 DEF SearchInv
<1>5. QED BY <1>3, <1>4

LEMMA SearchFinds ==
  ASSUME ConstantsAssumption, SearchInv, Search PROVE SearchInv'
<1>1. /\ Typed /\ Half0Kept /\ Counted /\ Ranked /\ Kept
      /\ next = Len(pattern) + 1
      /\ compiled' = Completed /\ result' = Found(Completed)
      /\ UNCHANGED <<pattern, data, next, b, shift>>
  BY DEF SearchInv, Search, Typed
<1>2. Len(data) \in Nat /\ compiled \in Seq(Masked) /\ data \in Seq(Bytes)
  BY <1>1 DEF Typed
<1>3. Before = Marks
  <2>1. Marks \subseteq 1..Len(pattern)
    BY <1>1, MarksFinite DEF Typed
  <2>2. \A j \in Marks : j < next
    BY <1>1, <2>1
  <2>3. QED BY <2>2 DEF Before
<1>4. Typed'
  <2>1. [b EXCEPT !.mask = b.mask \intersect {0}] \in Masked
    BY <1>1 DEF Typed, Masked
  <2>2. Completed \in Seq(Masked)
    BY <1>2, <2>1 DEF Completed
  <2>3. QED BY <1>1, <2>2 DEF Typed
<1>5. data # <<>> => Found(Completed) \in 1..End
  <2>1. CASE Completed = <<>>
    BY <1>2, <2>1 DEF Found, End
  <2>2. CASE Completed # <<>>
    BY <1>2, <2>2, FoundFirst
  <2>3. QED BY <2>1, <2>2
<1>6. Found(Completed) # 0
  <2>1. CASE data = <<>>
    BY <2>1 DEF Found, End
  <2>2. CASE data # <<>>
    BY <1>2, <1>5, <2>2 DEF End
  <2>3. QED BY <2>1, <2>2
<1>7. FindsFirst'
  <2>1. SUFFICES ASSUME Whole, data # <<>>
                 PROVE  /\ \A i \in 1..Len(data) : i < Found(Completed) => ~Denotes(i)
                        /\ Found(Completed) # End => Denotes(Found(Completed))
    <3>1. /\ Whole' <=> Whole
          /\ \A i : Denotes(i)' <=> Denotes(i)
          /\ End' = End
      BY <1>1 DEF Whole, Denotes, Marks, Rank, Half, End
    <3>2. QED BY <1>1, <3>1 DEF FindsFirst
  <2>2. shift = 4 /\ Completed = compiled /\ Cardinality(Marks) = 2 * Len(compiled)
    <3>1. Cardinality(Marks) = 2 * Len(compiled) + IF shift = 0 THEN 1 ELSE 0
      BY <1>1, <1>3 DEF Counted
    <3>2. Len(compiled) \in Nat /\ shift \in {0, 4}
      BY <1>1 DEF Typed, Shifts
    <3>3. shift = 4
      BY <2>1, <3>1, <3>2 DEF Whole
    <3>4. QED BY <3>1, <3>3 DEF Completed
  <2>3. \A i \in 1..Len(data) : MatchesAt(compiled, i) <=> Denotes(i)
    BY <1>1, <1>3, <2>2, MatchIsMeaning
  <2>4. CASE compiled = <<>>
    <3>1. Found(compiled) = 1
      BY <1>2, <2>1, <2>4 DEF Found
    <3>2. MatchesAt(compiled, 1)
      BY <1>2, <2>1, <2>4 DEF MatchesAt
    <3>3. 1 \in 1..Len(data)
      BY <1>2, <2>1
    <3>4. Denotes(1)
      BY <2>3, <3>2, <3>3
    <3>5. QED BY <1>2, <2>2, <3>1, <3>4
  <2>5. CASE compiled # <<>>
    <3>1. /\ Found(compiled) \in 1..End
          /\ Found(compiled) # End => MatchesAt(compiled, Found(compiled))
          /\ \A i \in 1..Len(data) : i < Found(compiled) => ~MatchesAt(compiled, i)
      BY <1>2, <2>1, <2>5, FoundFirst
    <3>2. Found(compiled) # End => Found(compiled) \in 1..Len(data)
      BY <1>2, <3>1 DEF End
    <3>3. QED BY <2>2, <2>3, <3>1, <3>2
  <2>6. QED BY <2>4, <2>5
<1>8. QED BY <1>1, <1>4, <1>6, <1>7 DEF SearchInv

LEMMA StutterInv == ASSUME SearchInv, UNCHANGED vars PROVE SearchInv'
<1>1. UNCHANGED <<pattern, data, next, b, shift, compiled, result>>
  BY DEF vars
<1>2. Before' = Before /\ Masks' = Masks /\ \A j : Rank(j)' = Rank(j)
  BY <1>1 DEF Before, Masks, Marks, Rank
<1>3. Typed' <=> Typed
  BY <1>1 DEF Typed
<1>4. Half0Kept' <=> Half0Kept
  BY <1>1 DEF Half0Kept
<1>5. Counted' <=> Counted
  BY <1>1, <1>2 DEF Counted
<1>6. Ranked' <=> Ranked
  BY <1>2 DEF Ranked
<1>7. Kept' <=> Kept
  BY <1>1, <1>2 DEF Kept
<1>8. FindsFirst' <=> FindsFirst
  BY <1>1 DEF FindsFirst, Whole, Denotes, Marks, Rank, Half, End
<1>9. QED BY <1>1, <1>3, <1>4, <1>5, <1>6, <1>7, <1>8 DEF SearchInv

THEOREM SearchInvariant == Spec => []SearchInv
<1>1. ConstantsAssumption /\ Init => SearchInv
  BY InitInv
<1>2. SearchInv /\ [Next]_vars => SearchInv'
  BY ConstantsAssumption, ReadInv, SearchFinds, StutterInv DEF Next
<1>3. QED BY ConstantsAssumption, <1>1, <1>2, PTL DEF Spec

\* For every signature of whole bytes and every section that is not empty,
\* the search ends at the first place of the section the signature denotes,
\* and at the end when there is none: compile_pattern and pattern_searcher
\* together do what the text of the signature says.
THEOREM FirstPlaceFound == Spec => []FindsFirst
<1>1. SearchInv => FindsFirst
  BY DEF SearchInv
<1>2. QED BY SearchInvariant, <1>1, PTL
=============================================================================
