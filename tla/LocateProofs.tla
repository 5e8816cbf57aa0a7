---------------------------- MODULE LocateProofs ----------------------------
(***************************************************************************)
(* In every client, whatever its sections hold, wherever they are and      *)
(* however its panels' fields are displaced, a pointer is set to the first *)
(* code that reads like its function; and where the signatures tell the    *)
(* functions from all other code, the operands are what was compiled.      *)
(* The first part is about the bytes of a piece, the second about where in *)
(* a section they are, the third follows the searches.                     *)
(***************************************************************************)
EXTENDS Locate, FiniteSetTheorems, WellFoundedInduction, TLAPS

-----------------------------------------------------------------------------
(***************************************************************************)
(* The bytes of a piece                                                    *)
(***************************************************************************)

\* The lengths of the signatures, and what they end in.
LEMMA Signatures ==
  /\ Signature["updateVerifyMode"] \in Seq(0..256) /\ Len(Signature["updateVerifyMode"]) = 38
  /\ Signature["updateVerifyMode"][38] # xx
  /\ Signature["processConfirmClick"] \in Seq(0..256) /\ Len(Signature["processConfirmClick"]) = 31
  /\ Signature["processConfirmClick"][27] # xx /\ \A k \in 28..31 : Signature["processConfirmClick"][k] = xx
  /\ Signature["RequestLogin"] \in Seq(0..256) /\ Len(Signature["RequestLogin"]) = 55
  /\ Signature["RequestLogin"][55] # xx
  /\ Signature["OpenLoginPanel"] \in Seq(0..256) /\ Len(Signature["OpenLoginPanel"]) = 32
  /\ Signature["OpenLoginPanel"][32] # xx
  /\ Signature["processLogin"] \in Seq(0..256) /\ Len(Signature["processLogin"]) = 27
  /\ Signature["processLogin"][27] # xx
  /\ Signature["processLogin2"] \in Seq(0..256) /\ Len(Signature["processLogin2"]) = 24
  /\ Signature["processLogin2"][24] # xx
  /\ Signature["ProcessEvent"] \in Seq(0..256) /\ Len(Signature["ProcessEvent"]) = 25
  /\ Signature["ProcessEvent"][25] # xx
<1>1. /\ Signature["updateVerifyMode"] \in Seq(0..256) /\ Len(Signature["updateVerifyMode"]) = 38
      /\ Signature["updateVerifyMode"][38] # xx
  BY DEF Signature, xx
<1>2. /\ Signature["processConfirmClick"] \in Seq(0..256) /\ Len(Signature["processConfirmClick"]) = 31
      /\ Signature["processConfirmClick"][27] # xx
      /\ \A k \in 28..31 : Signature["processConfirmClick"][k] = xx
  BY DEF Signature, xx
<1>3. /\ Signature["RequestLogin"] \in Seq(0..256) /\ Len(Signature["RequestLogin"]) = 55
      /\ Signature["RequestLogin"][55] # xx
  <2>1. Signature["RequestLogin"] \in Seq(0..256)
    BY DEF Signature, xx
  <2>2. Len(Signature["RequestLogin"]) = 55
    BY DEF Signature
  <2>3. Signature["RequestLogin"][55] # xx
    BY DEF Signature, xx
  <2> QED BY <2>1, <2>2, <2>3
<1>4. /\ Signature["OpenLoginPanel"] \in Seq(0..256) /\ Len(Signature["OpenLoginPanel"]) = 32
      /\ Signature["OpenLoginPanel"][32] # xx
  BY DEF Signature, xx
<1>5. /\ Signature["processLogin"] \in Seq(0..256) /\ Len(Signature["processLogin"]) = 27
      /\ Signature["processLogin"][27] # xx
  BY DEF Signature, xx
<1>6. /\ Signature["processLogin2"] \in Seq(0..256) /\ Len(Signature["processLogin2"]) = 24
      /\ Signature["processLogin2"][24] # xx
  BY DEF Signature, xx
<1>7. /\ Signature["ProcessEvent"] \in Seq(0..256) /\ Len(Signature["ProcessEvent"]) = 25
      /\ Signature["ProcessEvent"][25] # xx
  BY DEF Signature, xx
<1> QED BY <1>1, <1>2, <1>3, <1>4, <1>5, <1>6, <1>7

\* A sequence has its elements at the numbers up to its length.
LEMMA Elements ==
  ASSUME NEW S, NEW s \in Seq(S)
  PROVE  /\ Len(s) \in Nat /\ DOMAIN s = 1..Len(s)
         /\ \A k \in 1..Len(s) : s[k] \in S
OBVIOUS

\* r is s and then t.
Joined(r, s, t) ==
  /\ Len(r) = Len(s) + Len(t)
  /\ \A i \in 1..Len(s) : r[i] = s[i]
  /\ \A i \in 1..Len(t) : r[Len(s) + i] = t[i]

\* What is where in two texts put together.
LEMMA Joins ==
  ASSUME NEW S, NEW s \in Seq(S), NEW t \in Seq(S)
  PROVE  s \o t \in Seq(S) /\ Joined(s \o t, s, t)
BY DEF Joined

\* r has t past its first n elements.
Has(r, t, n) == n + Len(t) <= Len(r) /\ \A i \in 1..Len(t) : r[n + i] = t[i]

\* r begins with s.
Starts(s, r) == Len(s) <= Len(r) /\ \A i \in 1..Len(s) : r[i] = s[i]

\* A signature is a sequence, and its place in its function a number.
LEMMA SignatureTypes ==
  ASSUME NEW f \in Functions
  PROVE  /\ Signature[f] \in Seq(0..256) /\ Len(Signature[f]) \in Nat \ {0}
         /\ DOMAIN Signature[f] = 1..Len(Signature[f])
         /\ Distance[f] \in Nat
<1>1. Signature[f] \in Seq(0..256) /\ Len(Signature[f]) # 0
  <2>1. CASE f = "updateVerifyMode"
    BY <2>1, Signatures
  <2>2. CASE f = "processConfirmClick"
    BY <2>2, Signatures
  <2>3. CASE f = "RequestLogin"
    BY <2>3, Signatures
  <2>4. CASE f = "OpenLoginPanel"
    BY <2>4, Signatures
  <2>5. CASE f = "processLogin"
    BY <2>5, Signatures
  <2>6. CASE f = "processLogin2"
    BY <2>6, Signatures
  <2>7. CASE f = "ProcessEvent"
    BY <2>7, Signatures
  <2> QED BY <2>1, <2>2, <2>3, <2>4, <2>5, <2>6, <2>7 DEF Functions
<1>2. Distance[f] \in Nat
  BY DEF Distance, Functions
<1>3. Len(Signature[f]) \in Nat /\ DOMAIN Signature[f] = 1..Len(Signature[f])
  BY <1>1, Elements
<1> QED BY <1>1, <1>2, <1>3

\* The last byte a signature fixes.
LEMMA LastFixed ==
  ASSUME NEW f \in Functions
  PROVE  \E k \in Fixed(f) : \A m \in Fixed(f) : m <= k
<1>3. CASE f = "processConfirmClick"
  <2>1. DOMAIN Signature[f] = 1..31
    BY <1>3, Signatures, SignatureTypes, SMTT(40)
  <2>2. 27 \in Fixed(f) /\ \A m \in Fixed(f) : m \in 1..31 /\ m \notin 28..31
    BY <1>3, <2>1, Signatures, SMTT(40) DEF Fixed
  <2>3. \A m \in Fixed(f) : m <= 27
    BY <2>2
  <2> QED BY <2>2, <2>3
<1>4. CASE f # "processConfirmClick"
  <2>1. Signature[f][Len(Signature[f])] # xx
    <3>1. CASE f = "updateVerifyMode"
      BY <3>1, Signatures
    <3>2. CASE f = "RequestLogin"
      BY <3>2, Signatures
    <3>3. CASE f = "OpenLoginPanel"
      BY <3>3, Signatures
    <3>4. CASE f = "processLogin"
      BY <3>4, Signatures
    <3>5. CASE f = "processLogin2"
      BY <3>5, Signatures
    <3>6. CASE f = "ProcessEvent"
      BY <3>6, Signatures
    <3> QED BY <1>4, <3>1, <3>2, <3>3, <3>4, <3>5, <3>6 DEF Functions
  <2>2. Len(Signature[f]) \in Fixed(f) /\ \A m \in Fixed(f) : m <= Len(Signature[f])
    BY <2>1, SignatureTypes DEF Fixed
  <2> QED BY <2>2
<1> QED BY <1>3, <1>4

\* An operand is four numbers.
LEMMA OperandTypes ==
  ASSUME NEW f, NEW c, c.layout \in Int, c.engine \in Int, NEW a \in Int, NEW j \in 1..4
  PROVE  Operand(f, c, a)[j] \in Int
<1>1. ASSUME NEW n \in Int PROVE LittleEndian(n)[j] \in Int
  <2>1. j = 1 \/ j = 2 \/ j = 3 \/ j = 4
    OBVIOUS
  <2> QED BY <2>1 DEF LittleEndian
<1>2. c.layout + Panel0 \in Int /\ c.engine - (a + 20) \in Int
  BY DEF Panel0
<1>3. <<17, 34, 51, 68>>[j] \in Int
  OBVIOUS
<1> QED BY <1>1, <1>2, <1>3 DEF Operand

\* How many bytes a signature leaves open, up to one.
Open(sig, k) == Cardinality({m \in 1..k : sig[m] = xx})

\* A function's code as its signature has it, but for its operands.
Follows(code, sig, operand) ==
  \A k \in 1..Len(sig) :
    code[k] = IF sig[k] = xx THEN operand[((Open(sig, k) - 1) % 4) + 1] ELSE sig[k]

\* How many bytes a signature leaves open is a number.
LEMMA OpenType ==
  ASSUME NEW sig, NEW k \in Nat
  PROVE  Open(sig, k) \in Nat
<1>1. IsFiniteSet(1..k)
  BY FS_Interval
<1>2. IsFiniteSet({m \in 1..k : sig[m] = xx})
  BY <1>1, FS_Subset
<1> QED BY <1>2, FS_CardinalityType DEF Open

\* Where a signature has a byte, the function's code has it.
LEMMA CompiledTypes ==
  ASSUME NEW f \in Functions, NEW c, c.layout \in Int, c.engine \in Int, NEW a \in Int
  PROVE  /\ Compiled(f, c, a) \in Seq(Int) /\ Len(Compiled(f, c, a)) = Len(Signature[f])
         /\ Follows(Compiled(f, c, a), Signature[f], Operand(f, c, a))
<1> DEFINE sig == Signature[f]
           code(k) == IF sig[k] = xx THEN Operand(f, c, a)[((Open(sig, k) - 1) % 4) + 1]
                                     ELSE sig[k]
<1>1. Compiled(f, c, a) = [k \in 1..Len(sig) |-> code(k)]
  BY DEF Compiled, Open
<1>2. Len(sig) \in Nat /\ \A k \in 1..Len(sig) : sig[k] \in Int
  <2>1. sig \in Seq(0..256) /\ 0..256 \subseteq Int
    BY SignatureTypes
  <2>2. Len(sig) \in Nat /\ \A k \in 1..Len(sig) : sig[k] \in 0..256
    BY <2>1, Elements
  <2> QED BY <2>1, <2>2
<1>3. ASSUME NEW k \in 1..Len(sig) PROVE code(k) \in Int
  <2>1. Open(sig, k) \in Nat
    BY <1>2, OpenType
  <2>2. ((Open(sig, k) - 1) % 4) + 1 \in 1..4
    BY <2>1
  <2>3. Operand(f, c, a)[((Open(sig, k) - 1) % 4) + 1] \in Int
    BY <2>2, OperandTypes
  <2> QED BY <1>2, <2>3
<1> HIDE DEF code
<1>4. Compiled(f, c, a) \in Seq(Int) /\ Len(Compiled(f, c, a)) = Len(sig)
  BY <1>1, <1>2, <1>3
<1>5. \A k \in 1..Len(sig) : Compiled(f, c, a)[k] = code(k)
  BY <1>1
<1> QED BY <1>4, <1>5 DEF code, Follows

\* Whatever its form, a piece is bytes.
LEMMA PieceTypes ==
  ASSUME NEW p \in [of : Functions, form : Forms], NEW c, c.layout \in Int,
         c.engine \in Int, NEW a \in Int
  PROVE  Piece(p, c, a) \in Seq(Int)
<1> DEFINE code == Compiled(p.of, c, a)
           last == CHOOSE k \in Fixed(p.of) : \A m \in Fixed(p.of) : m <= k
           pad  == [k \in 1..Distance[p.of] |-> nop]
<1>1. p.of \in Functions
  OBVIOUS
<1>2. code \in Seq(Int) /\ Len(code) = Len(Signature[p.of])
  BY <1>1, CompiledTypes
<1>3. last \in Fixed(p.of)
  BY <1>1, LastFixed
<1>4. last \in 1..Len(code)
  BY <1>1, <1>2, <1>3, SignatureTypes DEF Fixed
<1>5. pad \in Seq(Int) /\ ret \in Int
  BY <1>1, SignatureTypes DEF nop, ret
<1>6. Piece(p, c, a) = pad \o (IF p.form \in {"whole", "like"} THEN code \o <<ret>>
                              ELSE IF p.form = "cut" THEN SubSeq(code, 1, last - 1)
                              ELSE [code EXCEPT ![last] = (@ + 1) % 256])
  BY DEF Piece
<1> HIDE DEF code, last, pad
<1>7. code \o <<ret>> \in Seq(Int)
  BY <1>2, <1>5
<1>8. SubSeq(code, 1, last - 1) \in Seq(Int)
  BY <1>2, <1>4
<1>9. [code EXCEPT ![last] = (@ + 1) % 256] \in Seq(Int)
  <2>1. code[last] \in Int /\ (code[last] + 1) % 256 \in Int
    BY <1>2, <1>4
  <2> QED BY <1>2, <1>4, <2>1
<1> QED BY <1>5, <1>6, <1>7, <1>8, <1>9

-----------------------------------------------------------------------------
(***************************************************************************)
(* Induction, as a fact about sets of numbers.                             *)
(***************************************************************************)

\* The least number principle.
LEMMA Smallest ==
  ASSUME NEW T, T \subseteq Nat, T # {}
  PROVE  \E x \in T : \A y \in T : x <= y
<1> DEFINE R == {ss \in Nat \X Nat : ss[1] < ss[2]}
<1>1. OpToRel(<, Nat) = R
  BY DEF OpToRel
<1>2. IsWellFoundedOn(R, Nat)
  BY <1>1, NatLessThanWellFounded
<1> HIDE DEF R
<1>3. PICK x \in T : \A y \in T : ~(<<y, x>> \in R)
  BY <1>2, WFMin
<1>4. ASSUME NEW y \in T PROVE x <= y
  <2>1. x \in Nat /\ y \in Nat /\ ~(<<y, x>> \in R)
    BY <1>3
  <2>2. <<y, x>> \in Nat \X Nat
    BY <2>1
  <2>3. ~(y < x)
    BY <2>1, <2>2 DEF R
  <2>4. QED BY <2>1, <2>3
<1>5. QED BY <1>4

\* Induction, for sets of numbers instead of predicates.
LEMMA Induction ==
  ASSUME NEW T, 0 \in T, \A n \in Nat : n \in T => n + 1 \in T
  PROVE  Nat \subseteq T
<1> DEFINE Rest == {n \in Nat : n \notin T}
<1> SUFFICES ASSUME Rest # {} PROVE FALSE
  OBVIOUS
<1>1. PICK x \in Rest : \A y \in Rest : x <= y
  <2>1. Rest \subseteq Nat
    OBVIOUS
  <2> HIDE DEF Rest
  <2>2. QED BY <2>1, Smallest
<1>2. x \in Nat /\ x # 0
  OBVIOUS
<1>3. x - 1 \in Nat /\ ~(x <= x - 1) /\ (x - 1) + 1 = x
  BY <1>2
<1>4. x - 1 \in T
  BY <1>1, <1>3
<1>5. x \in T
  BY <1>3, <1>4
<1>6. QED BY <1>5

-----------------------------------------------------------------------------
(***************************************************************************)
(* Where in a section its pieces are                                       *)
(***************************************************************************)

\* Everything the bytes of a section depend on.
Sectioned(s, c) == s \in Sections /\ c.layout \in Int /\ c.engine \in Int

\* u are the bytes of the section up to each of its first m pieces.
Grows(u, s, c, m) ==
  /\ u[0] = <<>>
  /\ \A k \in 1..m :
       u[k] = u[k - 1] \o Piece(s.pieces[k], c, s.VirtualAddress + Len(u[k - 1]))

CanGrow(s, c, m) == \E u \in [0..m -> Seq(Int)] : Grows(u, s, c, m)

\* What a piece adds to bytes makes bytes.
LEMMA OnePieceMore ==
  ASSUME NEW s, NEW c, Sectioned(s, c), NEW k \in 1..Len(s.pieces), NEW b \in Seq(Int)
  PROVE  b \o Piece(s.pieces[k], c, s.VirtualAddress + Len(b)) \in Seq(Int)
<1>1. s.pieces[k] \in [of : Functions, form : Forms]
  <2>1. s.pieces \in Seq([of : Functions, form : Forms])
    BY DEF Sectioned, Sections
  <2> QED BY <2>1, Elements
<1>2. s.VirtualAddress + Len(b) \in Int
  BY DEF Sectioned, Sections
<1>3. Piece(s.pieces[k], c, s.VirtualAddress + Len(b)) \in Seq(Int)
  BY <1>1, <1>2, PieceTypes DEF Sectioned
<1> QED BY <1>3

\* If the recursion of Upto has a solution for m pieces, it has one for m + 1,
LEMMA GrowOne ==
  ASSUME NEW s, NEW c, Sectioned(s, c), NEW m \in Nat, m + 1 <= Len(s.pieces),
         CanGrow(s, c, m)
  PROVE  CanGrow(s, c, m + 1)
<1>1. PICK u \in [0..m -> Seq(Int)] : Grows(u, s, c, m)
  BY DEF CanGrow
<1> DEFINE piece == Piece(s.pieces[m + 1], c, s.VirtualAddress + Len(u[m]))
           w == [k \in 0..(m + 1) |-> IF k = m + 1 THEN u[m] \o piece ELSE u[k]]
<1>2. s.pieces \in Seq([of : Functions, form : Forms])
  BY DEF Sectioned, Sections
<1>3. m + 1 \in 1..Len(s.pieces) /\ u[m] \in Seq(Int)
  BY <1>2, Elements
<1>4. u[m] \o piece \in Seq(Int)
  BY <1>3, OnePieceMore
<1>5. w \in [0..(m + 1) -> Seq(Int)]
  <2> HIDE DEF piece
  <2> QED BY <1>4
<1>6. w[m + 1] = u[m] \o piece /\ \A k \in 0..m : w[k] = u[k]
  <2>1. m + 1 \in 0..(m + 1) /\ \A k \in 0..m : k \in 0..(m + 1) /\ k # m + 1
    OBVIOUS
  <2> QED BY <2>1, Zenon
<1> HIDE DEF w
<1>7. ASSUME NEW k \in 1..(m + 1)
      PROVE  w[k] = w[k - 1] \o Piece(s.pieces[k], c, s.VirtualAddress + Len(w[k - 1]))
  <2>1. CASE k = m + 1
    <3>1. k - 1 = m /\ m \in 0..m
      BY <2>1
    <3>2. w[k - 1] = u[m] /\ w[k] = u[m] \o piece
      BY <1>6, <2>1, <3>1
    <3> QED BY <2>1, <3>2
  <2>2. CASE k # m + 1
    <3>1. k \in 1..m /\ k \in 0..m /\ k - 1 \in 0..m
      BY <2>2
    <3>2. w[k] = u[k] /\ w[k - 1] = u[k - 1]
      BY <1>6, <3>1
    <3> QED BY <1>1, <3>1, <3>2 DEF Grows
  <2> QED BY <2>1, <2>2
<1>8. w[0] = <<>>
  BY <1>1, <1>6 DEF Grows
<1> QED BY <1>5, <1>7, <1>8 DEF CanGrow, Grows

\* so it has one for all of them.
LEMMA Growing ==
  ASSUME NEW s, NEW c, Sectioned(s, c)
  PROVE  CanGrow(s, c, Len(s.pieces))
<1> DEFINE T == {m \in Nat : m <= Len(s.pieces) => CanGrow(s, c, m)}
<1>1. 0 \in T
  <2> DEFINE u == [k \in 0..0 |-> <<>>]
  <2>1. <<>> \in Seq(Int)
    OBVIOUS
  <2>2. u \in [0..0 -> Seq(Int)] /\ u[0] = <<>>
    BY <2>1
  <2> HIDE DEF u
  <2> QED BY <2>2 DEF CanGrow, Grows
<1>2. ASSUME NEW m \in Nat, m \in T PROVE m + 1 \in T
  <2> SUFFICES ASSUME m + 1 <= Len(s.pieces) PROVE CanGrow(s, c, m + 1)
    OBVIOUS
  <2>1. s.pieces \in Seq([of : Functions, form : Forms])
    BY DEF Sectioned, Sections
  <2>2. m <= Len(s.pieces)
    BY <2>1
  <2>3. CanGrow(s, c, m)
    BY <1>2, <2>2
  <2> QED BY <2>3, GrowOne
<1>3. Len(s.pieces) \in Nat
  <2>1. s.pieces \in Seq([of : Functions, form : Forms])
    BY DEF Sectioned, Sections
  <2> QED BY <2>1
<1> HIDE DEF T
<1>4. Len(s.pieces) \in T
  BY <1>1, <1>2, <1>3, Induction
<1> QED BY <1>3, <1>4 DEF T

\* What Upto is.
LEMMA UptoGrows ==
  ASSUME NEW s, NEW c, Sectioned(s, c)
  PROVE  /\ Upto(s, c) \in [0..Len(s.pieces) -> Seq(Int)]
         /\ Grows(Upto(s, c), s, c, Len(s.pieces))
<1> DEFINE n == Len(s.pieces)
           Step(u, k) ==
             IF k = 0 THEN <<>>
             ELSE u[k - 1] \o Piece(s.pieces[k], c, s.VirtualAddress + Len(u[k - 1]))
           upto == CHOOSE u : u = [k \in 0..n |-> Step(u, k)]
<1>1. n \in Nat
  <2>1. s.pieces \in Seq([of : Functions, form : Forms])
    BY DEF Sectioned, Sections
  <2> QED BY <2>1
<1>2. Upto(s, c) = upto
  BY DEF Upto
<1>3. PICK w \in [0..n -> Seq(Int)] : Grows(w, s, c, n)
  BY Growing DEF CanGrow
<1>4. \A k \in 0..n : w[k] = Step(w, k)
  <2> TAKE k \in 0..n
  <2>1. CASE k = 0
    BY <1>3, <2>1 DEF Grows
  <2>2. CASE k # 0
    <3>1. k \in 1..n
      BY <1>1, <2>2
    <3> QED BY <1>3, <2>2, <3>1 DEF Grows
  <2> QED BY <2>1, <2>2
<1> HIDE DEF Step
<1>5. w = [k \in 0..n |-> Step(w, k)]
  BY <1>4
<1>6. upto = [k \in 0..n |-> Step(upto, k)]
  BY <1>5, Zenon
<1> HIDE DEF upto
<1>7. DOMAIN upto = 0..n /\ \A k \in 0..n : upto[k] = Step(upto, k)
  <2>1. DOMAIN upto = 0..n
    BY <1>6
  <2>2. ASSUME NEW k \in 0..n PROVE upto[k] = Step(upto, k)
    <3>1. [j \in 0..n |-> Step(upto, j)][k] = Step(upto, k)
      OBVIOUS
    <3> QED BY <1>6, <3>1
  <2> QED BY <2>1, <2>2
<1>8. Grows(upto, s, c, n)
  <2>1. 0 \in 0..n /\ \A k \in 1..n : k \in 0..n /\ k # 0
    BY <1>1
  <2> QED BY <1>7, <2>1 DEF Grows, Step
<1> DEFINE T == {k \in Nat : k <= n => upto[k] \in Seq(Int)}
<1>9. 0 \in T
  BY <1>8 DEF Grows
<1>10. ASSUME NEW k \in Nat, k \in T PROVE k + 1 \in T
  <2> SUFFICES ASSUME k + 1 <= n PROVE upto[k + 1] \in Seq(Int)
    OBVIOUS
  <2>1. k + 1 \in 1..n /\ (k + 1) - 1 = k /\ k <= n
    BY <1>1
  <2>2. upto[k + 1] = upto[k] \o Piece(s.pieces[k + 1], c, s.VirtualAddress + Len(upto[k]))
    BY <1>8, <2>1 DEF Grows
  <2>3. upto[k] \in Seq(Int)
    BY <1>10, <2>1
  <2> QED BY <2>1, <2>2, <2>3, OnePieceMore
<1>11. ASSUME NEW k \in 0..n PROVE upto[k] \in Seq(Int)
  <2> HIDE DEF T
  <2>1. k \in T
    BY <1>9, <1>10, Induction
  <2> QED BY <1>1, <2>1 DEF T
<1>12. upto \in [0..n -> Seq(Int)]
  <2>1. \A k \in 0..n : Step(upto, k) \in Seq(Int)
    BY <1>7, <1>11
  <2> QED BY <1>6, <2>1
<1> QED BY <1>2, <1>8, <1>12

\* The bytes up to a piece stay where they are when the others follow.
LEMMA UptoWithin ==
  ASSUME NEW s, NEW c, Sectioned(s, c), NEW k \in 0..Len(s.pieces)
  PROVE  /\ Upto(s, c)[k] \in Seq(Int) /\ Bytes(s, c) \in Seq(Int)
         /\ Starts(Upto(s, c)[k], Bytes(s, c))
<1> DEFINE n == Len(s.pieces)
           u == Upto(s, c)
           Within(m) == /\ Len(u[k]) <= Len(u[m])
                        /\ \A j \in 1..Len(u[k]) : u[m][j] = u[k][j]
           T == {m \in Nat : k + m <= n => Within(k + m)}
<1>1. n \in Nat
  <2>1. s.pieces \in Seq([of : Functions, form : Forms])
    BY DEF Sectioned, Sections
  <2> QED BY <2>1
<1>2. u \in [0..n -> Seq(Int)] /\ Grows(u, s, c, n)
  BY UptoGrows
<1>3. u[k] \in Seq(Int) /\ u[n] \in Seq(Int) /\ Bytes(s, c) = u[n]
  BY <1>1, <1>2 DEF Bytes
<1> HIDE DEF u
<1>4. 0 \in T
  BY <1>3
<1>5. ASSUME NEW m \in Nat, m \in T PROVE m + 1 \in T
  <2> SUFFICES ASSUME k + (m + 1) <= n PROVE Within(k + (m + 1))
    OBVIOUS
  <2>1. k + (m + 1) \in 1..n /\ (k + (m + 1)) - 1 = k + m /\ k + m \in 0..n
    BY <1>1
  <2> DEFINE x == Piece(s.pieces[k + (m + 1)], c, s.VirtualAddress + Len(u[k + m]))
  <2>2. u[k + (m + 1)] = u[k + m] \o x
    BY <1>2, <2>1 DEF Grows
  <2>3. u[k + m] \in Seq(Int) /\ u[k + (m + 1)] \in Seq(Int)
    <3>1. k + (m + 1) \in 0..n
      BY <1>1
    <3> QED BY <1>2, <2>1, <3>1
  <2>4. x \in Seq(Int)
    <3>1. s.pieces[k + (m + 1)] \in [of : Functions, form : Forms]
      <4>1. s.pieces \in Seq([of : Functions, form : Forms])
        BY DEF Sectioned, Sections
      <4> QED BY <2>1, <4>1, Elements
    <3>2. s.VirtualAddress + Len(u[k + m]) \in Int
      BY <2>3 DEF Sectioned, Sections
    <3> QED BY <3>1, <3>2, PieceTypes DEF Sectioned
  <2>5. Within(k + m)
    BY <1>5, <2>1
  <2> HIDE DEF x
  <2>6. /\ Len(u[k + (m + 1)]) = Len(u[k + m]) + Len(x) /\ Len(x) \in Nat
        /\ \A j \in 1..Len(u[k + m]) : u[k + (m + 1)][j] = u[k + m][j]
    BY <2>2, <2>3, <2>4
  <2>7. Len(u[k]) \in Nat /\ Len(u[k + m]) \in Nat
    BY <1>3, <2>3
  <2> QED BY <2>5, <2>6, <2>7
<1>6. n - k \in Nat /\ k + (n - k) = n
  BY <1>1
<1>7. Within(n)
  <2> HIDE DEF T
  <2>1. n - k \in T
    BY <1>4, <1>5, <1>6, Induction
  <2>2. k + (n - k) <= n => Within(k + (n - k))
    BY <2>1 DEF T
  <2> QED BY <1>1, <1>6, <2>2
<1> QED BY <1>3, <1>7 DEF u, Starts

\* What a piece that is a whole function consists of.
LEMMA WholePiece ==
  ASSUME NEW f, NEW c, NEW a
  PROVE  Piece([of |-> f, form |-> "whole"], c, a) =
           [j \in 1..Distance[f] |-> nop] \o (Compiled(f, c, a) \o <<ret>>)
BY DEF Piece

\* A text that something precedes and something follows, in a longer text.
LEMMA Between ==
  ASSUME NEW S, NEW s \in Seq(S), NEW p \in Seq(S), NEW t \in Seq(S), NEW e \in S,
         NEW all \in Seq(S), Starts(s \o (p \o (t \o <<e>>)), all)
  PROVE  Has(all, t, Len(s) + Len(p))
<1> DEFINE te  == t \o <<e>>
           pte == p \o te
           u   == s \o pte
<1>1. /\ Len(s) \in Nat /\ Len(p) \in Nat /\ Len(t) \in Nat /\ Len(all) \in Nat
      /\ <<e>> \in Seq(S) /\ Len(<<e>>) = 1
  OBVIOUS
<1>2. te \in Seq(S) /\ Joined(te, t, <<e>>)
  BY <1>1, Joins
<1> HIDE DEF te
<1>3. pte \in Seq(S) /\ Joined(pte, p, te)
  BY <1>2, Joins
<1> HIDE DEF pte
<1>4. u \in Seq(S) /\ Joined(u, s, pte)
  BY <1>3, Joins
<1> HIDE DEF u
<1>5. Len(te) = Len(t) + 1 /\ Len(pte) = Len(p) + Len(te) /\ Len(u) = Len(s) + Len(pte)
  BY <1>1, <1>2, <1>3, <1>4 DEF Joined
<1>6. Starts(u, all)
  BY DEF te, pte, u
<1>7. ASSUME NEW j \in 1..Len(t) PROVE all[(Len(s) + Len(p)) + j] = t[j]
  <2>1. j \in 1..Len(te) /\ Len(p) + j \in 1..Len(pte)
    BY <1>1, <1>5
  <2>2. u[Len(s) + (Len(p) + j)] = t[j]
    BY <1>2, <1>3, <1>4, <2>1 DEF Joined
  <2>3. (Len(s) + Len(p)) + j = Len(s) + (Len(p) + j) /\ Len(s) + (Len(p) + j) \in 1..Len(u)
    BY <1>1, <1>5
  <2> QED BY <1>6, <2>2, <2>3 DEF Starts
<1> QED BY <1>1, <1>5, <1>6, <1>7 DEF Starts, Has

\* The code of a function is in the section, past what the signature leaves out.
LEMMA WholeInSection ==
  ASSUME NEW s, NEW c, Sectioned(s, c), NEW f \in Functions,
         NEW k \in 1..Len(s.pieces), s.pieces[k] = [of |-> f, form |-> "whole"],
         NEW b, b = Len(Upto(s, c)[k - 1]) + Distance[f]
  PROVE  b \in Nat /\ Has(Bytes(s, c), Compiled(f, c, PieceAt(s, c, k)), b)
<1> DEFINE n    == Len(s.pieces)
           u    == Upto(s, c)
           code == Compiled(f, c, PieceAt(s, c, k))
           pad  == [j \in 1..Distance[f] |-> nop]
<1>1. k \in 0..n /\ k - 1 \in 0..n
  <2>1. s.pieces \in Seq([of : Functions, form : Forms])
    BY DEF Sectioned, Sections
  <2> QED BY <2>1
<1>2. u[k] \in Seq(Int) /\ Bytes(s, c) \in Seq(Int) /\ Starts(u[k], Bytes(s, c))
  BY <1>1, UptoWithin, Zenon
<1>3. u[k - 1] \in Seq(Int)
  BY <1>1, UptoWithin, Zenon
<1>4. PieceAt(s, c, k) \in Int /\ PieceAt(s, c, k) = s.VirtualAddress + Len(u[k - 1])
  BY <1>3 DEF PieceAt, Sectioned, Sections
<1>5. code \in Seq(Int) /\ Len(code) = Len(Signature[f])
  BY <1>4, CompiledTypes DEF Sectioned
<1>6. pad \in Seq(Int) /\ Len(pad) = Distance[f] /\ Distance[f] \in Nat
  BY SignatureTypes DEF nop
<1>7. u[k] = u[k - 1] \o (pad \o (code \o <<ret>>))
  <2>1. Piece(s.pieces[k], c, PieceAt(s, c, k)) = pad \o (code \o <<ret>>)
    BY WholePiece, Zenon
  <2>2. Grows(u, s, c, n)
    BY UptoGrows
  <2> HIDE DEF u, code, pad
  <2>3. u[k] = u[k - 1] \o Piece(s.pieces[k], c, s.VirtualAddress + Len(u[k - 1]))
    BY <2>2 DEF Grows
  <2> QED BY <1>4, <2>1, <2>3, Zenon
<1>8. b = Len(u[k - 1]) + Len(pad) /\ Len(u[k - 1]) \in Nat
  BY <1>3, <1>6
<1>9. ret \in Int
  BY DEF ret
<1> HIDE DEF u, code, pad
<1>10. Starts(u[k - 1] \o (pad \o (code \o <<ret>>)), Bytes(s, c))
  BY <1>2, <1>7
<1>11. Has(Bytes(s, c), code, Len(u[k - 1]) + Len(pad))
  BY <1>2, <1>3, <1>5, <1>6, <1>9, <1>10, Between
<1> QED BY <1>6, <1>8, <1>11 DEF code

-----------------------------------------------------------------------------
(***************************************************************************)
(* Operands                                                                *)
(***************************************************************************)

\* Four bytes, read as a number in two's complement, are what was written.
LEMMA Decodes ==
  ASSUME NEW n \in Int, -MaxAddress - 1 <= n, n <= MaxAddress, NEW i \in Int,
         \A j \in 1..4 : data[i + (j - 1)] = LittleEndian(n)[j]
  PROVE  Dword(i) = n
<1> DEFINE q == n \div 256
           r == q \div 256
           t == r \div 256
<1>1. /\ q \in Int /\ n = 256 * q + (n % 256) /\ n % 256 \in 0..255
      /\ r \in Int /\ q = 256 * r + (q % 256) /\ q % 256 \in 0..255
      /\ t \in Int /\ r = 256 * t + (r % 256) /\ r % 256 \in 0..255
  BY SMT
<1>2. n \div 65536 = r /\ n \div 16777216 = t
  BY SMT
<1>3. -128 <= t /\ t <= 127
  BY <1>1, SMT DEF MaxAddress
<1>4. t % 256 = IF t < 0 THEN t + 256 ELSE t
  BY <1>1, <1>3, SMT
<1>5. LittleEndian(n) = <<n % 256, q % 256, r % 256, t % 256>>
  BY <1>2, SMT DEF LittleEndian
<1>6. /\ data[i] = n % 256 /\ data[i + 1] = q % 256 /\ data[i + 2] = r % 256
      /\ data[i + 3] = t % 256
  <2> HIDE DEF q, r, t
  <2>1. /\ data[i] = LittleEndian(n)[1] /\ data[i + 1] = LittleEndian(n)[2]
        /\ data[i + 2] = LittleEndian(n)[3] /\ data[i + 3] = LittleEndian(n)[4]
    BY SMT
  <2> QED BY <1>5, <2>1, SMT
<1> HIDE DEF q, r, t
<1>7. Dword(i) = (n % 256) + 256 * (q % 256) + 65536 * (r % 256)
                   + 16777216 * (IF t % 256 >= 128 THEN (t % 256) - 256 ELSE t % 256)
  BY <1>6, SMT DEF Dword
<1>8. (IF t % 256 >= 128 THEN (t % 256) - 256 ELSE t % 256) = t
  BY <1>1, <1>3, <1>4, SMT
<1> QED BY <1>1, <1>7, <1>8, SMT

\* How many bytes are open at the beginning of a signature,
LEMMA OpenNone ==
  ASSUME NEW sig, NEW k \in Nat, \A m \in 1..k : sig[m] # xx
  PROVE  Open(sig, k) = 0
<1>1. {m \in 1..k : sig[m] = xx} = {}
  OBVIOUS
<1> QED BY <1>1, FS_EmptySet DEF Open

\* and at a place, from how many there are before.
LEMMA OpenNext ==
  ASSUME NEW sig, NEW k \in Nat, sig[k + 1] = xx
  PROVE  Open(sig, k + 1) = Open(sig, k) + 1
<1> DEFINE S == {m \in 1..k : sig[m] = xx}
<1>1. IsFiniteSet(1..k)
  BY FS_Interval
<1>2. IsFiniteSet(S)
  BY <1>1, FS_Subset
<1>3. k + 1 \notin S /\ {m \in 1..(k + 1) : sig[m] = xx} = S \union {k + 1}
  OBVIOUS
<1>4. Cardinality(S \union {k + 1}) = Cardinality(S) + 1
  <2> HIDE DEF S
  <2> QED BY <1>2, <1>3, FS_AddElement
<1> QED BY <1>3, <1>4 DEF Open

\* The two bytes of the offset that processConfirmClick's signature leaves open,
\* and the two that it fixes.
LEMMA OffsetBytes ==
  ASSUME NEW c, c.layout \in Int, c.engine \in Int, NEW a \in Int,
         0 <= c.layout + Panel0, c.layout + Panel0 < 65536, NEW j \in 1..4
  PROVE  Compiled("processConfirmClick", c, a)[2 + j] = LittleEndian(c.layout + Panel0)[j]
<1> DEFINE f   == "processConfirmClick"
           sig == Signature[f]
           n   == c.layout + Panel0
<1>1. /\ f \in Functions /\ Len(sig) = 31 /\ sig[1] # xx /\ sig[2] # xx
      /\ sig[3] = xx /\ sig[4] = xx /\ sig[5] = 0 /\ sig[6] = 0
  BY DEF Signature, Functions, xx
<1> HIDE DEF sig
<1>2. Open(sig, 2) = 0
  BY <1>1, OpenNone
<1>3. Open(sig, 3) = 1
  <2>1. Open(sig, 2 + 1) = Open(sig, 2) + 1
    BY <1>1, OpenNext
  <2> QED BY <1>2, <2>1
<1>4. Open(sig, 4) = 2
  <2>1. Open(sig, 3 + 1) = Open(sig, 3) + 1
    BY <1>1, OpenNext
  <2> QED BY <1>3, <2>1
<1>5. Operand(f, c, a) = LittleEndian(n)
  BY DEF Operand
<1>6. \A k \in 1..31 : Compiled(f, c, a)[k] =
        IF sig[k] = xx THEN Operand(f, c, a)[((Open(sig, k) - 1) % 4) + 1] ELSE sig[k]
  <2>1. Follows(Compiled(f, c, a), sig, Operand(f, c, a))
    BY <1>1, CompiledTypes DEF sig
  <2> QED BY <1>1, <2>1 DEF Follows
<1> HIDE DEF f, n
<1>7. Compiled(f, c, a)[3] = LittleEndian(n)[1] /\ Compiled(f, c, a)[4] = LittleEndian(n)[2]
  <2>1. ((1 - 1) % 4) + 1 = 1 /\ ((2 - 1) % 4) + 1 = 2 /\ 3 \in 1..31 /\ 4 \in 1..31
    BY SMT
  <2> QED BY <1>1, <1>3, <1>4, <1>5, <1>6, <2>1
<1>8. Compiled(f, c, a)[5] = 0 /\ Compiled(f, c, a)[6] = 0
  <2>1. 5 \in 1..31 /\ 6 \in 1..31 /\ 0 # xx
    BY DEF xx
  <2> QED BY <1>1, <1>6, <2>1
<1>9. LittleEndian(n)[3] = 0 /\ LittleEndian(n)[4] = 0
  <2>1. n \in Int /\ 0 <= n /\ n < 65536
    BY SMT DEF n, Panel0
  <2>2. n \div 65536 = 0 /\ n \div 16777216 = 0
    BY <2>1, SMT
  <2> QED BY <2>2, SMT DEF LittleEndian
<1>10. j = 1 \/ j = 2 \/ j = 3 \/ j = 4
  OBVIOUS
<1>11. Compiled(f, c, a)[2 + j] = LittleEndian(n)[j]
  BY <1>7, <1>8, <1>9, <1>10, SMT
<1> QED BY <1>11 DEF f, n

\* The four bytes of the address that OpenLoginPanel calls by.
LEMMA AddressBytes ==
  ASSUME NEW c, c.layout \in Int, c.engine \in Int, NEW a \in Int, NEW j \in 1..4
  PROVE  Compiled("OpenLoginPanel", c, a)[16 + j] = LittleEndian(c.engine - (a + 20))[j]
<1> DEFINE f   == "OpenLoginPanel"
           sig == Signature[f]
           n   == c.engine - (a + 20)
<1>1. /\ f \in Functions /\ Len(sig) = 32 /\ \A m \in 1..16 : sig[m] # xx
      /\ sig[17] = xx /\ sig[18] = xx /\ sig[19] = xx /\ sig[20] = xx
  BY DEF Signature, Functions, xx
<1> HIDE DEF sig
<1>2. Open(sig, 16) = 0
  BY <1>1, OpenNone
<1>3. Open(sig, 17) = 1
  <2>1. Open(sig, 16 + 1) = Open(sig, 16) + 1
    BY <1>1, OpenNext
  <2> QED BY <1>2, <2>1
<1>4. Open(sig, 18) = 2
  <2>1. Open(sig, 17 + 1) = Open(sig, 17) + 1
    BY <1>1, OpenNext
  <2> QED BY <1>3, <2>1
<1>5. Open(sig, 19) = 3
  <2>1. Open(sig, 18 + 1) = Open(sig, 18) + 1
    BY <1>1, OpenNext
  <2> QED BY <1>4, <2>1
<1>6. Open(sig, 20) = 4
  <2>1. Open(sig, 19 + 1) = Open(sig, 19) + 1
    BY <1>1, OpenNext
  <2> QED BY <1>5, <2>1
<1>7. Operand(f, c, a) = LittleEndian(n)
  BY DEF Operand
<1>8. \A k \in 1..32 : Compiled(f, c, a)[k] =
        IF sig[k] = xx THEN Operand(f, c, a)[((Open(sig, k) - 1) % 4) + 1] ELSE sig[k]
  <2>1. Follows(Compiled(f, c, a), sig, Operand(f, c, a))
    BY <1>1, CompiledTypes DEF sig
  <2> QED BY <1>1, <2>1 DEF Follows
<1> HIDE DEF f, n
<1>9. j = 1 \/ j = 2 \/ j = 3 \/ j = 4
  OBVIOUS
<1>10. sig[16 + j] = xx /\ Open(sig, 16 + j) = j
  BY <1>1, <1>3, <1>4, <1>5, <1>6, <1>9, SMT
<1>11. ((j - 1) % 4) + 1 = j /\ 16 + j \in 1..32
  BY <1>9, SMT
<1>12. Compiled(f, c, a)[16 + j] = LittleEndian(n)[j]
  BY <1>7, <1>8, <1>10, <1>11
<1> QED BY <1>12 DEF f, n

-----------------------------------------------------------------------------
(***************************************************************************)
(* Where signatures fit                                                    *)
(***************************************************************************)

\* What the assumptions say of a client that is searched.
LEMMA ClientTypes ==
  ASSUME NEW c \in Clients, NEW n \in DOMAIN c.sections
  PROVE  Sectioned(c.sections[n], c)
<1>1. c.sections \in Seq(Sections)
  BY ClientsAssumption, SMT
<1>2. c.sections[n] \in Sections
  BY <1>1, Elements
<1>3. c.layout \in Int /\ c.engine \in Nat
  BY ClientsAssumption, SMT
<1> QED BY <1>2, <1>3 DEF Sectioned

\* What they say of its sections.
LEMMA SectionTypes ==
  ASSUME NEW s, NEW c, Sectioned(s, c)
  PROVE  s.VirtualAddress \in Nat /\ Len(s.pieces) \in Nat
         /\ DOMAIN s.pieces = 1..Len(s.pieces)
<1>1. s.pieces \in Seq([of : Functions, form : Forms]) /\ s.VirtualAddress \in Nat
  BY DEF Sectioned, Sections
<1> QED BY <1>1, Elements

\* A signature fits the function it is a piece of, wherever it is.
LEMMA FitsItsFunction ==
  ASSUME NEW s, NEW c, Sectioned(s, c), NEW f \in Functions,
         NEW k \in 1..Len(s.pieces), s.pieces[k] = [of |-> f, form |-> "whole"]
  PROVE  Len(Upto(s, c)[k - 1]) + Distance[f] + 1 \in Fits(Bytes(s, c), Signature[f])
<1> DEFINE sig   == Signature[f]
           bytes == Bytes(s, c)
           code  == Compiled(f, c, PieceAt(s, c, k))
           b     == Len(Upto(s, c)[k - 1]) + Distance[f]
           open  == Operand(f, c, PieceAt(s, c, k))
<1>1. b \in Nat /\ Has(bytes, code, b)
  BY WholeInSection
<1>2. PieceAt(s, c, k) \in Int
  <2>1. k - 1 \in 0..Len(s.pieces)
    BY SectionTypes
  <2>2. Upto(s, c)[k - 1] \in Seq(Int)
    BY <2>1, UptoWithin
  <2> QED BY <2>2, SectionTypes DEF PieceAt
<1>3. Len(code) = Len(sig) /\ Follows(code, sig, open)
  BY <1>2, CompiledTypes DEF Sectioned
<1>4. Len(sig) \in Nat \ {0} /\ DOMAIN sig = 1..Len(sig)
  BY SignatureTypes
<1>5. Len(bytes) \in Nat
  <2>1. 0 \in 0..Len(s.pieces)
    BY SectionTypes
  <2>2. bytes \in Seq(Int)
    BY <2>1, UptoWithin
  <2> QED BY <2>2
<1> HIDE DEF sig, bytes, code, b, open
<1>6. \A j \in 1..Len(sig) : bytes[b + j] = code[j]
  BY <1>1, <1>3 DEF Has
<1>7. MatchesAt(bytes, sig, b + 1)
  <2> SUFFICES ASSUME NEW j \in 1..Len(sig) PROVE sig[j] \in {xx, bytes[(b + 1) + j - 1]}
    BY <1>4 DEF MatchesAt
  <2>1. (b + 1) + j - 1 = b + j
    BY <1>1
  <2>2. sig[j] = xx \/ code[j] = sig[j]
    BY <1>3 DEF Follows
  <2> QED BY <1>6, <2>1, <2>2
<1>8. b + 1 \in 1..(Len(bytes) + 1 - Len(sig))
  BY <1>1, <1>3, <1>4, <1>5 DEF Has
<1>9. b + 1 \in Fits(bytes, sig)
  BY <1>7, <1>8 DEF Fits
<1> QED BY <1>9 DEF b, sig, bytes

\* The section that is searched is the first of code, and there is no other.
LEMMA TheSection ==
  ASSUME client \in Clients, segment \in CodeSection, NEW f
  PROVE  /\ segment \in DOMAIN client.sections /\ client.sections[segment].code
         /\ Whereabouts(f) =
              {PieceAt(client.sections[segment], client, k) :
                 k \in {m \in DOMAIN client.sections[segment].pieces :
                          client.sections[segment].pieces[m] = [of |-> f, form |-> "whole"]}}
         /\ Likenesses(f) =
              {client.sections[segment].VirtualAddress + i - 1 - Distance[f] :
                 i \in Fits(Bytes(client.sections[segment], client), Signature[f])}
<1> DEFINE coded == {n \in DOMAIN client.sections : client.sections[n].code}
           There(n) == {PieceAt(client.sections[n], client, k) :
                 k \in {m \in DOMAIN client.sections[n].pieces :
                          client.sections[n].pieces[m] = [of |-> f, form |-> "whole"]}}
           Like(n) == {client.sections[n].VirtualAddress + i - 1 - Distance[f] :
                         i \in Fits(Bytes(client.sections[n], client), Signature[f])}
<1>1. Len(client.sections) \in Nat /\ DOMAIN client.sections = 1..Len(client.sections)
  <2>1. client.sections \in Seq(Sections)
    BY ClientsAssumption, SMT
  <2> QED BY <2>1, Elements
<1>2. /\ segment \in DOMAIN client.sections /\ client.sections[segment].code
      /\ \A m \in 1..(segment - 1) : ~client.sections[m].code
  BY DEF CodeSection, FirstOfCode
<1>3. First(coded) = {segment}
  <2>1. \A m \in coded : segment <= m
    <3> SUFFICES ASSUME NEW m \in coded, ~(segment <= m) PROVE FALSE
      OBVIOUS
    <3>1. m \in 1..(segment - 1)
      BY <1>1, <1>2
    <3> QED BY <1>2, <3>1
  <2>2. segment \in coded /\ \A m \in coded : m \in Int
    BY <1>1, <1>2
  <2> HIDE DEF coded
  <2>3. \A m \in coded : m <= segment => m = segment
    BY <2>1, <2>2
  <2> QED BY <2>1, <2>2, <2>3 DEF First
<1>4. Whereabouts(f) = UNION {There(n) : n \in First(coded)}
  BY DEF Whereabouts
<1>5. FirstOfCode(client.sections) = {segment}
  <2>1. ASSUME NEW n \in FirstOfCode(client.sections) PROVE n = segment
    <3>1. /\ n \in 1..Len(client.sections) /\ client.sections[n].code
          /\ \A m \in 1..(n - 1) : ~client.sections[m].code
      BY <1>1 DEF FirstOfCode
    <3>2. segment \in 1..Len(client.sections)
      BY <1>1, <1>2
    <3>3. ~(n < segment)
      <4>1. n < segment => n \in 1..(segment - 1)
        BY <1>1, <3>1, <3>2
      <4> QED BY <1>2, <3>1, <4>1
    <3>4. ~(segment < n)
      <4>1. segment < n => segment \in 1..(n - 1)
        BY <1>1, <3>1, <3>2
      <4> QED BY <1>2, <3>1, <4>1
    <3> QED BY <1>1, <3>1, <3>2, <3>3, <3>4
  <2> QED BY <2>1 DEF CodeSection
<1>6. Likenesses(f) = UNION {Like(n) : n \in FirstOfCode(client.sections)}
  BY DEF Likenesses
<1> HIDE DEF There, Like, coded
<1>7. Whereabouts(f) = There(segment)
  BY <1>3, <1>4, Zenon
<1>8. Likenesses(f) = Like(segment)
  BY <1>5, <1>6, Zenon
<1> QED BY <1>2, <1>7, <1>8 DEF There, Like

\* What a search in the state it is made in is about.
Searching ==
  /\ client \in Clients /\ segment \in CodeSection
  /\ data = Bytes(client.sections[segment], client)

\* The code subtracts the distances that the game's functions have.
LEMMA SameDistance == Lead = Distance
BY DEF Lead, Distance

\* The section that is searched, and its bytes.
LEMMA SearchedSection ==
  ASSUME Searching
  PROVE  /\ segment \in DOMAIN client.sections /\ Sectioned(client.sections[segment], client)
         /\ client.sections[segment].VirtualAddress \in Nat /\ Len(data) \in Nat
<1>1. segment \in DOMAIN client.sections
  BY TheSection DEF Searching
<1>2. Sectioned(client.sections[segment], client)
  BY <1>1, ClientTypes DEF Searching
<1>3. client.sections[segment].VirtualAddress \in Nat /\ 0 \in 0..Len(client.sections[segment].pieces)
  BY <1>2, SectionTypes
<1>4. data \in Seq(Int)
  BY <1>2, <1>3, UptoWithin DEF Searching
<1> QED BY <1>1, <1>2, <1>3, <1>4

\* The places where a signature matches are those of what reads like its function.
LEMMA Alike ==
  ASSUME Searching, NEW f \in Functions
  PROVE  /\ Likenesses(f) = {FunctionAt(f, i) : i \in Places(Signature[f])}
         /\ \A i \in Places(Signature[f]) :
              i \in Nat \ {0} /\ FunctionAt(f, i) \in Int
                /\ FunctionAt(f, i) = client.sections[segment].VirtualAddress + i - 1 - Distance[f]
<1> DEFINE v == client.sections[segment].VirtualAddress
<1>1. v \in Nat /\ Len(data) \in Nat
  BY SearchedSection
<1>2. Distance[f] \in Nat /\ Lead[f] = Distance[f] /\ Len(Signature[f]) \in Nat
  BY SignatureTypes, SameDistance
<1>3. Likenesses(f) = {v + i - 1 - Distance[f] : i \in Places(Signature[f])}
  BY TheSection DEF Searching, Places
<1>4. ASSUME NEW i \in Places(Signature[f])
      PROVE  /\ i \in Nat \ {0} /\ FunctionAt(f, i) \in Int
             /\ FunctionAt(f, i) = v + i - 1 - Distance[f]
  <2>1. i \in 1..(Len(data) + 1 - Len(Signature[f]))
    BY DEF Places, Fits
  <2>2. i \in Nat \ {0}
    BY <1>1, <1>2, <2>1
  <2>3. FunctionAt(f, i) = v + i - 1 - Distance[f]
    <3> HIDE DEF v
    <3>1. AddressOf(i) = v + i - 1
      BY DEF AddressOf, v
    <3>2. FunctionAt(f, i) = AddressOf(i) - Lead[f]
      BY DEF FunctionAt
    <3> QED BY <1>1, <1>2, <2>2, <3>1, <3>2
  <2> QED BY <1>1, <1>2, <2>2, <2>3
<1> HIDE DEF v
<1>5. Likenesses(f) = {FunctionAt(f, i) : i \in Places(Signature[f])}
  BY <1>3, <1>4
<1> QED BY <1>4, <1>5 DEF v

\* Where the signatures tell, a place that fits is that of a whole function.
LEMMA Matched ==
  ASSUME Searching, Telling, NEW f \in Functions, NEW i \in Places(Signature[f])
  PROVE  \E k \in 1..Len(client.sections[segment].pieces) :
           /\ client.sections[segment].pieces[k] = [of |-> f, form |-> "whole"]
           /\ i - 1 = Len(Upto(client.sections[segment], client)[k - 1]) + Distance[f]
           /\ FunctionAt(f, i) = PieceAt(client.sections[segment], client, k)
           /\ i \in Nat \ {0} /\ PieceAt(client.sections[segment], client, k) \in Int
<1> DEFINE s == client.sections[segment]
<1>1. /\ i \in Nat \ {0} /\ FunctionAt(f, i) \in Int
      /\ FunctionAt(f, i) = s.VirtualAddress + i - 1 - Distance[f]
      /\ FunctionAt(f, i) \in Likenesses(f)
  BY Alike
<1>2. FunctionAt(f, i) \in Whereabouts(f)
  BY <1>1 DEF Telling
<1>3. PICK k \in DOMAIN s.pieces : /\ s.pieces[k] = [of |-> f, form |-> "whole"]
                                   /\ FunctionAt(f, i) = PieceAt(s, client, k)
  BY <1>2, TheSection DEF Searching
<1>4. Sectioned(s, client) /\ s.VirtualAddress \in Nat /\ Distance[f] \in Nat
  BY SearchedSection, SignatureTypes
<1>5. k \in 1..Len(s.pieces) /\ k - 1 \in 0..Len(s.pieces)
  BY <1>4, SectionTypes
<1>6. Len(Upto(s, client)[k - 1]) \in Nat
  <2>1. Upto(s, client)[k - 1] \in Seq(Int)
    BY <1>4, <1>5, UptoWithin
  <2> QED BY <2>1
<1>7. PieceAt(s, client, k) = s.VirtualAddress + Len(Upto(s, client)[k - 1])
  BY DEF PieceAt
<1> HIDE DEF s
<1>8. i - 1 = Len(Upto(s, client)[k - 1]) + Distance[f]
  BY <1>1, <1>3, <1>4, <1>6, <1>7
<1> QED BY <1>1, <1>3, <1>5, <1>8 DEF s

\* The first place that fits is that of the first code that reads like the function.
LEMMA RightPlace ==
  ASSUME Searching, NEW f \in Functions, NEW i \in First(Places(Signature[f]))
  PROVE  Likenesses(f) # {} /\ FunctionAt(f, i) \in First(Likenesses(f))
<1> DEFINE P == Places(Signature[f])
           v == client.sections[segment].VirtualAddress
<1>1. i \in P /\ \A m \in P : i <= m
  BY DEF First
<1>2. /\ Likenesses(f) = {FunctionAt(f, m) : m \in P}
      /\ \A m \in P : m \in Nat /\ FunctionAt(f, m) = v + m - 1 - Distance[f]
  BY Alike
<1>3. v \in Nat /\ Distance[f] \in Nat
  BY SearchedSection, SignatureTypes
<1> HIDE DEF P, v
<1>4. \A m \in P : FunctionAt(f, i) <= FunctionAt(f, m)
  BY <1>1, <1>2, <1>3
<1> QED BY <1>1, <1>2, <1>4 DEF First

\* A function that is there reads like itself.
LEMMA ReadsLikeItself ==
  ASSUME client \in Clients, segment \in CodeSection, NEW f \in Functions
  PROVE  Whereabouts(f) \subseteq Likenesses(f) /\ Likenesses(f) \subseteq Int
<1> DEFINE s == client.sections[segment]
<1>1. segment \in DOMAIN client.sections
  BY TheSection
<1>2. Sectioned(s, client) /\ s.VirtualAddress \in Nat /\ Distance[f] \in Nat
  BY <1>1, ClientTypes, SectionTypes, SignatureTypes
<1>3. Likenesses(f) = {s.VirtualAddress + i - 1 - Distance[f] : i \in Fits(Bytes(s, client), Signature[f])}
  BY TheSection
<1>4. Likenesses(f) \subseteq Int
  <2>1. Fits(Bytes(s, client), Signature[f]) \subseteq Int
    <3>1. 0 \in 0..Len(s.pieces)
      BY <1>2, SectionTypes
    <3>2. Bytes(s, client) \in Seq(Int)
      BY <1>2, <3>1, UptoWithin
    <3>3. Len(Bytes(s, client)) \in Nat /\ Len(Signature[f]) \in Nat
      BY <3>2, SignatureTypes
    <3> HIDE DEF s
    <3>4. Fits(Bytes(s, client), Signature[f]) \subseteq
            1..(Len(Bytes(s, client)) + 1 - Len(Signature[f]))
      BY Zenon DEF Fits
    <3> DEFINE upper == Len(Bytes(s, client)) + 1 - Len(Signature[f])
    <3>5. upper \in Int
      BY <3>3
    <3> HIDE DEF upper
    <3>6. 1..upper \subseteq Int
      BY <3>5
    <3> QED BY <3>4, <3>6, Zenon DEF upper
  <2> HIDE DEF s
  <2> QED BY <1>2, <1>3, <2>1
<1>5. ASSUME NEW k \in DOMAIN s.pieces, s.pieces[k] = [of |-> f, form |-> "whole"]
      PROVE  PieceAt(s, client, k) \in Likenesses(f)
  <2> DEFINE x == Len(Upto(s, client)[k - 1])
  <2>1. k \in 1..Len(s.pieces) /\ k - 1 \in 0..Len(s.pieces)
    BY <1>2, SectionTypes
  <2>2. x + Distance[f] + 1 \in Fits(Bytes(s, client), Signature[f])
    BY <1>2, <1>5, <2>1, FitsItsFunction
  <2>3. x \in Nat
    <3>1. Upto(s, client)[k - 1] \in Seq(Int)
      BY <1>2, <2>1, UptoWithin
    <3> QED BY <3>1
  <2>4. PieceAt(s, client, k) = s.VirtualAddress + x
    BY DEF PieceAt
  <2> HIDE DEF s, x
  <2>5. s.VirtualAddress + x = s.VirtualAddress + (x + Distance[f] + 1) - 1 - Distance[f]
    BY <1>2, <2>3
  <2> QED BY <1>3, <2>2, <2>4, <2>5
<1> QED BY <1>4, <1>5, TheSection

\* Nothing reads like a function whose signature fits nowhere.
LEMMA NoPlace ==
  ASSUME Searching, NEW f \in Functions, Places(Signature[f]) = {}
  PROVE  Likenesses(f) = {}
BY Alike

\* The code that is found is the function's.
LEMMA CodeThere ==
  ASSUME Searching, Telling, NEW f \in Functions, NEW i \in Places(Signature[f])
  PROVE  /\ i \in Nat \ {0} /\ FunctionAt(f, i) \in Int
         /\ Has(data, Compiled(f, client, FunctionAt(f, i)), i - 1)
         /\ Len(Compiled(f, client, FunctionAt(f, i))) = Len(Signature[f])
<1> DEFINE s == client.sections[segment]
<1>1. PICK k \in 1..Len(s.pieces) :
        /\ s.pieces[k] = [of |-> f, form |-> "whole"]
        /\ i - 1 = Len(Upto(s, client)[k - 1]) + Distance[f]
        /\ FunctionAt(f, i) = PieceAt(s, client, k)
        /\ i \in Nat \ {0} /\ PieceAt(s, client, k) \in Int
  BY Matched
<1>2. segment \in DOMAIN client.sections
  BY TheSection DEF Searching
<1>3. Sectioned(s, client)
  BY <1>2, ClientTypes DEF Searching
<1>4. Has(Bytes(s, client), Compiled(f, client, PieceAt(s, client, k)), i - 1)
  BY <1>1, <1>3, WholeInSection
<1>5. Len(Compiled(f, client, PieceAt(s, client, k))) = Len(Signature[f])
  BY <1>1, <1>3, CompiledTypes DEF Sectioned
<1> QED BY <1>1, <1>4, <1>5 DEF Searching

\* What is read of processConfirmClick is how the client's panels are displaced.
LEMMA OffsetRead ==
  ASSUME Searching, Telling, NEW i \in Places(Signature["processConfirmClick"])
  PROVE  OffsetAt(i) = client.layout
<1> DEFINE f    == "processConfirmClick"
           code == Compiled(f, client, FunctionAt(f, i))
           n    == client.layout + Panel0
<1>1. f \in Functions
  BY DEF Functions
<1>2. i \in Nat /\ FunctionAt(f, i) \in Int /\ Has(data, code, i - 1) /\ Len(code) = 31
  BY <1>1, CodeThere, Signatures, SMTT(40)
<1>3. /\ client.layout \in Int /\ client.engine \in Int
      /\ 0 <= client.layout + Panel0 /\ client.layout + Panel0 < 65536
  BY ClientsAssumption, SMT DEF Searching
<1>4. \A j \in 1..4 : code[2 + j] = LittleEndian(n)[j]
  BY <1>2, <1>3, OffsetBytes
<1> HIDE DEF code
<1>5. \A j \in 1..4 : data[(i + 2) + (j - 1)] = LittleEndian(n)[j]
  <2> TAKE j \in 1..4
  <2>1. 2 + j \in 1..Len(code) /\ (i - 1) + (2 + j) = (i + 2) + (j - 1)
    BY <1>2
  <2>2. data[(i - 1) + (2 + j)] = code[2 + j]
    BY <1>2, <2>1 DEF Has
  <2> QED BY <1>4, <2>1, <2>2
<1>6. n \in Int /\ -MaxAddress - 1 <= n /\ n <= MaxAddress /\ i + 2 \in Int
  BY <1>2, <1>3, SMT DEF Panel0, MaxAddress
<1> HIDE DEF n
<1>7. Dword(i + 2) = n
  BY <1>5, <1>6, Decodes, SMT
<1> QED BY <1>3, <1>7, SMT DEF n, OffsetAt, Panel0

\* What is read of OpenLoginPanel leads to where the client keeps GetInstance.
LEMMA AddressRead ==
  ASSUME Searching, Telling, NEW i \in Places(Signature["OpenLoginPanel"])
  PROVE  CalledAt(i) = client.engine
<1> DEFINE f    == "OpenLoginPanel"
           s    == client.sections[segment]
           a    == FunctionAt(f, i)
           code == Compiled(f, client, a)
           n    == client.engine - (a + 20)
<1>1. f \in Functions /\ Lead[f] = 0
  BY DEF Functions, Lead
<1>2. i \in Nat \ {0} /\ a \in Int /\ Has(data, code, i - 1) /\ Len(code) = 32
  BY <1>1, CodeThere, Signatures, SMTT(40)
<1>3. segment \in DOMAIN client.sections /\ s.VirtualAddress \in Nat
  BY TheSection, ClientTypes, SectionTypes DEF Searching
<1>4. /\ client.layout \in Int /\ client.engine \in Nat /\ client.engine <= MaxAddress
      /\ s.VirtualAddress + Len(data) <= MaxAddress
  BY <1>3, ClientsAssumption, SMT DEF Searching
<1>5. \A j \in 1..4 : code[16 + j] = LittleEndian(n)[j]
  <2> HIDE DEF a
  <2>1. client.layout \in Int /\ client.engine \in Int /\ a \in Int
    BY <1>2, <1>4
  <2> QED BY <2>1, AddressBytes
<1>6. a = s.VirtualAddress + i - 1 /\ AddressOf(i) = a
  BY <1>1, <1>2, <1>3 DEF FunctionAt, AddressOf
<1> HIDE DEF code, a
<1>7. \A j \in 1..4 : data[(i + 16) + (j - 1)] = LittleEndian(n)[j]
  <2> TAKE j \in 1..4
  <2>1. 16 + j \in 1..Len(code) /\ (i - 1) + (16 + j) = (i + 16) + (j - 1)
    BY <1>2
  <2>2. data[(i - 1) + (16 + j)] = code[16 + j]
    BY <1>2, <2>1 DEF Has
  <2> QED BY <1>5, <2>1, <2>2
<1>8. Len(data) \in Nat /\ (i - 1) + 32 <= Len(data)
  <2>1. data \in Seq(Int)
    <3>1. Sectioned(s, client) /\ 0 \in 0..Len(s.pieces)
      BY <1>3, ClientTypes, SectionTypes DEF Searching
    <3> QED BY <3>1, UptoWithin DEF Searching
  <2> QED BY <1>2, <2>1 DEF Has
<1>9. n \in Int /\ -MaxAddress - 1 <= n /\ n <= MaxAddress /\ i + 16 \in Int
  <2>1. MaxAddress \in Nat
    BY SMT DEF MaxAddress
  <2>2. a \in Nat /\ a + 20 <= MaxAddress
    BY <1>2, <1>3, <1>4, <1>6, <1>8, <2>1
  <2> QED BY <1>2, <1>4, <2>1, <2>2
<1> HIDE DEF n
<1>10. Dword(i + 16) = n
  BY <1>7, <1>9, Decodes, SMT
<1>11. CalledAt(i) = a + 16 + n + 4
  BY <1>6, <1>10 DEF CalledAt
<1> QED BY <1>2, <1>4, <1>11 DEF n

-----------------------------------------------------------------------------
(***************************************************************************)
(* The searches                                                            *)
(***************************************************************************)

\* What the searches are to set.
Goal(f)      == IF Likenesses(f) = {} THEN {0} ELSE First(Likenesses(f))
LoginGoal    == IF Likenesses("processLogin") # {} THEN Goal("processLogin")
                                                   ELSE Goal("processLogin2")
OffsetGoal   == {IF Likenesses("processConfirmClick") = {} THEN 0 ELSE client.layout}
InstanceGoal == {IF Likenesses("OpenLoginPanel") = {} THEN 0 ELSE client.engine}

\* A pointer, or the offset, that the j-th search sets and no other does.
Settled(j, x, S) == IF next > j THEN x \in S ELSE x = 0

\* The pointer to processLogin has a second search if the first finds nothing.
PointersSettled ==
  /\ Settled(1, original["updateVerifyMode"], Goal("updateVerifyMode"))
  /\ Settled(2, original["processConfirmClick"], Goal("processConfirmClick"))
  /\ Telling => Settled(2, UIPanelOffset, OffsetGoal)
  /\ Settled(3, original["RequestLogin"], Goal("RequestLogin"))
  /\ Settled(4, original["OpenLoginPanel"], Goal("OpenLoginPanel"))
  /\ Telling => Settled(4, original["UIEngineInterfaceGetInstance"], InstanceGoal)
  /\ Settled(6, original["processLogin"], LoginGoal)
  /\ next = 6 => Likenesses("processLogin") = {}
  /\ Settled(7, original["ProcessEvent"], Goal("ProcessEvent"))

SectionRead == segment # 0 => data = Bytes(client.sections[segment], client)

NoCode == \A n \in DOMAIN client.sections : ~client.sections[n].code

LocateInv ==
  /\ client \in Clients /\ next \in 1..8 /\ DOMAIN original = Pointers
  /\ segment \in CodeSection \union {0} /\ (segment = 0 => next = 1)
  /\ SectionRead
  /\ fault # "none" => NoCode
  /\ PointersSettled

\* Before the first search nothing is set.
LEMMA InitLocate == Init => LocateInv
<1> SUFFICES ASSUME Init PROVE LocateInv
  OBVIOUS
<1>1. /\ client \in Clients /\ next = 1 /\ segment = 0 /\ fault = "none" /\ UIPanelOffset = 0
      /\ DOMAIN original = Pointers /\ \A p \in Pointers : original[p] = 0
  BY DEF Init
<1>2. PointersSettled
  BY <1>1 DEF PointersSettled, Settled, Pointers, Functions
<1> QED BY <1>1, <1>2 DEF LocateInv, SectionRead

\* What is to be set is the client's and does not change.
LEMMA SameGoals ==
  ASSUME client' = client
  PROVE  /\ \A f \in Functions : Likenesses(f)' = Likenesses(f) /\ Goal(f)' = Goal(f)
         /\ LoginGoal' = LoginGoal /\ OffsetGoal' = OffsetGoal /\ InstanceGoal' = InstanceGoal
         /\ CodeSection' = CodeSection /\ Telling' = Telling
<1>1. \A f \in Functions : Whereabouts(f)' = Whereabouts(f) /\ Likenesses(f)' = Likenesses(f)
  BY DEF Whereabouts, Likenesses, First, PieceAt
<1>2. \A f \in Functions : Goal(f)' = Goal(f)
  BY <1>1 DEF Goal, First
<1>3. {"processLogin", "processLogin2", "processConfirmClick", "OpenLoginPanel"} \subseteq Functions
  BY DEF Functions
<1>4. LoginGoal' = LoginGoal /\ OffsetGoal' = OffsetGoal /\ InstanceGoal' = InstanceGoal
  BY <1>1, <1>2, <1>3 DEF LoginGoal, OffsetGoal, InstanceGoal
<1>5. CodeSection' = CodeSection
  BY DEF CodeSection, FirstOfCode
<1>6. Telling' = Telling
  BY <1>1 DEF Telling
<1> QED BY <1>1, <1>2, <1>4, <1>5, <1>6

\* What is to be set, as cases.
LEMMA Goals ==
  /\ \A f : IF Likenesses(f) = {} THEN Goal(f) = {0} ELSE Goal(f) = First(Likenesses(f))
  /\ OffsetGoal = {IF Likenesses("processConfirmClick") = {} THEN 0 ELSE client.layout}
  /\ InstanceGoal = {IF Likenesses("OpenLoginPanel") = {} THEN 0 ELSE client.engine}
  /\ LoginGoal = IF Likenesses("processLogin") # {} THEN Goal("processLogin")
                                                     ELSE Goal("processLogin2")
BY DEF Goal, OffsetGoal, InstanceGoal, LoginGoal

\* There are seven searches.
LEMMA OrderLength == Len(Order) = 7
BY DEF Order

\* There is a first section of code if there is any.
LEMMA SomeCode ==
  ASSUME client \in Clients, NEW n \in DOMAIN client.sections, client.sections[n].code
  PROVE  CodeSection # {}
<1> DEFINE coded == {m \in DOMAIN client.sections : client.sections[m].code}
<1>1. Len(client.sections) \in Nat /\ DOMAIN client.sections = 1..Len(client.sections)
  <2>1. client.sections \in Seq(Sections)
    BY ClientsAssumption, SMT
  <2> QED BY <2>1, Elements
<1>2. coded \subseteq Nat /\ coded # {}
  BY <1>1
<1>3. PICK k \in coded : \A m \in coded : k <= m
  <2> HIDE DEF coded
  <2> QED BY <1>2, Smallest
<1>4. \A m \in 1..(k - 1) : ~client.sections[m].code
  <2> SUFFICES ASSUME NEW m \in 1..(k - 1), client.sections[m].code PROVE FALSE
    OBVIOUS
  <2>1. m \in coded /\ ~(k <= m)
    BY <1>1, <1>3
  <2> QED BY <1>3, <2>1
<1> QED BY <1>3, <1>4 DEF CodeSection, FirstOfCode

\* Taking the section sets no pointer.
LEMMA AsBytesInv == LocateInv /\ AsBytes => LocateInv'
<1> SUFFICES ASSUME LocateInv, AsBytes PROVE LocateInv'
  OBVIOUS
<1>1. /\ client' = client /\ next' = next /\ original' = original
      /\ UIPanelOffset' = UIPanelOffset /\ segment = 0 /\ fault = "none"
  BY DEF AsBytes
<1>2. client \in Clients /\ next = 1 /\ DOMAIN original = Pointers /\ PointersSettled
  BY <1>1 DEF LocateInv
<1>3. CodeSection' = CodeSection
  BY <1>1, SameGoals
<1>6. PointersSettled'
  BY <1>1, <1>2, SameGoals DEF PointersSettled, Settled, Functions
<1>4. CASE CodeSection = {}
  <2>1. \A n \in DOMAIN client.sections : ~client.sections[n].code
    BY <1>4, SomeCode DEF LocateInv
  <2>2. segment' = 0
    BY <1>1, <1>4 DEF AsBytes
  <2> QED BY <1>1, <1>2, <1>6, <2>1, <2>2 DEF LocateInv, SectionRead, NoCode
<1>5. CASE CodeSection # {}
  <2>1. segment' = (CHOOSE n \in CodeSection : TRUE) /\ fault' = "none"
        /\ data' = Bytes(client.sections[segment'], client)
    BY <1>1, <1>5 DEF AsBytes
  <2>2. segment' \in CodeSection
    BY <1>5, <2>1
  <2> QED BY <1>1, <1>2, <1>3, <1>6, <2>1, <2>2 DEF LocateInv, SectionRead
<1> QED BY <1>4, <1>5

\* Each search is for one of the functions.
LEMMA Orders ==
  ASSUME NEW n \in 1..7
  PROVE  Order[n] \in Functions
BY DEF Order, Functions

\* What a search that finds nothing leaves to show.
LEMMA NotFoundInv == LocateInv /\ NotFound => LocateInv'
<1> SUFFICES ASSUME LocateInv, NotFound PROVE LocateInv'
  OBVIOUS
<1>1. /\ next \in 1..7 /\ segment # 0 /\ Places(Signature[Order[next]]) = {}
      /\ next' = next + 1 /\ client' = client /\ segment' = segment /\ data' = data
      /\ original' = original /\ UIPanelOffset' = UIPanelOffset /\ fault' = fault
  BY OrderLength DEF NotFound, LocateInv
<1>2. Likenesses(Order[next]) = {}
  BY <1>1, Orders, NoPlace DEF LocateInv, SectionRead, Searching
<1>4. CodeSection' = CodeSection
  BY <1>1, SameGoals
<1>5. PointersSettled'
  <2>1. CASE next = 1
    <3>1. Likenesses("updateVerifyMode") = {} /\ next' = 2
      BY <1>1, <1>2, <2>1 DEF Order
    <3> QED BY <1>1, <2>1, <3>1, SameGoals, Goals
          DEF LocateInv, PointersSettled, Settled, Functions
  <2>2. CASE next = 2
    <3>1. Likenesses("processConfirmClick") = {} /\ next' = 3
      BY <1>1, <1>2, <2>2 DEF Order
    <3> QED BY <1>1, <2>2, <3>1, SameGoals, Goals
          DEF LocateInv, PointersSettled, Settled, Functions
  <2>3. CASE next = 3
    <3>1. Likenesses("RequestLogin") = {} /\ next' = 4
      BY <1>1, <1>2, <2>3 DEF Order
    <3> QED BY <1>1, <2>3, <3>1, SameGoals, Goals
          DEF LocateInv, PointersSettled, Settled, Functions
  <2>4. CASE next = 4
    <3>1. Likenesses("OpenLoginPanel") = {} /\ next' = 5
      BY <1>1, <1>2, <2>4 DEF Order
    <3> QED BY <1>1, <2>4, <3>1, SameGoals, Goals
          DEF LocateInv, PointersSettled, Settled, Functions
  <2>5. CASE next = 5
    <3>1. Likenesses("processLogin") = {} /\ next' = 6
      BY <1>1, <1>2, <2>5 DEF Order
    <3> QED BY <1>1, <2>5, <3>1, SameGoals, Goals
          DEF LocateInv, PointersSettled, Settled, Functions
  <2>6. CASE next = 6
    <3>1. Likenesses("processLogin2") = {} /\ next' = 7
      BY <1>1, <1>2, <2>6 DEF Order
    <3> QED BY <1>1, <2>6, <3>1, SameGoals, Goals
          DEF LocateInv, PointersSettled, Settled, Functions
  <2>7. CASE next = 7
    <3>1. Likenesses("ProcessEvent") = {} /\ next' = 8
      BY <1>1, <1>2, <2>7 DEF Order
    <3> QED BY <1>1, <2>7, <3>1, SameGoals, Goals
          DEF LocateInv, PointersSettled, Settled, Functions
  <2> QED BY <1>1, <2>1, <2>2, <2>3, <2>4, <2>5, <2>6, <2>7
<1> QED BY <1>1, <1>4, <1>5 DEF LocateInv, SectionRead, NoCode

\* What Set changes.
LEMMA Setting ==
  ASSUME DOMAIN original = Pointers, NEW f \in Functions, NEW i,
         NEW g, g = IF f = "processLogin2" THEN "processLogin" ELSE f
  PROVE  /\ DOMAIN Set(f, i) = Pointers /\ Set(f, i)[g] = FunctionAt(f, i)
         /\ f = "OpenLoginPanel" => Set(f, i)["UIEngineInterfaceGetInstance"] = CalledAt(i)
         /\ \A p \in Pointers :
              p # g /\ (p = "UIEngineInterfaceGetInstance" => f # "OpenLoginPanel")
                => Set(f, i)[p] = original[p]
<1>1. /\ g \in Pointers /\ "UIEngineInterfaceGetInstance" \in Pointers
      /\ g # "UIEngineInterfaceGetInstance"
  BY DEF Functions, Pointers
<1> QED BY <1>1 DEF Set

\* What a search that finds something sets is what it was to set.
LEMMA FoundInv == LocateInv /\ Found => LocateInv'
<1> SUFFICES ASSUME LocateInv, Found PROVE LocateInv'
  OBVIOUS
<1>1. /\ next \in 1..7 /\ segment # 0 /\ client' = client /\ segment' = segment
      /\ data' = data /\ fault' = fault
      /\ next' = IF Order[next] = "processLogin" THEN next + 2 ELSE next + 1
  BY OrderLength DEF Found, LocateInv
<1>2. Searching
  BY <1>1 DEF LocateInv, SectionRead, Searching
<1> DEFINE f == Order[next]
           g == IF f = "processLogin2" THEN "processLogin" ELSE f
<1>3. f \in Functions
  BY <1>1, Orders
<1>4. PICK i \in First(Places(Signature[f])) :
        /\ original' = Set(f, i)
        /\ UIPanelOffset' = IF f = "processConfirmClick" THEN OffsetAt(i) ELSE UIPanelOffset
  BY DEF Found
<1>5. Likenesses(f) # {} /\ FunctionAt(f, i) \in Goal(f)
  <2> HIDE DEF f
  <2> QED BY <1>2, <1>3, <1>4, RightPlace, Goals
<1>6. /\ Telling /\ f = "processConfirmClick" => OffsetAt(i) = client.layout
      /\ Telling /\ f = "OpenLoginPanel" => CalledAt(i) = client.engine
  <2>1. i \in Places(Signature[f])
    BY <1>4 DEF First
  <2> QED BY <1>2, <2>1, OffsetRead, AddressRead
<1>7. /\ DOMAIN original' = Pointers /\ original'[g] \in Goal(f) /\ Likenesses(f) # {}
      /\ Telling /\ f = "OpenLoginPanel" =>
           original'["UIEngineInterfaceGetInstance"] = client.engine
      /\ \A p \in Pointers :
           p # g /\ (p = "UIEngineInterfaceGetInstance" => f # "OpenLoginPanel")
             => original'[p] = original[p]
  <2> HIDE DEF f
  <2>1. DOMAIN original = Pointers
    BY DEF LocateInv
  <2> QED BY <1>3, <1>4, <1>5, <1>6, <2>1, Setting
<1>9. CodeSection' = CodeSection
  BY <1>1, SameGoals
<1>10. PointersSettled'
  <2>1. CASE next = 1
    <3>1. f = "updateVerifyMode" /\ g = "updateVerifyMode" /\ next' = 2
      BY <1>1, <2>1 DEF Order
    <3> HIDE DEF f, g
    <3> QED BY <1>1, <1>4, <1>6, <1>7, <2>1, <3>1, SameGoals, Goals
          DEF LocateInv, PointersSettled, Settled, Functions, Pointers
  <2>2. CASE next = 2
    <3>1. f = "processConfirmClick" /\ g = "processConfirmClick" /\ next' = 3
      BY <1>1, <2>2 DEF Order
    <3> HIDE DEF f, g
    <3> QED BY <1>1, <1>4, <1>6, <1>7, <2>2, <3>1, SameGoals, Goals
          DEF LocateInv, PointersSettled, Settled, Functions, Pointers
  <2>3. CASE next = 3
    <3>1. f = "RequestLogin" /\ g = "RequestLogin" /\ next' = 4
      BY <1>1, <2>3 DEF Order
    <3> HIDE DEF f, g
    <3> QED BY <1>1, <1>4, <1>6, <1>7, <2>3, <3>1, SameGoals, Goals
          DEF LocateInv, PointersSettled, Settled, Functions, Pointers
  <2>4. CASE next = 4
    <3>1. f = "OpenLoginPanel" /\ g = "OpenLoginPanel" /\ next' = 5
      BY <1>1, <2>4 DEF Order
    <3> HIDE DEF f, g
    <3> QED BY <1>1, <1>4, <1>6, <1>7, <2>4, <3>1, SameGoals, Goals
          DEF LocateInv, PointersSettled, Settled, Functions, Pointers
  <2>5. CASE next = 5
    <3>1. f = "processLogin" /\ g = "processLogin" /\ next' = 7
      BY <1>1, <2>5 DEF Order
    <3> HIDE DEF f, g
    <3> QED BY <1>1, <1>4, <1>6, <1>7, <2>5, <3>1, SameGoals, Goals
          DEF LocateInv, PointersSettled, Settled, Functions, Pointers
  <2>6. CASE next = 6
    <3>1. f = "processLogin2" /\ g = "processLogin" /\ next' = 7
      BY <1>1, <2>6 DEF Order
    <3> HIDE DEF f, g
    <3> QED BY <1>1, <1>4, <1>6, <1>7, <2>6, <3>1, SameGoals, Goals
          DEF LocateInv, PointersSettled, Settled, Functions, Pointers
  <2>7. CASE next = 7
    <3>1. f = "ProcessEvent" /\ g = "ProcessEvent" /\ next' = 8
      BY <1>1, <2>7 DEF Order
    <3> HIDE DEF f, g
    <3> QED BY <1>1, <1>4, <1>6, <1>7, <2>7, <3>1, SameGoals, Goals
          DEF LocateInv, PointersSettled, Settled, Functions, Pointers
  <2> QED BY <1>1, <2>1, <2>2, <2>3, <2>4, <2>5, <2>6, <2>7
<1>11. next' \in 1..8
  BY <1>1 DEF Order
<1> QED BY <1>1, <1>7, <1>9, <1>10, <1>11 DEF LocateInv, SectionRead, NoCode

\* And nothing happens by itself.
LEMMA StutterLocate == LocateInv /\ UNCHANGED vars => LocateInv'
<1> SUFFICES ASSUME LocateInv, UNCHANGED vars PROVE LocateInv'
  OBVIOUS
<1>1. PointersSettled'
  BY SameGoals DEF LocateInv, PointersSettled, Settled, Functions, vars
<1> QED BY <1>1, SameGoals DEF LocateInv, SectionRead, NoCode, vars

\* In every client, whatever its sections hold, the searches go through the first
\* section of code in the order of dllmain.cpp, and at each point every pointer that
\* was searched for is that of the first code that reads like its function, or none.
THEOREM LocateInvariant == Spec => []LocateInv
<1>1. LocateInv /\ [Next]_vars => LocateInv'
  BY AsBytesInv, NotFoundInv, FoundInv, StutterLocate DEF Next
<1> QED BY InitLocate, <1>1, PTL DEF Spec

\* In every client, whatever else its code reads like: a function that is there is
\* found, at its beginning, or passed over for code before it that reads the same.
THEOREM FunctionsFound == Spec => []MissedForLikeness
<1>1. LocateInv => MissedForLikeness
  <2> SUFFICES ASSUME LocateInv, Searched PROVE MissedForLikeness
    BY DEF MissedForLikeness
  <2>1. next = 8 /\ client \in Clients /\ segment \in CodeSection
    BY OrderLength DEF Searched, LocateInv
  <2>2. ASSUME NEW f \in Functions, NEW x \in Goal(f), NEW a \in Whereabouts(f)
        PROVE  x = a \/ (x \in Likenesses(f) /\ x < a)
    <3>1. a \in Likenesses(f) /\ Likenesses(f) \subseteq Int
      BY <2>1, ReadsLikeItself
    <3>2. x \in First(Likenesses(f))
      BY <3>1, Goals
    <3>3. x \in Likenesses(f) /\ x <= a
      BY <3>1, <3>2 DEF First
    <3> QED BY <3>1, <3>3
  <2>3. ASSUME NEW f \in OneSignature PROVE f \in Functions /\ original[f] \in Goal(f)
    BY <2>1 DEF OneSignature, Functions, LocateInv, PointersSettled, Settled
  <2>4. original["processLogin"] \in LoginGoal
    BY <2>1 DEF LocateInv, PointersSettled, Settled
  <2>5. "processLogin" \in Functions /\ "processLogin2" \in Functions
    BY DEF Functions
  <2>6. ASSUME NEW a \in Whereabouts("processLogin")
        PROVE  original["processLogin"] \in Goal("processLogin")
    <3>1. Likenesses("processLogin") # {}
      BY <2>1, <2>5, ReadsLikeItself
    <3> QED BY <2>4, <3>1, Goals
  <2>7. \/ original["processLogin"] \in Likenesses("processLogin")
        \/ original["processLogin"] \in Goal("processLogin2")
    BY <2>4, Goals DEF First
  <2> QED BY <2>2, <2>3, <2>5, <2>6, <2>7 DEF MissedForLikeness
<1> QED BY LocateInvariant, <1>1, PTL

\* Where the signatures tell its functions from its other code, a client's pointers are
\* set to its functions and to nothing else, and the plugin gives up no client with code.
THEOREM OnlyFunctionsFound == Spec => []FindsFunctions
<1>1. LocateInv => FindsFunctions
  <2> SUFFICES ASSUME LocateInv PROVE FindsFunctions
    OBVIOUS
  <2>1. ASSUME fault # "none", NEW n \in DOMAIN client.sections
        PROVE  ~client.sections[n].code
    BY <2>1 DEF LocateInv, NoCode
  <2>2. ASSUME Searched, Telling
        PROVE  /\ \A f \in OneSignature : original[f] \in OrNone(Whereabouts(f))
               /\ original["processLogin"] \in
                    OrNone(IF Whereabouts("processLogin") # {} THEN Whereabouts("processLogin")
                                                               ELSE Whereabouts("processLogin2"))
    <3>1. next = 8
      BY <2>2, OrderLength DEF Searched, LocateInv
    <3>2. ASSUME NEW f \in Functions
          PROVE  /\ Likenesses(f) = Whereabouts(f)
                 /\ Goal(f) \subseteq OrNone(Whereabouts(f))
      <4>1. Likenesses(f) = Whereabouts(f)
        BY <2>2 DEF Telling
      <4> QED BY <4>1, Goals DEF OrNone, First
    <3>3. ASSUME NEW f \in OneSignature PROVE f \in Functions /\ original[f] \in Goal(f)
      BY <3>1 DEF OneSignature, Functions, LocateInv, PointersSettled, Settled
    <3>4. original["processLogin"] \in LoginGoal
      BY <3>1 DEF LocateInv, PointersSettled, Settled
    <3>5. "processLogin" \in Functions /\ "processLogin2" \in Functions
      BY DEF Functions
    <3> QED BY <3>2, <3>3, <3>4, <3>5, Goals
  <2> QED BY <2>1, <2>2 DEF FindsFunctions
<1> QED BY LocateInvariant, <1>1, PTL

\* Whatever the displacement of a client's panels and wherever it keeps GetInstance,
\* before the code or after it, that is what is decoded from the operands, if the
\* signatures tell its functions from its other code.
THEOREM OperandsDecoded == Spec => []OperandsAsCompiled
<1>1. LocateInv => OperandsAsCompiled
  <2> SUFFICES ASSUME LocateInv, Searched, Telling PROVE OperandsAsCompiled
    BY DEF OperandsAsCompiled
  <2>1. next = 8
    BY OrderLength DEF Searched, LocateInv
  <2>2. UIPanelOffset \in OffsetGoal /\ original["UIEngineInterfaceGetInstance"] \in InstanceGoal
    BY <2>1 DEF LocateInv, PointersSettled, Settled
  <2>3. /\ Likenesses("processConfirmClick") = Whereabouts("processConfirmClick")
        /\ Likenesses("OpenLoginPanel") = Whereabouts("OpenLoginPanel")
    BY DEF Telling, Functions
  <2> QED BY <2>2, <2>3 DEF OperandsAsCompiled, OffsetGoal, InstanceGoal
<1> QED BY LocateInvariant, <1>1, PTL
=============================================================================
