--------------------------- MODULE PatternSearch ----------------------------
(***************************************************************************)
(* searchers.h: a signature, written as hexadecimal digits and wildcards,  *)
(* is compiled to masked bytes, and the code section is searched for them. *)
(* A byte is its two halves, indexed by the shift that places them, so a   *)
(* mask is the set of the shifts it keeps.  compile_pattern runs one       *)
(* character of the text to a step.                                        *)
(***************************************************************************)
EXTENDS Integers, Sequences, FiniteSets

CONSTANTS
  Nibbles,      \* the values of a hexadecimal digit
  Zero,         \* the digit 0
  Any,          \* the characters ? and .
  Other,        \* any other character, skipped
  MaxPattern,   \* bound on the characters of a signature
  MaxData       \* bound on the bytes of the section

Shifts == {4, 0}
Bytes  == [Shifts -> Nibbles]
Chars  == Nibbles \union {Any, Other}

ASSUME ConstantsAssumption ==
  /\ Zero \in Nibbles /\ {Any, Other} \intersect Nibbles = {} /\ Any # Other
  /\ MaxPattern \in Nat /\ MaxData \in Nat

UpTo(n, S) == UNION {[1..k -> S] : k \in 0..n}

VARIABLES
  pattern,     \* the text of the signature
  data,        \* the bytes of the code section
  next,        \* the index of the character to be read
  b,           \* the masked byte being built
  shift,       \* where the next digit of it goes
  compiled,    \* the masked bytes built so far
  result       \* where the search ended; 0 while it has not begun

vars == <<pattern, data, next, b, shift, compiled, result>>

Cleared == [value |-> [s \in Shifts |-> Zero], mask |-> Shifts]

-----------------------------------------------------------------------------
(***************************************************************************)
(* compile_pattern                                                         *)
(***************************************************************************)

Wildcard(p) == [p EXCEPT !.mask = @ \ {shift}]
Digit(p, c) == [p EXCEPT !.value[shift] = c]

Built(c) == IF c = Any THEN Wildcard(b) ELSE Digit(b, c)

KeptMask(p) == [Cleared EXCEPT !.mask = p.mask]   \* mutant: the mask is not cleared

\* clear()
Fresh(p) == Cleared

\* A digit or a wildcard takes its half, and completes the byte or does not;
\* any other character is passed over.
Read ==
  /\ result = 0 /\ next <= Len(pattern)
  /\ next' = next + 1
  /\ IF pattern[next] = Other
     THEN UNCHANGED <<b, shift, compiled>>
     ELSE LET p == Built(pattern[next])
          IN IF shift = 0
             THEN compiled' = Append(compiled, p) /\ b' = Fresh(p) /\ shift' = 4
             ELSE compiled' = compiled /\ b' = p /\ shift' = 0
  /\ UNCHANGED <<pattern, data, result>>

\* An odd digit at the end: it is in the high half, but the low half is kept.
Completed ==
  IF shift = 0 THEN Append(compiled, [b EXCEPT !.mask = @ \intersect {0}]) ELSE compiled

-----------------------------------------------------------------------------
(***************************************************************************)
(* pattern_searcher                                                        *)
(***************************************************************************)

Equal(byte, p) == \A s \in p.mask : byte[s] = p.value[s]

MatchesBefore(cp, i) ==                          \* mutant: the last place is missed
  /\ i + Len(cp) <= Len(data)
  /\ \A k \in 1..Len(cp) : Equal(data[i + k - 1], cp[k])

MatchesAt(cp, i) ==
  /\ i + Len(cp) <= Len(data) + 1
  /\ \A k \in 1..Len(cp) : Equal(data[i + k - 1], cp[k])

End == Len(data) + 1                             \* the iterator `last'

\* The first place the masked bytes match, or the end.
Found(cp) ==
  IF Len(data) = 0 THEN End
  ELSE IF cp = <<>> THEN 1
  ELSE LET places == {i \in 1..Len(data) : MatchesAt(cp, i)}
       IN  IF places = {} THEN End ELSE CHOOSE i \in places : \A j \in places : i <= j

Search ==
  /\ result = 0 /\ next > Len(pattern)
  /\ compiled' = Completed
  /\ result' = Found(compiled')
  /\ UNCHANGED <<pattern, data, next, b, shift>>

Init ==
  /\ pattern \in UpTo(MaxPattern, Chars)
  /\ data \in UpTo(MaxData, Bytes)
  /\ next = 1 /\ b = Cleared /\ shift = 4
  /\ compiled = <<>> /\ result = 0

Next == Read \/ Search

Spec == Init /\ [][Next]_vars

-----------------------------------------------------------------------------
(***************************************************************************)
(* What a signature means: its digits and wildcards, in order, against the *)
(* halves of the bytes, the high half of each first.                       *)
(***************************************************************************)
Marks == {j \in DOMAIN pattern : pattern[j] # Other}

\* How many digits and wildcards there are up to one, itself among them.
Rank(j) == Cardinality({m \in Marks : m <= j})

Half(i, k) == data[i + (k - 1) \div 2][IF k % 2 = 1 THEN 4 ELSE 0]

Denotes(i) ==
  /\ 2 * (i - 1) + Cardinality(Marks) <= 2 * Len(data)
  /\ \A j \in Marks : pattern[j] \in {Any, Half(i, Rank(j))}

Whole == Cardinality(Marks) % 2 = 0   \* the signature is one of whole bytes

\* The search for a signature of whole bytes ends at the first place of the
\* section the signature denotes, and at the end when there is none.
FindsFirst ==
  result # 0 /\ Whole /\ data # <<>> =>
    /\ \A i \in 1..Len(data) : i < result => ~Denotes(i)
    /\ result # End => Denotes(result)
=============================================================================
