------------------------------ MODULE OtpProofs ------------------------------
(***************************************************************************)
(* The OTP secret, for every text: what fromUnpaddedBase32 accepts is what *)
(* toBase32 writes.  And the one-time password, for every key and counter: *)
(* the schedule of every block is SHA-1's, and the digits that are entered *)
(* are the password's.  The parts on base32 go from one chunk, its bytes   *)
(* as terms of its digits and back, to the decoder that goes from chunk to *)
(* chunk; those on the password from the bits of a word to the schedule,   *)
(* the messages and their blocks, and the computation.                     *)
(***************************************************************************)
EXTENDS Otp, FiniteSetTheorems, SequenceTheorems, TLAPS

-----------------------------------------------------------------------------
(***************************************************************************)
(* One chunk                                                               *)
(***************************************************************************)

\* The bytes of eight digits, each from the digits it overlaps.
LEMMA BytesOfDigits ==
  ASSUME NEW v, NEW a \in Digits, NEW b \in Digits, NEW c \in Digits, NEW d \in Digits,
         NEW e \in Digits, NEW f \in Digits, NEW g \in Digits, NEW m \in Digits,
         v[1] = a, v[2] = b, v[3] = c, v[4] = d, v[5] = e, v[6] = f, v[7] = g, v[8] = m
  PROVE  ToBytes(FromDigits(v)) =
           <<8 * a + (b \div 4), 64 * (b % 4) + 2 * c + (d \div 16),
             16 * (d % 16) + (e \div 2), 128 * (e % 2) + 4 * f + (g \div 8),
             32 * (g % 8) + m>>
<1> DEFINE hi == 32768 * a + 1024 * b + 32 * c + d
           lo == 32768 * e + 1024 * f + 32 * g + m
<1>1. FromDigits(v) = <<hi, lo>>
  BY DEF FromDigits, Twenty
<1>2. (hi \div 4096) % 256 = 8 * a + (b \div 4)
  BY DEF Digits
<1>3. (hi \div 16) % 256 = 64 * (b % 4) + 2 * c + (d \div 16)
  BY DEF Digits
<1>4. hi % 16 = d % 16 /\ (lo \div 65536) % 16 = e \div 2
  BY DEF Digits
<1>5. (lo \div 256) % 256 = 128 * (e % 2) + 4 * f + (g \div 8)
  BY DEF Digits
<1>6. lo % 256 = 32 * (g % 8) + m
  BY DEF Digits
<1> HIDE DEF hi, lo
<1>7. QED BY <1>1, <1>2, <1>3, <1>4, <1>5, <1>6 DEF ToBytes

\* And the digits of five bytes.
LEMMA DigitsOfBytes ==
  ASSUME NEW s, NEW a \in Byte, NEW b \in Byte, NEW c \in Byte, NEW d \in Byte, NEW e \in Byte,
         s[1] = a, s[2] = b, s[3] = c, s[4] = d, s[5] = e
  PROVE  ToDigits(FromBytes(s)) =
           <<a \div 8, 4 * (a % 8) + (b \div 64), (b \div 2) % 32, 16 * (b % 2) + (c \div 16),
             2 * (c % 16) + (d \div 128), (d \div 4) % 32, 8 * (d % 4) + (e \div 32), e % 32>>
<1> DEFINE hi == 4096 * a + 16 * b + (c \div 16)
           lo == 65536 * (c % 16) + 256 * d + e
<1>1. FromBytes(s) = <<hi, lo>>
  BY DEF FromBytes
<1>2. (hi \div 32768) % 32 = a \div 8 /\ (hi \div 1024) % 32 = 4 * (a % 8) + (b \div 64)
  <2>1. a \in 0..255 /\ b \in 0..255 /\ c \div 16 \in 0..15
    BY DEF Byte
  <2> DEFINE q == c \div 16
  <2> HIDE DEF q
  <2>2. hi = 4096 * a + 16 * b + q /\ q \in 0..15
    BY <2>1 DEF q
  <2> HIDE DEF hi
  <2>3. hi \div 32768 = a \div 8
    BY <2>1, <2>2
  <2>4. hi \div 1024 = 4 * a + (b \div 64)
    BY <2>1, <2>2
  <2>5. (hi \div 32768) % 32 = a \div 8
    BY <2>1, <2>3
  <2>6. (4 * a + (b \div 64)) % 32 = 4 * (a % 8) + (b \div 64)
    BY <2>1
  <2>7. QED BY <2>4, <2>5, <2>6
<1>3. (hi \div 32) % 32 = (b \div 2) % 32 /\ hi % 32 = 16 * (b % 2) + (c \div 16)
  BY DEF Byte
<1>4. (lo \div 32768) % 32 = 2 * (c % 16) + (d \div 128) /\ (lo \div 1024) % 32 = (d \div 4) % 32
  <2>1. c % 16 \in 0..15 /\ d \in 0..255 /\ e \in 0..255
    BY DEF Byte
  <2>2. lo \div 32768 = 2 * (c % 16) + (d \div 128)
    BY <2>1
  <2>3. lo \div 1024 = 64 * (c % 16) + (d \div 4)
    BY <2>1
  <2> HIDE DEF lo
  <2>4. QED BY <2>1, <2>2, <2>3
<1>5. (lo \div 32) % 32 = 8 * (d % 4) + (e \div 32) /\ lo % 32 = e % 32
  BY SMTT(20) DEF Byte
<1> HIDE DEF hi, lo
<1>6. QED BY <1>1, <1>2, <1>3, <1>4, <1>5 DEF ToDigits

\* Eight digits and their bytes stand for the same bits: encoding the bytes gives
\* the digits, as many of them as the first n bytes determine.
LEMMA DigitsBack ==
  ASSUME NEW v \in [1..8 -> Digits], NEW n \in 1..5, NEW s,
         \A k \in 1..5 : s[k] = IF k <= n THEN ToBytes(FromDigits(v))[k] ELSE 0
  PROVE  /\ \A k \in 1..8 : ToDigits(FromBytes(s))[k] \in Digits
         /\ ToDigits(FromBytes(s))[1] = v[1]
         /\ n >= 2 => \A k \in {2, 3} : ToDigits(FromBytes(s))[k] = v[k]
         /\ n >= 3 => ToDigits(FromBytes(s))[4] = v[4]
         /\ n >= 4 => \A k \in {5, 6} : ToDigits(FromBytes(s))[k] = v[k]
         /\ n = 5 => \A k \in {7, 8} : ToDigits(FromBytes(s))[k] = v[k]
<1> DEFINE A == 8 * v[1] + (v[2] \div 4)
           B == 64 * (v[2] % 4) + 2 * v[3] + (v[4] \div 16)
           C == 16 * (v[4] % 16) + (v[5] \div 2)
           D == 128 * (v[5] % 2) + 4 * v[6] + (v[7] \div 8)
           E == 32 * (v[7] % 8) + v[8]
           t == ToDigits(FromBytes(s))
<1>1. \A k \in 1..8 : v[k] \in 0..31
  BY DEF Digits
<1>2. ToBytes(FromDigits(v)) = <<A, B, C, D, E>>
  BY BytesOfDigits
<1>3. A \in Byte /\ B \in Byte /\ C \in Byte /\ D \in Byte /\ E \in Byte
  BY <1>1 DEF Byte
<1>4. /\ A \div 8 = v[1] /\ A % 8 = v[2] \div 4
      /\ B \div 64 = v[2] % 4 /\ (B \div 2) % 32 = v[3] /\ B % 2 = v[4] \div 16
      /\ C \div 16 = v[4] % 16 /\ C % 16 = v[5] \div 2
  BY <1>1
<1>5. /\ D \div 128 = v[5] % 2 /\ (D \div 4) % 32 = v[6] /\ D % 4 = v[7] \div 8
      /\ E \div 32 = v[7] % 8 /\ E % 32 = v[8]
  BY <1>1
<1>6. /\ 4 * (v[2] \div 4) + (v[2] % 4) = v[2] /\ 16 * (v[4] \div 16) + (v[4] % 16) = v[4]
      /\ 2 * (v[5] \div 2) + (v[5] % 2) = v[5] /\ 8 * (v[7] \div 8) + (v[7] % 8) = v[7]
  BY <1>1
<1> HIDE DEF A, B, C, D, E
<1>7. /\ s[1] = A
      /\ s[2] = IF n >= 2 THEN B ELSE 0
      /\ s[3] = IF n >= 3 THEN C ELSE 0
      /\ s[4] = IF n >= 4 THEN D ELSE 0
      /\ s[5] = IF n = 5 THEN E ELSE 0
  BY <1>2
<1>8. s[1] \in Byte /\ s[2] \in Byte /\ s[3] \in Byte /\ s[4] \in Byte /\ s[5] \in Byte
  BY <1>3, <1>7 DEF Byte
<1>9. t = <<s[1] \div 8, 4 * (s[1] % 8) + (s[2] \div 64), (s[2] \div 2) % 32,
            16 * (s[2] % 2) + (s[3] \div 16), 2 * (s[3] % 16) + (s[4] \div 128),
            (s[4] \div 4) % 32, 8 * (s[4] % 4) + (s[5] \div 32), s[5] % 32>>
  BY <1>8, DigitsOfBytes
<1>10. /\ t[1] = s[1] \div 8 /\ t[2] = 4 * (s[1] % 8) + (s[2] \div 64) /\ t[3] = (s[2] \div 2) % 32
       /\ t[4] = 16 * (s[2] % 2) + (s[3] \div 16) /\ t[5] = 2 * (s[3] % 16) + (s[4] \div 128)
       /\ t[6] = (s[4] \div 4) % 32 /\ t[7] = 8 * (s[4] % 4) + (s[5] \div 32) /\ t[8] = s[5] % 32
  BY <1>9
<1> HIDE DEF t
<1>11. \A k \in 1..8 : t[k] \in Digits
  <2>1. t[1] \in 0..31 /\ t[2] \in 0..31 /\ t[3] \in 0..31 /\ t[4] \in 0..31
    BY <1>8, <1>10, SMTT(20) DEF Byte
  <2>2. t[5] \in 0..31 /\ t[6] \in 0..31 /\ t[7] \in 0..31 /\ t[8] \in 0..31
    BY <1>8, <1>10, SMTT(20) DEF Byte
  <2>3. QED BY <2>1, <2>2 DEF Digits
<1>12. t[1] = v[1] /\ (n >= 2 => t[2] = v[2] /\ t[3] = v[3]) /\ (n >= 3 => t[4] = v[4])
  BY <1>1, <1>4, <1>6, <1>7, <1>10
<1>13. (n >= 4 => t[5] = v[5] /\ t[6] = v[6]) /\ (n = 5 => t[7] = v[7] /\ t[8] = v[8])
  BY <1>1, <1>4, <1>5, <1>6, <1>7, <1>10
<1>14. QED BY <1>11, <1>12, <1>13 DEF t

\* And the other way: the bytes come back, and the digits past those that the
\* first n bytes need are zeros if the other bytes are.
LEMMA BytesBack ==
  ASSUME NEW s \in [1..5 -> Byte]
  PROVE  /\ \A k \in 1..8 : ToDigits(FromBytes(s))[k] \in Digits
         /\ ToBytes(FromDigits(ToDigits(FromBytes(s)))) = s
         /\ s[5] = 0 => ToDigits(FromBytes(s))[8] = 0
         /\ s[5] = 0 /\ s[4] = 0 => \A k \in {6, 7} : ToDigits(FromBytes(s))[k] = 0
         /\ s[5] = 0 /\ s[4] = 0 /\ s[3] = 0 => ToDigits(FromBytes(s))[5] = 0
         /\ s[5] = 0 /\ s[4] = 0 /\ s[3] = 0 /\ s[2] = 0 =>
              \A k \in {3, 4} : ToDigits(FromBytes(s))[k] = 0
<1> DEFINE t == ToDigits(FromBytes(s))
<1>1. s[1] \in 0..255 /\ s[2] \in 0..255 /\ s[3] \in 0..255 /\ s[4] \in 0..255 /\ s[5] \in 0..255
  BY DEF Byte
<1>2. t = <<s[1] \div 8, 4 * (s[1] % 8) + (s[2] \div 64), (s[2] \div 2) % 32,
            16 * (s[2] % 2) + (s[3] \div 16), 2 * (s[3] % 16) + (s[4] \div 128),
            (s[4] \div 4) % 32, 8 * (s[4] % 4) + (s[5] \div 32), s[5] % 32>>
  <2>1. s[1] \in Byte /\ s[2] \in Byte /\ s[3] \in Byte /\ s[4] \in Byte /\ s[5] \in Byte
    OBVIOUS
  <2>2. QED BY <2>1, DigitsOfBytes
<1>3. /\ t[1] = s[1] \div 8 /\ t[2] = 4 * (s[1] % 8) + (s[2] \div 64) /\ t[3] = (s[2] \div 2) % 32
      /\ t[4] = 16 * (s[2] % 2) + (s[3] \div 16) /\ t[5] = 2 * (s[3] % 16) + (s[4] \div 128)
      /\ t[6] = (s[4] \div 4) % 32 /\ t[7] = 8 * (s[4] % 4) + (s[5] \div 32) /\ t[8] = s[5] % 32
  BY <1>2
<1> HIDE DEF t
<1>4. t[1] \in 0..31 /\ t[2] \in 0..31 /\ t[3] \in 0..31 /\ t[4] \in 0..31
  BY <1>1, <1>3
<1>5. t[5] \in 0..31 /\ t[6] \in 0..31 /\ t[7] \in 0..31 /\ t[8] \in 0..31
  BY <1>1, <1>3
<1>6. ToBytes(FromDigits(t)) =
        <<8 * t[1] + (t[2] \div 4), 64 * (t[2] % 4) + 2 * t[3] + (t[4] \div 16),
          16 * (t[4] % 16) + (t[5] \div 2), 128 * (t[5] % 2) + 4 * t[6] + (t[7] \div 8),
          32 * (t[7] % 8) + t[8]>>
  <2>1. /\ t[1] \in Digits /\ t[2] \in Digits /\ t[3] \in Digits /\ t[4] \in Digits
        /\ t[5] \in Digits /\ t[6] \in Digits /\ t[7] \in Digits /\ t[8] \in Digits
    BY <1>4, <1>5 DEF Digits
  <2>2. QED BY <2>1, BytesOfDigits
<1>7. 8 * t[1] + (t[2] \div 4) = s[1] /\ 64 * (t[2] % 4) + 2 * t[3] + (t[4] \div 16) = s[2]
  BY <1>1, <1>3
<1>8. 16 * (t[4] % 16) + (t[5] \div 2) = s[3]
  BY <1>1, <1>3
<1>9. 128 * (t[5] % 2) + 4 * t[6] + (t[7] \div 8) = s[4] /\ 32 * (t[7] % 8) + t[8] = s[5]
  BY <1>1, <1>3
<1>10. ToBytes(FromDigits(t)) = s
  BY <1>6, <1>7, <1>8, <1>9
<1>11. /\ s[5] = 0 => t[8] = 0
       /\ s[5] = 0 /\ s[4] = 0 => t[6] = 0 /\ t[7] = 0
       /\ s[5] = 0 /\ s[4] = 0 /\ s[3] = 0 => t[5] = 0
       /\ s[5] = 0 /\ s[4] = 0 /\ s[3] = 0 /\ s[2] = 0 => t[3] = 0 /\ t[4] = 0
  BY <1>1, <1>3
<1>12. \A k \in 1..8 : t[k] \in Digits
  BY <1>4, <1>5 DEF Digits
<1>13. QED BY <1>10, <1>11, <1>12 DEF t

\* Padding that nothing but padding follows is counted from its first place.
LEMMA PadsTrail ==
  ASSUME NEW str, DOMAIN str = 1..8, NEW p \in 0..8,
         \A k \in 1..8 : str[k] = Pad <=> k > 8 - p
  PROVE  PadCount(str) = p
<1>1. {k \in DOMAIN str : str[k] = Pad} = (9 - p)..8
  <2>1. \A k : k \in 1..8 /\ k > 8 - p <=> k \in (9 - p)..8
    OBVIOUS
  <2>2. QED BY <2>1
<1>2. Cardinality((9 - p)..8) = p
  <2>1. 9 - p \in Int /\ 8 \in Int
    OBVIOUS
  <2>2. Cardinality((9 - p)..8) = IF 9 - p > 8 THEN 0 ELSE 8 - (9 - p) + 1
    BY <2>1, FS_Interval
  <2>3. QED BY <2>2
<1>3. QED BY <1>1, <1>2 DEF PadCount

LEMMA PadsLast ==
  ASSUME NEW str, ~ \E k \in 2..8 : str[k] # Pad /\ str[k - 1] = Pad
  PROVE  \E p \in 0..8 : \A k \in 1..8 : str[k] = Pad <=> k > 8 - p
<1> DEFINE S == {k \in 1..8 : str[k] = Pad}
<1>1. S \subseteq 1..8 /\ \A k \in 1..7 : k \in S => k + 1 \in S
  OBVIOUS
<1> HIDE DEF S
<1>2. \E a \in 1..9 : (a = 9 \/ a \in S) /\ (a = 1 \/ a - 1 \notin S)
  <2>1. 9 \notin S
    BY <1>1
  <2>2. CASE 8 \notin S
    BY <2>2
  <2>3. CASE 8 \in S /\ 7 \notin S
    BY <2>3
  <2>4. CASE 7 \in S /\ 6 \notin S
    BY <2>4
  <2>5. CASE 6 \in S /\ 5 \notin S
    BY <2>5
  <2>6. CASE 5 \in S /\ 4 \notin S
    BY <2>6
  <2>7. CASE 4 \in S /\ 3 \notin S
    BY <2>7
  <2>8. CASE 3 \in S /\ 2 \notin S
    BY <2>8
  <2>9. CASE 2 \in S /\ 1 \notin S
    BY <2>9
  <2>10. CASE 1 \in S
    BY <2>10
  <2>11. QED BY <2>2, <2>3, <2>4, <2>5, <2>6, <2>7, <2>8, <2>9, <2>10
<1>3. PICK a \in 1..9 : (a = 9 \/ a \in S) /\ (a = 1 \/ a - 1 \notin S)
  BY <1>2
<1>4. ASSUME NEW k \in 1..8
      PROVE  k \in S <=> k > 8 - (9 - a)
  <2>1. /\ (1 \in S => 2 \in S) /\ (2 \in S => 3 \in S) /\ (3 \in S => 4 \in S)
        /\ (4 \in S => 5 \in S) /\ (5 \in S => 6 \in S) /\ (6 \in S => 7 \in S)
        /\ (7 \in S => 8 \in S)
    BY <1>1
  <2>2. CASE k >= a
    BY <1>3, <2>1, <2>2
  <2>3. CASE k < a
    BY <1>3, <2>1, <2>3
  <2>4. QED BY <2>2, <2>3
<1>5. 9 - a \in 0..8
  OBVIOUS
<1>6. QED BY <1>4, <1>5 DEF S

\* What the decoder makes of a chunk it accepts: digits, then as much padding as
\* leaves n whole bytes, and those bytes.
Read(str, n, v) ==
  /\ \A k \in 1..8 : str[k] = Pad <=> k > PutChars[n]
  /\ \A k \in 1..8 : k <= PutChars[n] => v[k] = str[k]
  /\ b32ChunkToBytes(str) \in Seq(Byte) /\ Len(b32ChunkToBytes(str)) = n
  /\ \A k \in 1..n : b32ChunkToBytes(str)[k] = ToBytes(FromDigits(v))[k]

LEMMA Accepted ==
  ASSUME NEW str, DOMAIN str = 1..8, ~ChunkThrows(str)
  PROVE  \E n \in 1..5, v \in [1..8 -> Digits] : Read(str, n, v)
<1> DEFINE v == [k \in 1..8 |-> IF str[k] = Pad THEN 0 ELSE str[k]]
<1>1. /\ \A k \in 1..8 : str[k] \in Digits \union {Pad}
      /\ ~ \E k \in 2..8 : str[k] # Pad /\ str[k - 1] = Pad
      /\ PadCount(str) \in {0, 1, 3, 4, 6}
  BY DEF ChunkThrows, FinalCount
<1>2. PICK p \in 0..8 : \A k \in 1..8 : str[k] = Pad <=> k > 8 - p
  BY <1>1, PadsLast
<1>3. PadCount(str) = p
  BY <1>2, PadsTrail
<1>4. PICK n \in 1..5 : PutChars[n] = 8 - p /\ FinalCount[p] = n
  <2>1. CASE p = 0
    BY <2>1 DEF PutChars, FinalCount
  <2>2. CASE p = 1
    BY <2>2 DEF PutChars, FinalCount
  <2>3. CASE p = 3
    BY <2>3 DEF PutChars, FinalCount
  <2>4. CASE p = 4
    BY <2>4 DEF PutChars, FinalCount
  <2>5. CASE p = 6
    BY <2>5 DEF PutChars, FinalCount
  <2>6. QED BY <1>1, <1>3, <2>1, <2>2, <2>3, <2>4, <2>5
<1>5. v \in [1..8 -> Digits]
  BY <1>1 DEF Digits
<1>6. \A k \in 1..8 : k <= PutChars[n] => v[k] = str[k] /\ str[k] \in Digits
  BY <1>1, <1>2, <1>4
<1>7. b32ChunkToBytes(str) = SubSeq(ToBytes(FromDigits(v)), 1, n)
  BY <1>3, <1>4 DEF b32ChunkToBytes
<1> HIDE DEF v
<1>8. ToBytes(FromDigits(v)) \in Seq(Byte) /\ Len(ToBytes(FromDigits(v))) = 5
  <2> DEFINE A == 8 * v[1] + (v[2] \div 4)
             B == 64 * (v[2] % 4) + 2 * v[3] + (v[4] \div 16)
             C == 16 * (v[4] % 16) + (v[5] \div 2)
             D == 128 * (v[5] % 2) + 4 * v[6] + (v[7] \div 8)
             E == 32 * (v[7] % 8) + v[8]
  <2>1. \A k \in 1..8 : v[k] \in 0..31
    BY <1>5 DEF Digits
  <2>2. ToBytes(FromDigits(v)) = <<A, B, C, D, E>>
    BY <1>5, BytesOfDigits
  <2>3. A \in Byte /\ B \in Byte
    BY <2>1 DEF Byte
  <2>4. C \in Byte
    BY <2>1 DEF Byte
  <2>5. D \in Byte /\ E \in Byte
    BY <2>1 DEF Byte
  <2> HIDE DEF A, B, C, D, E
  <2>6. QED BY <2>2, <2>3, <2>4, <2>5
<1> DEFINE t == ToBytes(FromDigits(v))
<1> HIDE DEF t
<1>9. t \in Seq(Byte) /\ Len(t) = 5
  BY <1>8 DEF t
<1>10. /\ SubSeq(t, 1, n) \in Seq(Byte) /\ Len(SubSeq(t, 1, n)) = n
       /\ \A k \in 1..n : SubSeq(t, 1, n)[k] = t[k]
  <2>1. \A k \in 1..5 : t[k] \in Byte
    <3>1. \A k \in 1..Len(t) : t[k] \in Byte
      BY <1>9, ElementOfSeq
    <3>2. QED BY <1>9, <3>1
  <2>2. 1 \in Int /\ n \in Int /\ 1 <= n /\ \A k \in 1..n : k \in 1..5
    OBVIOUS
  <2>3. QED BY <2>1, <2>2, SubSeqProperties
<1>11. \A k \in 1..8 : str[k] = Pad <=> k > PutChars[n]
  BY <1>2, <1>4
<1>12. b32ChunkToBytes(str) = SubSeq(t, 1, n)
  BY <1>7 DEF t
<1>13. Read(str, n, v)
  BY <1>6, <1>10, <1>11, <1>12 DEF Read, t
<1>14. QED BY <1>5, <1>13

\* So what is decoded is encoded to the same text, but for the bits of the last
\* digit that no byte takes.
LEMMA Reencoded ==
  ASSUME NEW str, DOMAIN str = 1..8, ~ChunkThrows(str),
         NEW again, again = bytesToB32Chunk(b32ChunkToBytes(str))
  PROVE  /\ \A k \in 1..8 : again[k] = Pad <=> str[k] = Pad
         /\ \A k \in 1..7 : str[k + 1] # Pad => again[k] = str[k]
<1>0. PICK n \in 1..5, v \in [1..8 -> Digits] : Read(str, n, v)
  BY Accepted
<1>1. /\ \A k \in 1..8 : str[k] = Pad <=> k > PutChars[n]
      /\ \A k \in 1..8 : k <= PutChars[n] => v[k] = str[k]
      /\ Len(b32ChunkToBytes(str)) = n
      /\ \A k \in 1..n : b32ChunkToBytes(str)[k] = ToBytes(FromDigits(v))[k]
  BY <1>0 DEF Read
<1> DEFINE bs == b32ChunkToBytes(str)
           s  == [k \in 1..5 |-> IF k <= Len(bs) THEN bs[k] ELSE 0]
           t  == ToDigits(FromBytes(s))
           P  == PutChars[n]
<1>2. \A k \in 1..5 : s[k] = IF k <= n THEN ToBytes(FromDigits(v))[k] ELSE 0
  BY <1>1
<1>3. \A k \in 1..8 : again[k] = IF k <= P THEN t[k] ELSE Pad
  BY <1>1 DEF bytesToB32Chunk
<1> HIDE DEF bs, s
<1>4. /\ \A k \in 1..8 : t[k] \in Digits
      /\ t[1] = v[1]
      /\ n >= 2 => \A k \in {2, 3} : t[k] = v[k]
      /\ n >= 3 => t[4] = v[4]
      /\ n >= 4 => \A k \in {5, 6} : t[k] = v[k]
      /\ n = 5 => \A k \in {7, 8} : t[k] = v[k]
  BY <1>2, DigitsBack
<1> HIDE DEF t, P
<1>5. P \in Nat /\ n \in Nat /\ P = IF n = 1 THEN 2 ELSE IF n = 2 THEN 4
                                   ELSE IF n = 3 THEN 5 ELSE IF n = 4 THEN 7 ELSE 8
  BY DEF P, PutChars
<1>6. ASSUME NEW k \in 1..8
      PROVE  again[k] = Pad <=> str[k] = Pad
  <2>1. t[k] # Pad
    BY <1>4 DEF Digits, Pad
  <2>2. str[k] = Pad <=> k > P
    BY <1>1 DEF P
  <2>3. QED BY <1>3, <1>5, <2>1, <2>2
<1>7. ASSUME NEW k \in 1..7, str[k + 1] # Pad
      PROVE  again[k] = str[k]
  <2>1. k + 1 <= P /\ k \in 1..8
    BY <1>1, <1>5, <1>7 DEF P
  <2>2. again[k] = t[k] /\ v[k] = str[k]
    BY <1>1, <1>3, <1>5, <2>1 DEF P
  <2>3. t[k] = v[k]
    BY <1>4, <1>5, <2>1
  <2>4. QED BY <2>2, <2>3
<1>8. QED BY <1>6, <1>7

\* One to five bytes are encoded to a chunk that decodes to them.
LEMMA Redecoded ==
  ASSUME NEW bs \in Seq(Byte), Len(bs) \in 1..5, NEW str, str = bytesToB32Chunk(bs)
  PROVE  /\ DOMAIN str = 1..8
         /\ \A k \in 1..8 : str[k] \in Digits \union {Pad}
         /\ \A k \in 1..8 : str[k] = Pad <=> k > PutChars[Len(bs)]
         /\ ~ChunkThrows(str) /\ b32ChunkToBytes(str) = bs
<1> DEFINE n == Len(bs)
           s == [k \in 1..5 |-> IF k <= Len(bs) THEN bs[k] ELSE 0]
           t == ToDigits(FromBytes(s))
           P == PutChars[n]
           v == [k \in 1..8 |-> IF str[k] = Pad THEN 0 ELSE str[k]]
<1>1. s \in [1..5 -> Byte]
  <2>1. \A k \in 1..Len(bs) : bs[k] \in Byte
    BY ElementOfSeq
  <2>2. QED BY <2>1 DEF Byte
<1>2. DOMAIN str = 1..8 /\ \A k \in 1..8 : str[k] = IF k <= P THEN t[k] ELSE Pad
  BY DEF bytesToB32Chunk
<1>3. /\ s[5] = IF n = 5 THEN bs[5] ELSE 0
      /\ s[4] = IF n >= 4 THEN bs[4] ELSE 0
      /\ s[3] = IF n >= 3 THEN bs[3] ELSE 0
      /\ s[2] = IF n >= 2 THEN bs[2] ELSE 0
      /\ \A k \in 1..n : s[k] = bs[k]
  OBVIOUS
<1>4. n \in 1..5
  OBVIOUS
<1> HIDE DEF n, s
<1>5. /\ \A k \in 1..8 : t[k] \in Digits
      /\ ToBytes(FromDigits(t)) = s
      /\ s[5] = 0 => t[8] = 0
      /\ s[5] = 0 /\ s[4] = 0 => \A k \in {6, 7} : t[k] = 0
      /\ s[5] = 0 /\ s[4] = 0 /\ s[3] = 0 => t[5] = 0
      /\ s[5] = 0 /\ s[4] = 0 /\ s[3] = 0 /\ s[2] = 0 => \A k \in {3, 4} : t[k] = 0
  BY <1>1, BytesBack
<1> HIDE DEF t, P
<1>6. P \in 0..8 /\ P = IF n = 1 THEN 2 ELSE IF n = 2 THEN 4
                                    ELSE IF n = 3 THEN 5 ELSE IF n = 4 THEN 7 ELSE 8
  BY <1>4 DEF P, PutChars
<1>7. \A k \in 1..8 : k > P => t[k] = 0
  <2>1. CASE n = 1
    BY <1>3, <1>4, <1>5, <1>6, <2>1
  <2>2. CASE n = 2
    BY <1>3, <1>4, <1>5, <1>6, <2>2
  <2>3. CASE n = 3
    BY <1>3, <1>4, <1>5, <1>6, <2>3
  <2>4. CASE n = 4
    BY <1>3, <1>4, <1>5, <1>6, <2>4
  <2>5. CASE n = 5
    BY <1>4, <1>6, <2>5
  <2>6. QED BY <1>4, <1>6, <2>1, <2>2, <2>3, <2>4, <2>5
<1>8. \A k \in 1..8 : /\ str[k] \in Digits \union {Pad}
                      /\ str[k] = Pad <=> k > P
  <2>1. \A k \in 1..8 : t[k] \in Digits /\ t[k] # Pad
    <3>1. \A d \in Digits : d # Pad
      BY DEF Digits, Pad
    <3>2. QED BY <1>5, <3>1
  <2>2. QED BY <1>2, <1>4, <1>6, <2>1
<1>9. PadCount(str) = 8 - P
  <2>1. 8 - P \in 0..8 /\ 8 - (8 - P) = P
    BY <1>4, <1>6
  <2>2. \A k \in 1..8 : str[k] = Pad <=> k > 8 - (8 - P)
    BY <1>8, <2>1
  <2>3. QED BY <1>2, <2>1, <2>2, PadsTrail
<1>10. 8 - P \in DOMAIN FinalCount /\ FinalCount[8 - P] = n
  BY <1>4, <1>6 DEF FinalCount
<1>11. ~ChunkThrows(str)
  BY <1>4, <1>6, <1>8, <1>9, <1>10 DEF ChunkThrows
<1>12. \A k \in 1..8 : v[k] = t[k]
  BY <1>2, <1>5, <1>7, <1>8
<1>13. b32ChunkToBytes(str) = SubSeq(ToBytes(FromDigits(v)), 1, n)
  BY <1>9, <1>10 DEF b32ChunkToBytes
<1> HIDE DEF v
<1>14. FromDigits(v) = FromDigits(t)
  BY <1>12 DEF FromDigits
<1>15. b32ChunkToBytes(str) = SubSeq(s, 1, n)
  BY <1>5, <1>13, <1>14
<1>16. SubSeq(s, 1, n) = bs
  <2>1. n \in Int /\ 1 \in Int /\ 1 <= n /\ \A k \in 1..n : s[k] \in Byte
    <3>1. \A k \in 1..n : k \in 1..5
      BY <1>4
    <3>2. QED BY <1>1, <1>4, <3>1
  <2>2. /\ SubSeq(s, 1, n) \in Seq(Byte) /\ Len(SubSeq(s, 1, n)) = n
        /\ \A k \in 1..n : SubSeq(s, 1, n)[k] = s[k]
    BY <2>1, SubSeqProperties
  <2>3. Len(bs) = n
    BY DEF n
  <2>4. QED BY <1>3, <2>2, <2>3, SeqEqual
<1>17. QED BY <1>2, <1>8, <1>11, <1>15, <1>16 DEF n, P

-----------------------------------------------------------------------------
(***************************************************************************)
(* The text of an encoded secret                                           *)
(***************************************************************************)

\* How many chunks there are, and the bytes of one.
Chunks(bs)   == (Len(bs) + 4) \div 5
Piece(bs, c) == SubSeq(bs, 5 * c - 4, IF 5 * c > Len(bs) THEN Len(bs) ELSE 5 * c)

LEMMA PieceBytes ==
  ASSUME NEW bs \in Seq(Byte), NEW c \in 1..Chunks(bs)
  PROVE  /\ Piece(bs, c) \in Seq(Byte) /\ Len(Piece(bs, c)) \in 1..5
         /\ c < Chunks(bs) => Len(Piece(bs, c)) = 5
         /\ Len(Piece(bs, c)) = IF 5 * c > Len(bs) THEN Len(bs) - 5 * (c - 1) ELSE 5
         /\ 5 * (c - 1) < Len(bs)
<1> DEFINE last == IF 5 * c > Len(bs) THEN Len(bs) ELSE 5 * c
<1>1. Len(bs) \in Nat /\ Chunks(bs) \in Nat /\ c \in Nat /\ 1 <= c
  BY DEF Chunks
<1>2. /\ 5 * (c - 1) < Len(bs) /\ 5 * c - 4 <= last /\ last <= Len(bs)
      /\ last \in Int /\ 5 * c - 4 \in Int /\ 1 <= 5 * c - 4
  BY <1>1 DEF Chunks
<1>3. c < Chunks(bs) => ~(5 * c > Len(bs))
  BY <1>1 DEF Chunks
<1>4. \A k \in (5 * c - 4)..last : bs[k] \in Byte
  <2>1. \A k \in (5 * c - 4)..last : k \in 1..Len(bs)
    BY <1>1, <1>2
  <2>2. QED BY <2>1, ElementOfSeq
<1>5. Piece(bs, c) = SubSeq(bs, 5 * c - 4, last)
  BY DEF Piece
<1>6. Piece(bs, c) \in Seq(Byte) /\ Len(Piece(bs, c)) = last - (5 * c - 4) + 1
  <2> HIDE DEF last
  <2>1. QED BY <1>2, <1>4, <1>5, SubSeqProperties
<1>7. last = IF 5 * c > Len(bs) THEN Len(bs) ELSE 5 * c
  OBVIOUS
<1> HIDE DEF last
<1>8. Len(Piece(bs, c)) = last - 5 * c + 5 /\ last - 5 * c + 5 \in 1..5
  <2>1. last - (5 * c - 4) + 1 = last - 5 * c + 5
    BY <1>1, <1>2
  <2>2. last - 5 * c + 5 \in 1..5
    BY <1>1, <1>2, <1>7
  <2>3. QED BY <1>6, <2>1, <2>2
<1>9. CASE 5 * c > Len(bs)
  <2>1. last - 5 * c + 5 = Len(bs) - 5 * (c - 1)
    BY <1>1, <1>7, <1>9
  <2>2. QED BY <1>2, <1>3, <1>6, <1>8, <1>9, <2>1
<1>10. CASE ~(5 * c > Len(bs))
  <2>1. last - 5 * c + 5 = 5
    BY <1>1, <1>7, <1>10
  <2>2. QED BY <1>2, <1>6, <1>8, <1>10, <2>1
<1>11. QED BY <1>9, <1>10

LEMMA InChunk ==
  ASSUME NEW c \in Nat, 1 <= c, NEW x \in 1..8
  PROVE  /\ (((8 * (c - 1) + x) - 1) \div 8) + 1 = c
         /\ (((8 * (c - 1) + x) - 1) % 8) + 1 = x
OBVIOUS

LEMMA OfChunk ==
  ASSUME NEW n \in Nat, NEW k \in 1..8 * n
  PROVE  \E c \in 1..n, x \in 1..8 : k = 8 * (c - 1) + x
<1>1. ((k - 1) \div 8) + 1 \in 1..n /\ ((k - 1) % 8) + 1 \in 1..8
  OBVIOUS
<1>2. k = 8 * ((((k - 1) \div 8) + 1) - 1) + (((k - 1) % 8) + 1)
  OBVIOUS
<1>3. QED BY <1>1, <1>2

LEMMA EncodedText ==
  ASSUME NEW bs \in Seq(Byte), NEW T, T = toBase32(bs)
  PROVE  /\ Chunks(bs) \in Nat
         /\ T \in Seq(Digits \union {Pad}) /\ Len(T) = 8 * Chunks(bs)
         /\ \A c \in 1..Chunks(bs), x \in 1..8 :
              T[8 * (c - 1) + x] = bytesToB32Chunk(Piece(bs, c))[x]
<1> DEFINE n == Chunks(bs)
<1>1. n \in Nat
  <2>1. Len(bs) \in Nat
    OBVIOUS
  <2>2. QED BY <2>1 DEF Chunks
<1>2. T = [k \in 1..(8 * n) |->
             bytesToB32Chunk(Piece(bs, ((k - 1) \div 8) + 1))[((k - 1) % 8) + 1]]
  BY DEF toBase32, Chunks, Piece
<1>3. ASSUME NEW c \in 1..n, NEW x \in 1..8
      PROVE  /\ 8 * (c - 1) + x \in 1..(8 * n)
             /\ T[8 * (c - 1) + x] = bytesToB32Chunk(Piece(bs, c))[x]
             /\ T[8 * (c - 1) + x] \in Digits \union {Pad}
  <2>1. 8 * (c - 1) + x \in 1..(8 * n) /\ c \in Nat /\ 1 <= c
    BY <1>1
  <2>2. T[8 * (c - 1) + x] = bytesToB32Chunk(Piece(bs, c))[x]
    BY <1>2, <2>1, InChunk
  <2>3. bytesToB32Chunk(Piece(bs, c))[x] \in Digits \union {Pad}
    BY PieceBytes, Redecoded
  <2>4. QED BY <2>1, <2>2, <2>3
<1>4. ASSUME NEW k \in 1..(8 * n)
      PROVE  T[k] \in Digits \union {Pad}
  <2>1. PICK c \in 1..n, x \in 1..8 : k = 8 * (c - 1) + x
    BY <1>1, OfChunk
  <2>2. QED BY <1>3, <2>1
<1>5. T \in Seq(Digits \union {Pad}) /\ Len(T) = 8 * n
  <2>1. 8 * n \in Nat /\ DOMAIN T = 1..(8 * n)
    BY <1>1, <1>2
  <2>2. T \in [1..(8 * n) -> Digits \union {Pad}]
    BY <1>2, <1>4
  <2>3. QED BY <2>1, <2>2
<1>6. QED BY <1>1, <1>3, <1>5

\* Each chunk of the text decodes to its bytes.
LEMMA EncodedChunk ==
  ASSUME NEW bs \in Seq(Byte), NEW T, T = toBase32(bs), NEW c \in 1..Chunks(bs),
         NEW str, str = SubSeq(T, 8 * (c - 1) + 1, 8 * (c - 1) + 8)
  PROVE  ~ChunkThrows(str) /\ b32ChunkToBytes(str) = Piece(bs, c)
<1> DEFINE e == bytesToB32Chunk(Piece(bs, c))
           n == Chunks(bs)
<1>1. /\ n \in Nat /\ T \in Seq(Digits \union {Pad}) /\ Len(T) = 8 * n
      /\ \A x \in 1..8 : T[8 * (c - 1) + x] = e[x]
  <2>1. /\ n \in Nat /\ T \in Seq(Digits \union {Pad}) /\ Len(T) = 8 * n
        /\ \A cc \in 1..n, x \in 1..8 :
             T[8 * (cc - 1) + x] = bytesToB32Chunk(Piece(bs, cc))[x]
    BY EncodedText
  <2>2. c \in 1..n
    OBVIOUS
  <2>3. QED BY <2>1, <2>2
<1>2. /\ DOMAIN e = 1..8 /\ ~ChunkThrows(e) /\ b32ChunkToBytes(e) = Piece(bs, c)
  BY PieceBytes, Redecoded
<1>c. c \in 1..n
  OBVIOUS
<1> HIDE DEF e, n
<1>3. /\ 8 * (c - 1) + 1 \in Int /\ 8 * (c - 1) + 8 \in Int
      /\ \A k \in (8 * (c - 1) + 1)..(8 * (c - 1) + 8) : k \in 1..Len(T)
  BY <1>1, <1>c
<1>4. \A k \in (8 * (c - 1) + 1)..(8 * (c - 1) + 8) : T[k] \in Digits \union {Pad}
  BY <1>1, <1>3, ElementOfSeq
<1>5. /\ str \in Seq(Digits \union {Pad}) /\ Len(str) = 8
      /\ \A x \in 1..8 : str[x] = T[8 * (c - 1) + x]
  <2>1. /\ str \in Seq(Digits \union {Pad})
        /\ Len(str) = (8 * (c - 1) + 8) - (8 * (c - 1) + 1) + 1
        /\ \A x \in 1..(8 * (c - 1) + 8) - (8 * (c - 1) + 1) + 1 :
             str[x] = T[(8 * (c - 1) + 1) + x - 1]
    BY <1>3, <1>4, SubSeqProperties
  <2>2. (8 * (c - 1) + 8) - (8 * (c - 1) + 1) + 1 = 8
    BY <1>1, <1>c
  <2>3. \A x \in 1..8 : (8 * (c - 1) + 1) + x - 1 = 8 * (c - 1) + x
    BY <1>1, <1>c
  <2>4. QED BY <2>1, <2>2, <2>3
<1>6. DOMAIN str = 1..8 /\ \A x \in 1..8 : str[x] = e[x]
  <2>1. DOMAIN str = 1..8
    BY <1>5
  <2>2. ASSUME NEW x \in 1..8 PROVE str[x] = e[x]
    BY <1>1, <1>5
  <2>3. QED BY <2>1, <2>2
<1>7. str = e
  <2>1. DOMAIN str = DOMAIN e /\ \A x \in DOMAIN str : str[x] = e[x]
    BY <1>2, <1>6
  <2>2. str = [x \in DOMAIN str |-> str[x]]
    <3>1. str \in [1..Len(str) -> Digits \union {Pad}]
      BY <1>5, LenProperties
    <3>2. QED BY <3>1
  <2>3. e = [x \in DOMAIN e |-> e[x]]
    BY DEF e, bytesToB32Chunk
  <2>4. QED BY <2>1, <2>2, <2>3
<1>8. QED BY <1>2, <1>7

\* Padding is at the end of the text only.
LEMMA EncodedPads ==
  ASSUME NEW bs \in Seq(Byte), NEW T, T = toBase32(bs)
  PROVE  \E p \in 0..7 : /\ p <= Len(T)
                          /\ \A k \in 1..Len(T) : T[k] = Pad <=> k > Len(T) - p
<1> DEFINE n == Chunks(bs)
           len(c) == Len(Piece(bs, c))
<1>1. /\ n \in Nat /\ T \in Seq(Digits \union {Pad}) /\ Len(T) = 8 * n
      /\ \A c \in 1..n, x \in 1..8 : T[8 * (c - 1) + x] = bytesToB32Chunk(Piece(bs, c))[x]
  BY EncodedText
<1>2. ASSUME NEW c \in 1..n, NEW x \in 1..8
      PROVE  /\ len(c) \in 1..5 /\ (c < n => len(c) = 5)
             /\ T[8 * (c - 1) + x] = Pad <=> x > PutChars[len(c)]
  <2>1. Piece(bs, c) \in Seq(Byte) /\ len(c) \in 1..5 /\ (c < n => len(c) = 5)
    BY PieceBytes
  <2>2. bytesToB32Chunk(Piece(bs, c))[x] = Pad <=> x > PutChars[len(c)]
    BY <2>1, Redecoded
  <2>3. QED BY <1>1, <2>1, <2>2
<1> HIDE DEF n, len
<1>3. CASE n = 0
  <2>1. 0 \in 0..7 /\ Len(T) = 0
    BY <1>1, <1>3
  <2>2. QED BY <2>1
<1>4. CASE n # 0
  <2> DEFINE p == 8 - PutChars[len(n)]
  <2>1. n \in 1..n /\ len(n) \in 1..5
    BY <1>1, <1>2, <1>4
  <2>2. p \in 0..7 /\ PutChars[len(n)] = 8 - p /\ PutChars[5] = 8
    BY <2>1 DEF PutChars
  <2> HIDE DEF p
  <2>3. ASSUME NEW k \in 1..Len(T)
        PROVE  T[k] = Pad <=> k > Len(T) - p
    <3>1. PICK c \in 1..n, x \in 1..8 : k = 8 * (c - 1) + x
      <4>1. n \in Nat /\ k \in 1..(8 * n)
        BY <1>1
      <4>2. QED BY <4>1, OfChunk
    <3>2. T[k] = Pad <=> x > PutChars[len(c)]
      BY <1>2, <3>1
    <3>3. CASE c = n
      <4>1. T[k] = Pad <=> x > 8 - p
        BY <2>2, <3>2, <3>3
      <4>2. x > 8 - p <=> k > Len(T) - p
        BY <1>1, <2>2, <3>1, <3>3
      <4>3. QED BY <4>1, <4>2
    <3>4. CASE c # n
      <4>1. c < n /\ c \in Nat
        BY <1>1, <3>4
      <4>2. len(c) = 5
        BY <1>2, <4>1
      <4>3. T[k] # Pad
        BY <2>2, <3>2, <4>2
      <4>4. k <= 8 * (n - 1)
        BY <1>1, <3>1, <4>1
      <4>5. ~(k > Len(T) - p)
        BY <1>1, <2>2, <4>4
      <4>6. QED BY <4>3, <4>5
    <3>5. QED BY <3>3, <3>4
  <2>4. p <= Len(T)
    BY <1>1, <1>4, <2>2
  <2>5. QED BY <2>2, <2>3, <2>4
<1>5. QED BY <1>3, <1>4

-----------------------------------------------------------------------------
(***************************************************************************)
(* The ways it is written                                                  *)
(***************************************************************************)

\* If the characters that are kept are at the places at[1] < ... < at[n], those
\* are what Nth finds.
LEMMA KeptAt ==
  ASSUME NEW text, NEW n \in Nat, NEW at \in [1..n -> Nat],
         \A a, b \in 1..n : a < b => at[a] < at[b],
         Kept(text) = {at[a] : a \in 1..n}
  PROVE  /\ Cardinality(Kept(text)) = n
         /\ \A a \in 1..n : Nth(text, a) = at[a]
<1>1. \A a, b \in 1..n : at[a] = at[b] => a = b
  OBVIOUS
<1>2. ASSUME NEW m \in 0..n, NEW S, S = {at[a] : a \in 1..m}
      PROVE  Cardinality(S) = m
  <2> DEFINE f == [a \in 1..m |-> at[a]]
  <2>1. f \in Bijection(1..m, S)
    <3>1. f \in [1..m -> S] /\ \A t \in S : \E a \in 1..m : f[a] = t
      BY <1>2
    <3>2. \A a, b \in 1..m : f[a] = f[b] => a = b
      BY <1>1
    <3>3. QED BY <3>1, <3>2 DEF Bijection, Injection, Surjection, IsInjective
  <2>2. IsFiniteSet(1..m) /\ Cardinality(1..m) = m
    <3>1. 1 \in Int /\ m \in Int
      OBVIOUS
    <3>2. IsFiniteSet(1..m) /\ Cardinality(1..m) = IF 1 > m THEN 0 ELSE m - 1 + 1
      BY <3>1, FS_Interval
    <3>3. QED BY <3>2
  <2>3. ExistsBijection(1..m, S)
    BY <2>1 DEF ExistsBijection
  <2>4. QED BY <2>2, <2>3, FS_Bijection
<1>3. Cardinality(Kept(text)) = n
  BY <1>2
<1>4. ASSUME NEW a \in 1..n
      PROVE  Rank(text, at[a]) = a
  <2>1. {m \in Kept(text) : m <= at[a]} = {at[b] : b \in 1..a}
    <3>1. ASSUME NEW m
          PROVE  m \in Kept(text) /\ m <= at[a] <=> m \in {at[b] : b \in 1..a}
      <4>1. ASSUME NEW b \in 1..n PROVE at[b] <= at[a] <=> b \in 1..a
        OBVIOUS
      <4>2. QED BY <4>1
    <3>2. QED BY <3>1
  <2>2. Rank(text, at[a]) = Cardinality({at[b] : b \in 1..a})
    BY <2>1 DEF Rank
  <2> DEFINE S == {at[b] : b \in 1..a}
  <2>3. Rank(text, at[a]) = Cardinality(S) /\ S = {at[b] : b \in 1..a} /\ a \in 0..n
    BY <2>2
  <2> HIDE DEF S
  <2>4. QED BY <1>2, <2>3, SMTT(20)
<1>5. ASSUME NEW a \in 1..n
      PROVE  Nth(text, a) = at[a]
  <2>1. at[a] \in Kept(text) /\ Rank(text, at[a]) = a
    BY <1>4
  <2>2. ASSUME NEW k \in Kept(text), Rank(text, k) = a
        PROVE  k = at[a]
    <3>1. PICK b \in 1..n : k = at[b]
      OBVIOUS
    <3>2. b = a
      BY <1>4, <2>2, <3>1
    <3>3. QED BY <3>1, <3>2
  <2>3. QED BY <2>1, <2>2 DEF Nth
<1>6. QED BY <1>3, <1>5

LEMMA ReadAt ==
  ASSUME NEW u \in Seq(Digits \union {Pad}), NEW text, NEW at \in [1..Len(u) -> Nat],
         \A a, b \in 1..Len(u) : a < b => at[a] < at[b],
         Kept(text) = {at[a] : a \in 1..Len(u)},
         \A a \in 1..Len(u) : Upper(text[at[a]]) = u[a]
  PROVE  normalizedBase32String(text) = u
<1>1. Len(u) \in Nat /\ u \in [1..Len(u) -> Digits \union {Pad}]
  BY LenProperties
<1>2. Cardinality(Kept(text)) = Len(u) /\ \A a \in 1..Len(u) : Nth(text, a) = at[a]
  BY <1>1, KeptAt
<1>3. normalizedBase32String(text) = [a \in 1..Len(u) |-> u[a]]
  BY <1>2 DEF normalizedBase32String
<1>4. QED BY <1>1, <1>3

LEMMA Capitals ==
  /\ \A d \in Digits \union {Pad} : d # Separator /\ d + LowerCase # Separator /\ Upper(d) = d
  /\ \A d \in Letters : Upper(d + LowerCase) = d
<1>1. ASSUME NEW c \in Int
      PROVE  c \in {LowerCase + d : d \in Letters} <=> c \in 100..125
  <2>1. CASE c \in 100..125
    <3>1. c - 100 \in Letters /\ c = LowerCase + (c - 100)
      BY <2>1 DEF Letters, LowerCase
    <3>2. QED BY <2>1, <3>1
  <2>2. CASE c \in {LowerCase + d : d \in Letters}
    <3>1. PICK d \in Letters : c = LowerCase + d
      BY <2>2
    <3>2. QED BY <2>2, <3>1 DEF Letters, LowerCase
  <2>3. QED BY <2>1, <2>2
<1>2. ASSUME NEW d \in Digits \union {Pad}
      PROVE  d # Separator /\ d + LowerCase # Separator /\ Upper(d) = d
  <2>1. d \in Int /\ ~(d \in 100..125) /\ d # Separator /\ d + LowerCase # Separator
    BY DEF Digits, Pad, Separator, LowerCase
  <2>2. QED BY <1>1, <2>1 DEF Upper
<1>3. ASSUME NEW d \in Letters
      PROVE  Upper(d + LowerCase) = d
  <2> DEFINE c == d + LowerCase
  <2>1. c \in 100..125 /\ c - LowerCase = d /\ c \in Int
    BY DEF Letters, LowerCase
  <2> HIDE DEF c
  <2>2. c \in {LowerCase + l : l \in Letters}
    BY <1>1, <2>1
  <2>3. Upper(c) = d
    BY <2>1, <2>2 DEF Upper
  <2>4. QED BY <2>3 DEF c
<1>4. QED BY <1>2, <1>3

\* A text of digits and padding is read as it stands, in small letters too,
LEMMA ReadAsIs ==
  ASSUME NEW u \in Seq(Digits \union {Pad}), NEW text \in {u, Small(u)}
  PROVE  normalizedBase32String(text) = u
<1> DEFINE n == Len(u)
           at == [a \in 1..n |-> a]
<1>1. n \in Nat /\ DOMAIN u = 1..n /\ u \in [1..n -> Digits \union {Pad}]
  BY LenProperties
<1>2. DOMAIN text = 1..n /\ \A k \in 1..n : text[k] # Separator /\ Upper(text[k]) = u[k]
  <2>1. \A d \in Digits \union {Pad} : d # Separator /\ d + LowerCase # Separator /\ Upper(d) = d
    BY Capitals
  <2>2. \A d \in Letters : Upper(d + LowerCase) = d
    BY Capitals
  <2>3. CASE text = u
    BY <1>1, <2>1, <2>3
  <2>4. CASE text = Small(u)
    <3>1. DOMAIN text = 1..n
      BY <1>1, <2>4 DEF Small
    <3>2. ASSUME NEW k \in 1..n
          PROVE  text[k] # Separator /\ Upper(text[k]) = u[k]
      <4>1. text[k] = IF u[k] \in Letters THEN u[k] + LowerCase ELSE u[k]
        BY <1>1, <2>4 DEF Small
      <4>2. u[k] \in Digits \union {Pad}
        BY <1>1
      <4>3. QED BY <2>1, <2>2, <4>1, <4>2
    <3>3. QED BY <3>1, <3>2
  <2>5. QED BY <2>3, <2>4
<1> HIDE DEF n
<1>3. Kept(text) = {at[a] : a \in 1..n}
  BY <1>2 DEF Kept
<1>4. at \in [1..n -> Nat] /\ \A a, b \in 1..n : a < b => at[a] < at[b]
  BY <1>1
<1>5. \A a \in 1..n : Upper(text[at[a]]) = u[a]
  BY <1>2
<1> HIDE DEF at
<1>6. QED BY <1>3, <1>4, <1>5, ReadAt DEF n

\* and with separators.
LEMMA ReadSpaced ==
  ASSUME NEW u \in Seq(Digits \union {Pad}), NEW text, text = Spaced(Small(u))
  PROVE  normalizedBase32String(text) = u
<1> DEFINE n == Len(u)
           at == [a \in 1..n |-> 2 * a - 1]
<1>1. n \in Nat /\ DOMAIN u = 1..n /\ u \in [1..n -> Digits \union {Pad}]
  BY LenProperties
<1>2. /\ DOMAIN Small(u) = 1..n
      /\ \A k \in 1..n : Small(u)[k] # Separator /\ Upper(Small(u)[k]) = u[k]
  <2>1. \A d \in Digits \union {Pad} : d # Separator /\ d + LowerCase # Separator /\ Upper(d) = d
    BY Capitals
  <2>2. \A d \in Letters : Upper(d + LowerCase) = d
    BY Capitals
  <2>3. ASSUME NEW k \in 1..n
        PROVE  Small(u)[k] # Separator /\ Upper(Small(u)[k]) = u[k]
    <3>1. Small(u)[k] = IF u[k] \in Letters THEN u[k] + LowerCase ELSE u[k]
      BY <1>1 DEF Small
    <3>2. u[k] \in Digits \union {Pad}
      BY <1>1
    <3>3. QED BY <2>1, <2>2, <3>1, <3>2
  <2>4. QED BY <1>1, <2>3 DEF Small
<1>3. Len(Small(u)) = n
  BY <1>1 DEF Small
<1> HIDE DEF n
<1>4. text = [k \in 1..(2 * n) |-> IF k % 2 = 1 THEN Small(u)[(k + 1) \div 2] ELSE Separator]
  BY <1>3 DEF Spaced
<1>5. ASSUME NEW a \in 1..n
      PROVE  2 * a - 1 \in DOMAIN text /\ text[2 * a - 1] = Small(u)[a]
  <2>1. 2 * a - 1 \in 1..(2 * n) /\ (2 * a - 1) % 2 = 1 /\ ((2 * a - 1) + 1) \div 2 = a
    BY <1>1
  <2>2. QED BY <1>4, <2>1
<1>6. Kept(text) = {at[a] : a \in 1..n}
  <2>1. ASSUME NEW k
        PROVE  k \in DOMAIN text /\ text[k] # Separator <=> \E a \in 1..n : k = 2 * a - 1
    <3>1. CASE \E a \in 1..n : k = 2 * a - 1
      BY <1>2, <1>5, <3>1
    <3>2. CASE k \in DOMAIN text /\ text[k] # Separator
      <4>1. k \in 1..(2 * n) /\ k % 2 = 1
        BY <1>4, <3>2
      <4>2. (k + 1) \div 2 \in 1..n /\ k = 2 * ((k + 1) \div 2) - 1
        BY <1>1, <4>1
      <4>3. QED BY <3>2, <4>2
    <3>3. QED BY <3>1, <3>2
  <2>2. QED BY <2>1 DEF Kept
<1>7. at \in [1..n -> Nat] /\ \A a, b \in 1..n : a < b => at[a] < at[b]
  BY <1>1
<1>8. \A a \in 1..n : Upper(text[at[a]]) = u[a]
  BY <1>2, <1>5
<1> HIDE DEF at
<1>9. QED BY <1>6, <1>7, <1>8, ReadAt DEF n

\* And without its padding: that is put back.
LEMMA Repadded ==
  ASSUME NEW bs \in Seq(Byte), NEW T, T = toBase32(bs), NEW u \in {T, Unpad(T)}
  PROVE  u \in Seq(Digits \union {Pad}) /\ Padded(u) = T
<1> DEFINE n == Chunks(bs)
           S == Digits \union {Pad}
<1>1. n \in Nat /\ T \in Seq(S) /\ Len(T) = 8 * n
  BY EncodedText
<1>2. PICK p \in 0..7 : p <= Len(T) /\ \A k \in 1..Len(T) : T[k] = Pad <=> k > Len(T) - p
  BY EncodedPads
<1> HIDE DEF n
<1>3. PadCount(T) = p
  <2>1. DOMAIN T = 1..Len(T) /\ Len(T) \in Nat
    BY <1>1
  <2>2. {k \in DOMAIN T : T[k] = Pad} = (Len(T) - p + 1)..Len(T)
    <3>1. \A k : k \in 1..Len(T) /\ k > Len(T) - p <=> k \in (Len(T) - p + 1)..Len(T)
      BY <1>2, <2>1
    <3>2. QED BY <1>2, <2>1, <3>1
  <2>3. Len(T) - p + 1 \in Int /\ Len(T) \in Int
    BY <2>1
  <2>4. Cardinality((Len(T) - p + 1)..Len(T)) =
          IF Len(T) - p + 1 > Len(T) THEN 0 ELSE Len(T) - (Len(T) - p + 1) + 1
    BY <2>3, FS_Interval
  <2>5. Cardinality((Len(T) - p + 1)..Len(T)) = p
    BY <2>1, <2>4
  <2>6. QED BY <2>2, <2>5 DEF PadCount
<1>4. PICK q \in {0, p} : u \in Seq(S) /\ Len(u) = Len(T) - q /\ \A k \in 1..Len(u) : u[k] = T[k]
  <2>1. CASE u = T
    BY <1>1, <2>1
  <2>2. CASE u = Unpad(T)
    <3>1. u = SubSeq(T, 1, Len(T) - p)
      BY <1>3, <2>2 DEF Unpad
    <3>2. 1 \in Int /\ Len(T) - p \in Int /\ \A k \in 1..(Len(T) - p) : k \in 1..Len(T)
      BY <1>1, <1>2
    <3>3. \A k \in 1..(Len(T) - p) : T[k] \in S
      BY <1>1, <3>2, ElementOfSeq
    <3>4. /\ u \in Seq(S) /\ Len(u) = IF 1 <= Len(T) - p THEN (Len(T) - p) - 1 + 1 ELSE 0
          /\ \A k \in 1..((Len(T) - p) - 1 + 1) : u[k] = T[1 + k - 1]
      BY <3>1, <3>2, <3>3, SubSeqProperties
    <3>5. Len(u) = Len(T) - p
      BY <1>1, <1>2, <3>4
    <3>6. ASSUME NEW k \in 1..Len(u) PROVE u[k] = T[k]
      <4>1. k \in 1..((Len(T) - p) - 1 + 1) /\ 1 + k - 1 = k
        BY <1>1, <1>2, <3>5
      <4>2. QED BY <3>4, <4>1
    <3>7. QED BY <3>4, <3>5, <3>6
  <2>3. QED BY <2>1, <2>2
<1> DEFINE pads == [k \in 1..q |-> Pad]
<1>5. q \in 0..7 /\ q <= Len(T) /\ (8 - (Len(u) % 8)) % 8 = q
  <2>1. q \in 0..7 /\ q <= Len(T) /\ Len(u) = 8 * n - q
    BY <1>1, <1>2, <1>4
  <2>2. CASE q = 0
    BY <1>1, <2>1, <2>2
  <2>3. CASE q # 0
    <3>1. Len(u) = 8 * (n - 1) + (8 - q) /\ 8 - q \in 1..7 /\ n - 1 \in Int
      BY <1>1, <2>1, <2>3
    <3>2. Len(u) % 8 = 8 - q
      BY <3>1
    <3>3. QED BY <2>1, <2>3, <3>2
  <2>4. QED BY <2>2, <2>3
<1>6. Padded(u) = u \o pads
  BY <1>5 DEF Padded
<1>7. pads \in Seq(S) /\ Len(pads) = q /\ \A k \in 1..q : pads[k] = Pad
  BY <1>5
<1> HIDE DEF pads, S
<1>8. /\ u \o pads \in Seq(S) /\ Len(u \o pads) = Len(u) + Len(pads)
      /\ \A k \in 1..(Len(u) + Len(pads)) :
           (u \o pads)[k] = IF k <= Len(u) THEN u[k] ELSE pads[k - Len(u)]
  BY <1>4, <1>7, ConcatProperties
<1>9. ASSUME NEW k \in 1..Len(T)
      PROVE  (u \o pads)[k] = T[k]
  <2>1. Len(u) \in Nat /\ Len(T) = Len(u) + Len(pads)
    BY <1>1, <1>4, <1>5, <1>7
  <2>2. CASE k <= Len(u)
    BY <1>4, <1>8, <2>1, <2>2
  <2>3. CASE ~(k <= Len(u))
    <3>1. k - Len(u) \in 1..q
      BY <1>7, <2>1, <2>3
    <3>2. (u \o pads)[k] = Pad
      BY <1>7, <1>8, <2>1, <2>3, <3>1
    <3>3. k > Len(T) - p
      BY <1>4, <1>7, <2>1, <2>3, <3>1
    <3>4. QED BY <1>2, <3>2, <3>3
  <2>4. QED BY <2>2, <2>3
<1>10. Len(u \o pads) = Len(T)
  BY <1>1, <1>4, <1>5, <1>7, <1>8
<1>11. u \o pads = T
  BY <1>1, <1>8, <1>9, <1>10, SeqEqual
<1>12. QED BY <1>4, <1>6, <1>11 DEF S

LEMMA WrittenRead ==
  ASSUME NEW bs \in Seq(Byte), NEW text \in Written(toBase32(bs))
  PROVE  Padded(normalizedBase32String(text)) = toBase32(bs)
<1> DEFINE T == toBase32(bs)
<1>1. /\ T \in Seq(Digits \union {Pad}) /\ Padded(T) = T
      /\ Unpad(T) \in Seq(Digits \union {Pad}) /\ Padded(Unpad(T)) = T
  BY Repadded
<1>2. text \in {T, Unpad(T), Small(T), Spaced(Small(Unpad(T)))}
  BY DEF Written
<1> HIDE DEF T
<1>3. CASE text \in {T, Small(T)}
  <2>1. normalizedBase32String(text) = T
    BY <1>1, <1>3, ReadAsIs
  <2>2. QED BY <1>1, <2>1 DEF T
<1>4. CASE text = Unpad(T)
  <2>1. normalizedBase32String(text) = Unpad(T)
    BY <1>1, <1>4, ReadAsIs
  <2>2. QED BY <1>1, <2>1 DEF T
<1>5. CASE text = Spaced(Small(Unpad(T)))
  <2>1. normalizedBase32String(text) = Unpad(T)
    BY <1>1, <1>5, ReadSpaced
  <2>2. QED BY <1>1, <2>1 DEF T
<1>6. QED BY <1>2, <1>3, <1>4, <1>5

-----------------------------------------------------------------------------
(***************************************************************************)
(* The decoder                                                             *)
(***************************************************************************)

\* The chunk that was decoded last was accepted.
LastAccepted ==
  LET chunk == SubSeq(newstr, i - 8, i - 1) IN
  /\ i \in Nat
  /\ phase = "start" => i = 1
  /\ i > 1 => DOMAIN chunk = 1..8 /\ ~ChunkThrows(chunk)

LEMMA LastAcceptedHolds == Spec => []LastAccepted
<1>1. Init => LastAccepted
  BY DEF Init, Unread, LastAccepted
<1>2. LastAccepted /\ [Next]_vars => LastAccepted'
  <2> SUFFICES ASSUME LastAccepted, [Next]_vars
               PROVE  LastAccepted'
    OBVIOUS
  <2> USE DEF LastAccepted
  <2>1. CASE Start
    BY <2>1 DEF Start
  <2>2. CASE Decode
    <3>1. CASE i > Len(newstr)
      BY <2>2, <3>1 DEF Decode
    <3> DEFINE chunk == SubSeq(newstr, i, i + 7)
    <3>2. CASE ~(i > Len(newstr)) /\ ChunkThrows(chunk)
      BY <2>2, <3>2 DEF Decode
    <3>3. CASE ~(i > Len(newstr)) /\ ~ChunkThrows(chunk)
      <4>1. i' = i + 8 /\ newstr' = newstr /\ phase' # "start"
        BY <2>2, <3>3 DEF Decode
      <4>2. i' - 8 = i /\ i' - 1 = i + 7 /\ i' \in Nat
        BY <4>1
      <4>3. DOMAIN chunk = 1..8
        <5>1. chunk = [k \in 1..((i + 7) - i + 1) |-> newstr[i + k - 1]]
          OBVIOUS
        <5>2. (i + 7) - i + 1 = 8
          OBVIOUS
        <5>3. QED BY <5>1, <5>2
      <4> HIDE DEF chunk
      <4>4. SubSeq(newstr', i' - 8, i' - 1) = chunk
        BY <4>1, <4>2 DEF chunk
      <4>5. QED BY <3>3, <4>1, <4>2, <4>3, <4>4 DEF chunk
    <3>4. QED BY <3>1, <3>2, <3>3
  <2>3. CASE Totp
    BY <2>3 DEF Totp
  <2>4. CASE ComputeTotp
    BY <2>4 DEF ComputeTotp, decoder
  <2>5. CASE UNCHANGED vars
    BY <2>5 DEF vars, decoder
  <2>6. QED BY <2>1, <2>2, <2>3, <2>4, <2>5 DEF Next, DecodeText
<1>3. QED BY <1>1, <1>2, PTL DEF Spec

\* Whatever text a secret is given as, padding is accepted only where the encoder
\* writes it, and the digits before it are those the encoder writes for the bytes
\* that were decoded.
THEOREM PaddingKept == Spec => []PaddingAsEncoded
<1>1. LastAccepted => PaddingAsEncoded
  <2> SUFFICES ASSUME LastAccepted, i > 1
               PROVE  PaddingAsEncoded
    BY DEF PaddingAsEncoded
  <2> DEFINE chunk == SubSeq(newstr, i - 8, i - 1)
  <2>1. DOMAIN chunk = 1..8 /\ ~ChunkThrows(chunk)
    BY DEF LastAccepted
  <2> HIDE DEF chunk
  <2>2. /\ \A k \in 1..8 : bytesToB32Chunk(b32ChunkToBytes(chunk))[k] = Pad <=> chunk[k] = Pad
        /\ \A k \in 1..7 : chunk[k + 1] # Pad =>
             bytesToB32Chunk(b32ChunkToBytes(chunk))[k] = chunk[k]
    BY <2>1, Reencoded
  <2>3. QED BY <2>2 DEF PaddingAsEncoded, chunk
<1>2. QED BY <1>1, LastAcceptedHolds, PTL

\* What an encoded secret's decoder has after c chunks: their bytes.
Upto(bs, c) == SubSeq(bs, 1, IF 5 * c > Len(bs) THEN Len(bs) ELSE 5 * c)

LEMMA OneMore ==
  ASSUME NEW bs \in Seq(Byte), NEW c \in 0..Chunks(bs)
  PROVE  /\ c = 0 => Upto(bs, c) = <<>>
         /\ c = Chunks(bs) => Upto(bs, c) = bs
         /\ c < Chunks(bs) => Upto(bs, c) \o Piece(bs, c + 1) = Upto(bs, c + 1)
<1>1. Len(bs) \in Nat /\ Chunks(bs) = (Len(bs) + 4) \div 5
  BY DEF Chunks
<1>2. ASSUME c = 0
      PROVE  Upto(bs, c) = <<>>
  <2>1. ~(5 * c > Len(bs)) /\ 5 * c = 0
    BY <1>1, <1>2
  <2>2. QED BY <2>1, SubSeqEmpty DEF Upto
<1>3. ASSUME c = Chunks(bs)
      PROVE  Upto(bs, c) = bs
  <2>1. 5 * c > Len(bs) \/ 5 * c = Len(bs)
    BY <1>1, <1>3
  <2>2. Upto(bs, c) = SubSeq(bs, 1, Len(bs))
    BY <2>1 DEF Upto
  <2>3. QED BY <2>2, SubSeqFull
<1>4. ASSUME c < Chunks(bs)
      PROVE  Upto(bs, c) \o Piece(bs, c + 1) = Upto(bs, c + 1)
  <2> DEFINE last == IF 5 * (c + 1) > Len(bs) THEN Len(bs) ELSE 5 * (c + 1)
  <2>1. ~(5 * c > Len(bs)) /\ 5 * (c + 1) - 4 = 5 * c + 1
    BY <1>1, <1>4
  <2>2. Upto(bs, c) = SubSeq(bs, 1, 5 * c) /\ Piece(bs, c + 1) = SubSeq(bs, 5 * c + 1, last)
        /\ Upto(bs, c + 1) = SubSeq(bs, 1, last)
    BY <2>1 DEF Upto, Piece
  <2>3. /\ 1 \in 1..(Len(bs) + 1) /\ 5 * c \in (1 - 1)..Len(bs)
        /\ last \in (5 * c)..Len(bs)
    BY <1>1, <1>4, <2>1
  <2> HIDE DEF last
  <2>4. QED BY <2>2, <2>3, ConcatAdjacentSubSeq
<1>5. QED BY <1>2, <1>3, <1>4

\* Where the decoder is in the text of an encoded secret.
Midway(bs, c) ==
  /\ newstr = toBase32(bs) /\ i = 8 * c + 1 /\ ret = Upto(bs, c)
  /\ phase \in {"decode", "done", "used"}
  /\ phase # "decode" => c = Chunks(bs)

BytesSoFar(bs) ==
  \/ phase = "start" /\ i = 1 /\ ret = <<>> /\ secret \in Written(toBase32(bs))
  \/ \E c \in 0..Chunks(bs) : Midway(bs, c)

EncodedSecret ==
  origin # <<>> => \E bs \in Seq(Byte) : origin = <<bs>> /\ BytesSoFar(bs)

LEMMA DecodeStep ==
  ASSUME NEW bs \in Seq(Byte), NEW c \in 0..Chunks(bs), Midway(bs, c), Decode
  PROVE  BytesSoFar(bs)'
<1>1. /\ Chunks(bs) \in Nat /\ toBase32(bs) \in Seq(Digits \union {Pad})
      /\ Len(toBase32(bs)) = 8 * Chunks(bs)
  BY EncodedText
<1>2. /\ phase = "decode" /\ newstr = toBase32(bs) /\ i = 8 * c + 1 /\ ret = Upto(bs, c)
      /\ newstr' = newstr
  BY DEF Midway, Decode
<1>3. CASE i > Len(newstr)
  <2>1. phase' = "done" /\ i' = i /\ ret' = ret
    BY <1>3 DEF Decode
  <2>2. c = Chunks(bs)
    BY <1>1, <1>2, <1>3
  <2>3. Midway(bs, c)'
    BY <1>2, <2>1, <2>2 DEF Midway
  <2>4. QED BY <2>3 DEF BytesSoFar
<1>4. CASE ~(i > Len(newstr))
  <2> DEFINE chunk == SubSeq(newstr, i, i + 7)
  <2>1. c + 1 \in 1..Chunks(bs) /\ c < Chunks(bs)
    BY <1>1, <1>2, <1>4
  <2>2. chunk = SubSeq(toBase32(bs), 8 * ((c + 1) - 1) + 1, 8 * ((c + 1) - 1) + 8)
    <3>1. i = 8 * ((c + 1) - 1) + 1 /\ i + 7 = 8 * ((c + 1) - 1) + 8
      BY <1>2
    <3>2. QED BY <1>2, <3>1
  <2> HIDE DEF chunk
  <2>3. ~ChunkThrows(chunk) /\ b32ChunkToBytes(chunk) = Piece(bs, c + 1)
    BY <2>1, <2>2, EncodedChunk
  <2>4. ret' = ret \o b32ChunkToBytes(chunk) /\ i' = i + 8 /\ phase' = phase
    BY <1>4, <2>3 DEF Decode, chunk
  <2>5. ret' = Upto(bs, c + 1)
    <3>1. Upto(bs, c) \o Piece(bs, c + 1) = Upto(bs, c + 1)
      BY <2>1, OneMore
    <3>2. ret' = Upto(bs, c) \o Piece(bs, c + 1)
      BY <1>2, <2>3, <2>4
    <3>3. QED BY <3>1, <3>2
  <2>6. i' = 8 * (c + 1) + 1
    BY <1>2, <2>4
  <2>7. Midway(bs, c + 1)'
    BY <1>2, <2>4, <2>5, <2>6 DEF Midway
  <2>8. QED BY <2>1, <2>7 DEF BytesSoFar
<1>5. QED BY <1>3, <1>4

LEMMA EncodedSecretHolds == Spec => []EncodedSecret
<1>1. Init => EncodedSecret
  <2> SUFFICES ASSUME Init, origin # <<>>
               PROVE  \E bs \in Seq(Byte) : origin = <<bs>> /\ BytesSoFar(bs)
    BY DEF EncodedSecret
  <2>1. \E bs \in Seq(Byte) : origin = <<bs>> /\ secret \in Written(toBase32(bs))
    <3>1. CASE Given
      BY <3>1, ConstantsAssumption DEF Given
    <3>2. CASE \E v \in Jobs : origin = <<v.key>> /\ secret = v.secret
      BY <3>2, ConstantsAssumption
    <3>3. QED BY <3>1, <3>2 DEF Init
  <2>2. phase = "start" /\ i = 1 /\ ret = <<>>
    BY DEF Init, Unread
  <2>3. QED BY <2>1, <2>2 DEF BytesSoFar
<1>2. EncodedSecret /\ [Next]_vars => EncodedSecret'
  <2> SUFFICES ASSUME EncodedSecret, [Next]_vars, origin' # <<>>
               PROVE  EncodedSecret'
    BY DEF EncodedSecret
  <2>1. origin' = origin
    BY DEF Next, DecodeText, Start, Decode, Totp, ComputeTotp, vars, decoder
  <2>2. PICK bs \in Seq(Byte) : origin = <<bs>> /\ BytesSoFar(bs)
    BY <2>1 DEF EncodedSecret
  <2>3. ASSUME BytesSoFar(bs)' PROVE EncodedSecret'
    BY <2>1, <2>2, <2>3 DEF EncodedSecret
  <2>4. CASE Start
    <3>1. phase = "start" /\ i = 1 /\ ret = <<>> /\ secret \in Written(toBase32(bs))
      BY <2>2, <2>4 DEF Start, BytesSoFar, Midway
    <3>2. newstr' = toBase32(bs)
      BY <2>4, <3>1, WrittenRead DEF Start
    <3>3. 0 \in 0..Chunks(bs) /\ 8 * 0 + 1 = 1
      BY EncodedText
    <3>4. ret' = Upto(bs, 0)
      BY <2>4, <3>1, <3>3, OneMore DEF Start
    <3>5. Midway(bs, 0)'
      BY <2>4, <3>1, <3>2, <3>3, <3>4 DEF Start, Midway
    <3>6. QED BY <2>3, <3>3, <3>5 DEF BytesSoFar
  <2>5. CASE Decode
    <3>1. PICK c \in 0..Chunks(bs) : Midway(bs, c)
      BY <2>2, <2>5 DEF Decode, BytesSoFar
    <3>2. QED BY <2>3, <2>5, <3>1, DecodeStep
  <2>6. CASE Totp
    <3>1. PICK c \in 0..Chunks(bs) : Midway(bs, c)
      BY <2>2, <2>6 DEF Totp, BytesSoFar
    <3>2. Midway(bs, c)'
      BY <2>6, <3>1 DEF Totp, Midway
    <3>3. QED BY <2>3, <3>2 DEF BytesSoFar
  <2>7. CASE ComputeTotp \/ UNCHANGED vars
    <3>1. UNCHANGED decoder
      BY <2>7 DEF ComputeTotp, vars
    <3>2. BytesSoFar(bs)'
      BY <2>2, <3>1 DEF decoder, BytesSoFar, Midway
    <3>3. QED BY <2>3, <3>2
  <2>8. QED BY <2>4, <2>5, <2>6, <2>7 DEF Next, DecodeText
<1>3. QED BY <1>1, <1>2, PTL DEF Spec

\* The bytes of every encoded secret come back, whichever way it is written, and
\* the decoder does not throw.
THEOREM SecretsComeBack == Spec => []RoundTrip
<1>1. EncodedSecret => RoundTrip
  <2> SUFFICES ASSUME EncodedSecret, origin # <<>>
               PROVE  phase # "thrown" /\ (phase = "done" => ret = origin[1])
    BY DEF RoundTrip
  <2>1. PICK bs \in Seq(Byte) : origin = <<bs>> /\ BytesSoFar(bs)
    BY DEF EncodedSecret
  <2>2. CASE phase = "start"
    BY <2>2
  <2>3. CASE \E c \in 0..Chunks(bs) : Midway(bs, c)
    <3>1. PICK c \in 0..Chunks(bs) : Midway(bs, c)
      BY <2>3
    <3>2. QED BY <2>1, <3>1, OneMore DEF Midway
  <2>4. QED BY <2>1, <2>2, <2>3 DEF BytesSoFar
<1>2. QED BY <1>1, EncodedSecretHolds, PTL

-----------------------------------------------------------------------------
(***************************************************************************)
(* Every bit of a text without padding                                     *)
(***************************************************************************)

\* The forty bits of a chunk are the same in its digits and in its bytes.
LEMMA SameBits ==
  ASSUME NEW v \in [1..8 -> Digits], NEW y \in 1..40
  PROVE  BitOf(ToBytes(FromDigits(v)), 8, y) = BitOf(v, 5, y)
<1> DEFINE A == 8 * v[1] + (v[2] \div 4)
           B == 64 * (v[2] % 4) + 2 * v[3] + (v[4] \div 16)
           C == 16 * (v[4] % 16) + (v[5] \div 2)
           D == 128 * (v[5] % 2) + 4 * v[6] + (v[7] \div 8)
           E == 32 * (v[7] % 8) + v[8]
           t == ToBytes(FromDigits(v))
<1>1. \A k \in 1..8 : v[k] \in 0..31
  BY DEF Digits
<1>2. t = <<A, B, C, D, E>>
  BY BytesOfDigits
<1> HIDE DEF t
<1>3. /\ (A \div 128) % 2 = (v[1] \div 16) % 2 /\ (A \div 64) % 2 = (v[1] \div 8) % 2
      /\ (A \div 32) % 2 = (v[1] \div 4) % 2 /\ (A \div 16) % 2 = (v[1] \div 2) % 2
      /\ (A \div 8) % 2 = v[1] % 2
      /\ (A \div 4) % 2 = (v[2] \div 16) % 2 /\ (A \div 2) % 2 = (v[2] \div 8) % 2
      /\ A % 2 = (v[2] \div 4) % 2
  BY <1>1
<1>4. /\ (B \div 128) % 2 = (v[2] \div 2) % 2 /\ (B \div 64) % 2 = v[2] % 2
      /\ (B \div 32) % 2 = (v[3] \div 16) % 2 /\ (B \div 16) % 2 = (v[3] \div 8) % 2
      /\ (B \div 8) % 2 = (v[3] \div 4) % 2 /\ (B \div 4) % 2 = (v[3] \div 2) % 2
      /\ (B \div 2) % 2 = v[3] % 2
      /\ B % 2 = (v[4] \div 16) % 2
  BY <1>1
<1>5. /\ (C \div 128) % 2 = (v[4] \div 8) % 2 /\ (C \div 64) % 2 = (v[4] \div 4) % 2
      /\ (C \div 32) % 2 = (v[4] \div 2) % 2 /\ (C \div 16) % 2 = v[4] % 2
      /\ (C \div 8) % 2 = (v[5] \div 16) % 2 /\ (C \div 4) % 2 = (v[5] \div 8) % 2
      /\ (C \div 2) % 2 = (v[5] \div 4) % 2 /\ C % 2 = (v[5] \div 2) % 2
  BY <1>1
<1>6. /\ (D \div 128) % 2 = v[5] % 2
      /\ (D \div 64) % 2 = (v[6] \div 16) % 2 /\ (D \div 32) % 2 = (v[6] \div 8) % 2
      /\ (D \div 16) % 2 = (v[6] \div 4) % 2 /\ (D \div 8) % 2 = (v[6] \div 2) % 2
      /\ (D \div 4) % 2 = v[6] % 2
      /\ (D \div 2) % 2 = (v[7] \div 16) % 2 /\ D % 2 = (v[7] \div 8) % 2
  BY <1>1
<1>7. /\ (E \div 128) % 2 = (v[7] \div 4) % 2 /\ (E \div 64) % 2 = (v[7] \div 2) % 2
      /\ (E \div 32) % 2 = v[7] % 2
      /\ (E \div 16) % 2 = (v[8] \div 16) % 2 /\ (E \div 8) % 2 = (v[8] \div 8) % 2
      /\ (E \div 4) % 2 = (v[8] \div 4) % 2 /\ (E \div 2) % 2 = (v[8] \div 2) % 2
      /\ E % 2 = v[8] % 2
  BY <1>1
<1>8. A \in Int /\ B \in Int /\ C \in Int /\ D \in Int /\ E \in Int
  BY <1>1
<1> HIDE DEF A, B, C, D, E
<1>9. CASE y \in 1..8
  <2>1. y = 1 \/ y = 2 \/ y = 3 \/ y = 4 \/ y = 5 \/ y = 6 \/ y = 7 \/ y = 8
    BY <1>9
  <2>2. /\ BitOf(t, 8, 1) = (A \div 128) % 2 /\ BitOf(t, 8, 2) = (A \div 64) % 2
        /\ BitOf(t, 8, 3) = (A \div 32) % 2 /\ BitOf(t, 8, 4) = (A \div 16) % 2
        /\ BitOf(t, 8, 5) = (A \div 8) % 2 /\ BitOf(t, 8, 6) = (A \div 4) % 2
        /\ BitOf(t, 8, 7) = (A \div 2) % 2 /\ BitOf(t, 8, 8) = A % 2
    BY <1>2, <1>8 DEF BitOf
  <2>3. /\ BitOf(v, 5, 1) = (v[1] \div 16) % 2 /\ BitOf(v, 5, 2) = (v[1] \div 8) % 2
        /\ BitOf(v, 5, 3) = (v[1] \div 4) % 2 /\ BitOf(v, 5, 4) = (v[1] \div 2) % 2
        /\ BitOf(v, 5, 5) = v[1] % 2 /\ BitOf(v, 5, 6) = (v[2] \div 16) % 2
        /\ BitOf(v, 5, 7) = (v[2] \div 8) % 2 /\ BitOf(v, 5, 8) = (v[2] \div 4) % 2
    BY <1>1 DEF BitOf
  <2>4. BitOf(t, 8, y) = BitOf(v, 5, y)
    BY <1>3, <2>1, <2>2, <2>3
  <2>5. QED BY <2>4 DEF t
<1>10. CASE y \in 9..16
  <2>1. y = 9 \/ y = 10 \/ y = 11 \/ y = 12 \/ y = 13 \/ y = 14 \/ y = 15 \/ y = 16
    BY <1>10
  <2>2. /\ BitOf(t, 8, 9) = (B \div 128) % 2 /\ BitOf(t, 8, 10) = (B \div 64) % 2
        /\ BitOf(t, 8, 11) = (B \div 32) % 2 /\ BitOf(t, 8, 12) = (B \div 16) % 2
        /\ BitOf(t, 8, 13) = (B \div 8) % 2 /\ BitOf(t, 8, 14) = (B \div 4) % 2
        /\ BitOf(t, 8, 15) = (B \div 2) % 2 /\ BitOf(t, 8, 16) = B % 2
    BY <1>2, <1>8 DEF BitOf
  <2>3. /\ BitOf(v, 5, 9) = (v[2] \div 2) % 2 /\ BitOf(v, 5, 10) = v[2] % 2
        /\ BitOf(v, 5, 11) = (v[3] \div 16) % 2 /\ BitOf(v, 5, 12) = (v[3] \div 8) % 2
        /\ BitOf(v, 5, 13) = (v[3] \div 4) % 2 /\ BitOf(v, 5, 14) = (v[3] \div 2) % 2
        /\ BitOf(v, 5, 15) = v[3] % 2 /\ BitOf(v, 5, 16) = (v[4] \div 16) % 2
    BY <1>1 DEF BitOf
  <2>4. BitOf(t, 8, y) = BitOf(v, 5, y)
    BY <1>4, <2>1, <2>2, <2>3
  <2>5. QED BY <2>4 DEF t
<1>11. CASE y \in 17..24
  <2>1. y = 17 \/ y = 18 \/ y = 19 \/ y = 20 \/ y = 21 \/ y = 22 \/ y = 23 \/ y = 24
    BY <1>11
  <2>2. /\ BitOf(t, 8, 17) = (C \div 128) % 2 /\ BitOf(t, 8, 18) = (C \div 64) % 2
        /\ BitOf(t, 8, 19) = (C \div 32) % 2 /\ BitOf(t, 8, 20) = (C \div 16) % 2
        /\ BitOf(t, 8, 21) = (C \div 8) % 2 /\ BitOf(t, 8, 22) = (C \div 4) % 2
        /\ BitOf(t, 8, 23) = (C \div 2) % 2 /\ BitOf(t, 8, 24) = C % 2
    BY <1>2, <1>8 DEF BitOf
  <2>3. /\ BitOf(v, 5, 17) = (v[4] \div 8) % 2 /\ BitOf(v, 5, 18) = (v[4] \div 4) % 2
        /\ BitOf(v, 5, 19) = (v[4] \div 2) % 2 /\ BitOf(v, 5, 20) = v[4] % 2
        /\ BitOf(v, 5, 21) = (v[5] \div 16) % 2 /\ BitOf(v, 5, 22) = (v[5] \div 8) % 2
        /\ BitOf(v, 5, 23) = (v[5] \div 4) % 2 /\ BitOf(v, 5, 24) = (v[5] \div 2) % 2
    BY <1>1 DEF BitOf
  <2>4. BitOf(t, 8, y) = BitOf(v, 5, y)
    BY <1>5, <2>1, <2>2, <2>3
  <2>5. QED BY <2>4 DEF t
<1>12. CASE y \in 25..32
  <2>1. y = 25 \/ y = 26 \/ y = 27 \/ y = 28 \/ y = 29 \/ y = 30 \/ y = 31 \/ y = 32
    BY <1>12
  <2>2. /\ BitOf(t, 8, 25) = (D \div 128) % 2 /\ BitOf(t, 8, 26) = (D \div 64) % 2
        /\ BitOf(t, 8, 27) = (D \div 32) % 2 /\ BitOf(t, 8, 28) = (D \div 16) % 2
        /\ BitOf(t, 8, 29) = (D \div 8) % 2 /\ BitOf(t, 8, 30) = (D \div 4) % 2
        /\ BitOf(t, 8, 31) = (D \div 2) % 2 /\ BitOf(t, 8, 32) = D % 2
    BY <1>2, <1>8 DEF BitOf
  <2>3. /\ BitOf(v, 5, 25) = v[5] % 2 /\ BitOf(v, 5, 26) = (v[6] \div 16) % 2
        /\ BitOf(v, 5, 27) = (v[6] \div 8) % 2 /\ BitOf(v, 5, 28) = (v[6] \div 4) % 2
        /\ BitOf(v, 5, 29) = (v[6] \div 2) % 2 /\ BitOf(v, 5, 30) = v[6] % 2
        /\ BitOf(v, 5, 31) = (v[7] \div 16) % 2 /\ BitOf(v, 5, 32) = (v[7] \div 8) % 2
    BY <1>1 DEF BitOf
  <2>4. BitOf(t, 8, y) = BitOf(v, 5, y)
    BY <1>6, <2>1, <2>2, <2>3
  <2>5. QED BY <2>4 DEF t
<1>13. CASE y \in 33..40
  <2>1. y = 33 \/ y = 34 \/ y = 35 \/ y = 36 \/ y = 37 \/ y = 38 \/ y = 39 \/ y = 40
    BY <1>13
  <2>2. /\ BitOf(t, 8, 33) = (E \div 128) % 2 /\ BitOf(t, 8, 34) = (E \div 64) % 2
        /\ BitOf(t, 8, 35) = (E \div 32) % 2 /\ BitOf(t, 8, 36) = (E \div 16) % 2
        /\ BitOf(t, 8, 37) = (E \div 8) % 2 /\ BitOf(t, 8, 38) = (E \div 4) % 2
        /\ BitOf(t, 8, 39) = (E \div 2) % 2 /\ BitOf(t, 8, 40) = E % 2
    BY <1>2, <1>8 DEF BitOf
  <2>3. /\ BitOf(v, 5, 33) = (v[7] \div 4) % 2 /\ BitOf(v, 5, 34) = (v[7] \div 2) % 2
        /\ BitOf(v, 5, 35) = v[7] % 2 /\ BitOf(v, 5, 36) = (v[8] \div 16) % 2
        /\ BitOf(v, 5, 37) = (v[8] \div 8) % 2 /\ BitOf(v, 5, 38) = (v[8] \div 4) % 2
        /\ BitOf(v, 5, 39) = (v[8] \div 2) % 2 /\ BitOf(v, 5, 40) = v[8] % 2
    BY <1>1 DEF BitOf
  <2>4. BitOf(t, 8, y) = BitOf(v, 5, y)
    BY <1>7, <2>1, <2>2, <2>3
  <2>5. QED BY <2>4 DEF t
<1>14. QED BY <1>9, <1>10, <1>11, <1>12, <1>13

\* There is a character for every rank.
LEMMA EveryRank ==
  ASSUME NEW text, NEW M \in Nat, DOMAIN text = 1..M
  PROVE  /\ Cardinality(Kept(text)) \in Nat
         /\ \A n \in 1..Cardinality(Kept(text)) : Nth(text, n) \in Kept(text)
<1> DEFINE P == Kept(text)
           N == Cardinality(P)
           upto(k) == {m \in P : m <= k}
           f == [k \in P |-> Cardinality(upto(k))]
<1>1. P \subseteq 1..M /\ IsFiniteSet(P) /\ N \in Nat
  <2>1. 1 \in Int /\ M \in Int /\ P \subseteq 1..M
    BY DEF Kept
  <2>2. IsFiniteSet(1..M)
    BY <2>1, FS_Interval
  <2>3. IsFiniteSet(P)
    BY <2>1, <2>2, FS_Subset
  <2>4. QED BY <2>1, <2>3, FS_CardinalityType
<1> HIDE DEF P
<1>2. ASSUME NEW k \in P
      PROVE  IsFiniteSet(upto(k)) /\ Cardinality(upto(k)) \in 1..N
  <2>1. upto(k) \in SUBSET P /\ k \in upto(k)
    BY <1>1
  <2>2. IsFiniteSet(upto(k)) /\ Cardinality(upto(k)) <= N
    BY <1>1, <2>1, FS_Subset
  <2>3. Cardinality(upto(k)) \in Nat /\ Cardinality(upto(k)) # 0
    BY <2>1, <2>2, FS_CardinalityType, FS_EmptySet
  <2>4. QED BY <1>1, <2>2, <2>3
<1>3. ASSUME NEW k \in P, NEW m \in P, k < m
      PROVE  Cardinality(upto(k)) # Cardinality(upto(m))
  <2>1. upto(k) \in SUBSET upto(m) /\ m \in upto(m) /\ m \notin upto(k)
    <3>1. \A x \in P : x \in Int
      BY <1>1
    <3>2. ASSUME NEW x \in P, x <= k PROVE x <= m
      BY <1>3, <3>1, <3>2
    <3>3. m <= m /\ ~(m <= k)
      BY <1>3, <3>1
    <3>4. QED BY <1>3, <3>2, <3>3
  <2>2. IsFiniteSet(upto(m))
    BY <1>2, <1>3
  <2> DEFINE S == upto(m)
             T == upto(k)
  <2>3. T \in SUBSET S /\ T # S /\ IsFiniteSet(S)
    BY <2>1, <2>2
  <2> HIDE DEF S, T
  <2>4. Cardinality(S) # Cardinality(T)
    BY <2>3, FS_Subset
  <2>5. QED BY <2>4 DEF S, T
<1>4. f \in Injection(P, 1..N)
  <2>1. f \in [P -> 1..N]
    BY <1>2
  <2>2. ASSUME NEW k \in P, NEW m \in P, f[k] = f[m]
        PROVE  k = m
    <3>1. ~(k < m) /\ ~(m < k)
      BY <1>3, <2>2
    <3>2. QED BY <1>1, <3>1
  <2>3. QED BY <2>1, <2>2 DEF Injection, IsInjective
<1>5. IsFiniteSet(1..N) /\ Cardinality(1..N) = N
  <2>1. 1 \in Int /\ N \in Int
    BY <1>1
  <2>2. IsFiniteSet(1..N) /\ Cardinality(1..N) = IF 1 > N THEN 0 ELSE N - 1 + 1
    BY <2>1, FS_Interval
  <2>3. QED BY <1>1, <2>2
<1>6. f \in Surjection(P, 1..N)
  <2> HIDE DEF f
  <2>1. QED BY <1>4, <1>5, FS_Injection
<1>7. ASSUME NEW n \in 1..N
      PROVE  Nth(text, n) \in P
  <2>1. PICK k \in P : Cardinality(upto(k)) = n
    BY <1>6 DEF Surjection
  <2>2. k \in Kept(text) /\ Rank(text, k) = n
    BY <2>1 DEF P, Rank
  <2>3. QED BY <2>2 DEF Nth, P
<1>8. QED BY <1>1, <1>7 DEF P

\* The text that is read has padding only where the secret has.
LEMMA NoPaddingRead ==
  ASSUME NEW text, NEW M \in Nat, DOMAIN text = 1..M, Pad \notin ToSet(text),
         NEW u, u = normalizedBase32String(text)
  PROVE  /\ Len(u) \in Nat /\ u \in Seq({u[k] : k \in DOMAIN u})
         /\ DOMAIN u = 1..Len(u) /\ \A k \in 1..Len(u) : u[k] # Pad
<1> DEFINE N == Cardinality(Kept(text))
<1>1. N \in Nat /\ \A n \in 1..N : Nth(text, n) \in Kept(text)
  BY EveryRank
<1>2. u = [n \in 1..N |-> Upper(text[Nth(text, n)])]
  BY DEF normalizedBase32String
<1> HIDE DEF N
<1>3. DOMAIN u = 1..N /\ Len(u) = N /\ u \in Seq({u[k] : k \in DOMAIN u})
  <2>1. DOMAIN u = 1..N /\ u = [n \in 1..N |-> u[n]]
    BY <1>2
  <2>2. u \in [1..N -> {u[k] : k \in DOMAIN u}]
    BY <2>1
  <2>3. QED BY <1>1, <2>1, <2>2
<1>4. ASSUME NEW k \in 1..N
      PROVE  u[k] # Pad
  <2> DEFINE c == text[Nth(text, k)]
  <2>1. Nth(text, k) \in DOMAIN text
    BY <1>1 DEF Kept
  <2>2. c # Pad
    BY <2>1 DEF ToSet
  <2> HIDE DEF c
  <2>3. Upper(c) # Pad
    <3>1. CASE c \in {LowerCase + d : d \in Letters}
      <4>1. PICK d \in Letters : c = LowerCase + d
        BY <3>1
      <4>2. Upper(c) = c - LowerCase
        BY <3>1 DEF Upper
      <4>3. Upper(c) = d
        BY <4>1, <4>2 DEF Letters, LowerCase
      <4>4. QED BY <4>3 DEF Letters, Pad
    <3>2. CASE c \notin {LowerCase + d : d \in Letters}
      BY <2>2, <3>2 DEF Upper
    <3>3. QED BY <3>1, <3>2
  <2>4. QED BY <1>2, <2>3 DEF c
<1>5. QED BY <1>1, <1>3, <1>4

\* Padding makes it whole chunks.
LEMMA PaddedText ==
  ASSUME NEW S, NEW u \in Seq(S), NEW T, T = Padded(u)
  PROVE  /\ Len(T) = 8 * ((Len(u) + 7) \div 8)
         /\ \A k \in 1..Len(T) : T[k] = IF k <= Len(u) THEN u[k] ELSE Pad
<1> DEFINE q == (8 - (Len(u) % 8)) % 8
           pads == [k \in 1..q |-> Pad]
           R == S \union {Pad}
<1>1. Len(u) \in Nat
  OBVIOUS
<1>2. q \in 0..7 /\ Len(u) + q = 8 * ((Len(u) + 7) \div 8)
  <2>1. Len(u) = 8 * (Len(u) \div 8) + (Len(u) % 8) /\ Len(u) % 8 \in 0..7
    BY <1>1
  <2>2. QED BY <1>1, <2>1
<1>3. T = u \o pads
  BY DEF Padded
<1> HIDE DEF q
<1>4. pads \in Seq(R) /\ Len(pads) = q /\ \A k \in 1..q : pads[k] = Pad
  BY <1>2
<1>5. u \in Seq(R)
  BY SeqMonotonic
<1> HIDE DEF pads, R
<1>6. /\ Len(u \o pads) = Len(u) + Len(pads)
      /\ \A k \in 1..(Len(u) + Len(pads)) :
           (u \o pads)[k] = IF k <= Len(u) THEN u[k] ELSE pads[k - Len(u)]
  BY <1>4, <1>5, ConcatProperties
<1>7. Len(T) = 8 * ((Len(u) + 7) \div 8)
  BY <1>2, <1>3, <1>4, <1>6
<1>8. ASSUME NEW k \in 1..Len(T)
      PROVE  T[k] = IF k <= Len(u) THEN u[k] ELSE Pad
  <2>1. k \in 1..(Len(u) + q) /\ (~(k <= Len(u)) => k - Len(u) \in 1..q)
    BY <1>1, <1>2, <1>3, <1>4, <1>6
  <2>2. QED BY <1>3, <1>4, <1>6, <2>1
<1>9. QED BY <1>7, <1>8

\* A chunk with the text's last m characters, or with eight of them.
LEMMA DigitChunk ==
  ASSUME NEW str, DOMAIN str = 1..8, NEW m \in 1..8, \A k \in 1..8 : str[k] = Pad <=> k > m
  PROVE  ChunkThrows(str) <=> (\E k \in 1..m : str[k] \notin Digits) \/ m \notin {2, 4, 5, 7, 8}
<1>1. PadCount(str) = 8 - m
  <2>1. 8 - m \in 0..8 /\ 8 - (8 - m) = m
    OBVIOUS
  <2>2. QED BY <2>1, PadsTrail
<1>2. 8 - m \in DOMAIN FinalCount <=> m \in {2, 4, 5, 7, 8}
  BY DEF FinalCount
<1>3. ~ \E k \in 2..8 : str[k] # Pad /\ str[k - 1] = Pad
  <2>1. ASSUME NEW k \in 2..8, str[k] # Pad PROVE str[k - 1] # Pad
    BY <2>1
  <2>2. QED BY <2>1
<1>4. (\E k \in 1..8 : str[k] \notin Digits \union {Pad}) <=> \E k \in 1..m : str[k] \notin Digits
  <2>1. \A k \in 1..m : k \in 1..8 /\ str[k] # Pad
    OBVIOUS
  <2>2. \A k \in 1..8 : k \in 1..m \/ str[k] = Pad
    OBVIOUS
  <2>3. QED BY <2>1, <2>2
<1>5. QED BY <1>1, <1>2, <1>3, <1>4 DEF ChunkThrows

\* What the decoder has read of a text u after c chunks: digits, whose bits are
\* those of the bytes they fill.
BytesOf(u, c, bs) ==
  /\ c <= (Len(u) + 7) \div 8
  /\ \A k \in 1..Len(u) : k <= 8 * c => u[k] \in Digits
  /\ 8 * c >= Len(u) => Fits(Len(u))
  /\ bs \in Seq(Byte)
  /\ Len(bs) = IF 8 * c >= Len(u) THEN (5 * Len(u)) \div 8 ELSE 5 * c
  /\ \A x \in 1..(8 * Len(bs)) : BitOf(bs, 8, x) = BitOf(u, 5, x)

ReadTo(u, c) == newstr = Padded(u) /\ i = 8 * c + 1 /\ BytesOf(u, c, ret)

Unreadable(u) == (\E k \in 1..Len(u) : u[k] \notin Digits) \/ ~Fits(Len(u))

LEMMA EightOf ==
  ASSUME NEW s, NEW k \in Int
  PROVE  /\ DOMAIN SubSeq(s, k, k + 7) = 1..8
         /\ \A x \in 1..8 : SubSeq(s, k, k + 7)[x] = s[k + x - 1]
<1>1. SubSeq(s, k, k + 7) = [x \in 1..((k + 7) - k + 1) |-> s[k + x - 1]]
  OBVIOUS
<1>2. (k + 7) - k + 1 = 8
  OBVIOUS
<1>3. QED BY <1>1, <1>2

\* The chunk after c others: the m characters that are left, or eight.
Left(u, c, m) == Len(u) = 8 * c + m \/ (m = 8 /\ Len(u) > 8 * c + 8)
Holds(str, u, c, m) ==
  /\ DOMAIN str = 1..8
  /\ \A k \in 1..8 : str[k] = Pad <=> k > m
  /\ \A k \in 1..m : 8 * c + k \in 1..Len(u) /\ str[k] = u[8 * c + k]

LEMMA NextChunk ==
  ASSUME NEW S, NEW u \in Seq(S), \A k \in 1..Len(u) : u[k] # Pad,
         NEW c \in Nat, ReadTo(u, c), ~(i > Len(newstr)),
         NEW str, str = SubSeq(newstr, i, i + 7)
  PROVE  \E m \in 1..8 : Left(u, c, m) /\ Holds(str, u, c, m)
<1> DEFINE L == Len(u)
<1>1. newstr = Padded(u) /\ i = 8 * c + 1 /\ c <= (L + 7) \div 8 /\ L \in Nat
  BY DEF ReadTo, BytesOf
<1>2. /\ Len(newstr) = 8 * ((L + 7) \div 8)
      /\ \A k \in 1..Len(newstr) : newstr[k] = IF k <= L THEN u[k] ELSE Pad
  BY <1>1, PaddedText
<1>3. \A k \in 1..L : u[k] # Pad
  OBVIOUS
<1> HIDE DEF L
<1>4. 8 * c + 8 <= Len(newstr) /\ 8 * c < L
  BY <1>1, <1>2
<1>5. PICK m \in 1..8 : L = 8 * c + m \/ (m = 8 /\ L > 8 * c + 8)
  <2>1. CASE L > 8 * c + 8
    BY <2>1
  <2>2. CASE ~(L > 8 * c + 8)
    <3>1. L - 8 * c \in 1..8 /\ L = 8 * c + (L - 8 * c)
      BY <1>1, <1>4, <2>2
    <3>2. QED BY <3>1
  <2>3. QED BY <2>1, <2>2
<1>6. DOMAIN str = 1..8 /\ \A k \in 1..8 : str[k] = newstr[8 * c + k]
  <2>1. i \in Int
    BY <1>1
  <2>2. DOMAIN str = 1..8
    BY <2>1, EightOf
  <2>3. ASSUME NEW k \in 1..8 PROVE str[k] = newstr[8 * c + k]
    <3>1. i + k - 1 = 8 * c + k
      BY <1>1
    <3>2. str[k] = newstr[i + k - 1]
      BY <2>1, EightOf
    <3>3. QED BY <3>1, <3>2
  <2>4. QED BY <2>2, <2>3
<1>7. ASSUME NEW k \in 1..8
      PROVE  /\ str[k] = Pad <=> k > m
             /\ k <= m => 8 * c + k \in 1..L /\ str[k] = u[8 * c + k]
  <2>1. 8 * c + k \in 1..Len(newstr) /\ str[k] = newstr[8 * c + k]
    <3>1. Len(newstr) \in Nat
      BY <1>1, <1>2
    <3>2. 8 * c + k \in 1..Len(newstr)
      BY <1>4, <3>1
    <3>3. QED BY <1>6, <3>2
  <2>2. CASE k <= m
    <3>1. 8 * c + k \in 1..L /\ 8 * c + k <= L
      BY <1>1, <1>5, <2>2
    <3>2. str[k] = u[8 * c + k] /\ str[k] # Pad
      BY <1>2, <1>3, <2>1, <3>1
    <3>3. ~(k > m)
      BY <2>2
    <3>4. QED BY <3>1, <3>2, <3>3
  <2>3. CASE ~(k <= m)
    <3>1. ~(8 * c + k <= L)
      BY <1>1, <1>5, <2>3
    <3>2. str[k] = Pad
      BY <1>2, <2>1, <3>1
    <3>3. k > m
      BY <2>3
    <3>4. QED BY <2>3, <3>2, <3>3
  <2>4. QED BY <2>2, <2>3
<1>8. \A k \in 1..m : k \in 1..8 /\ k <= m
  BY <1>5
<1>9. \A k \in 1..m : 8 * c + k \in 1..L /\ str[k] = u[8 * c + k]
  BY <1>7, <1>8
<1>10. Left(u, c, m) /\ Holds(str, u, c, m)
  BY <1>5, <1>6, <1>7, <1>9 DEF L, Left, Holds
<1>11. QED BY <1>10

\* Lengths: m characters after c chunks, n bytes of them.
LEMMA Lengths ==
  ASSUME NEW c \in Nat, NEW n \in 1..5, NEW m, PutChars[n] = m,
         NEW u, NEW L \in Nat, L = Len(u), Left(u, c, m)
  PROVE  /\ 5 * c + n = IF 8 * (c + 1) >= L THEN (5 * L) \div 8 ELSE 5 * (c + 1)
         /\ 8 * (c + 1) >= L => Fits(L)
         /\ 8 * n <= 5 * m /\ c + 1 <= (L + 7) \div 8 /\ ~(8 * c >= L)
<1>1. m = IF n = 1 THEN 2 ELSE IF n = 2 THEN 4 ELSE IF n = 3 THEN 5 ELSE IF n = 4 THEN 7 ELSE 8
  BY DEF PutChars
<1>l. L = 8 * c + m \/ (m = 8 /\ L > 8 * c + 8)
  BY DEF Left
<1>2. CASE L = 8 * c + m
  <2>1. (5 * L) \div 8 = 5 * c + ((5 * m) \div 8) /\ L % 8 = m % 8
    <3>1. m \in Nat /\ 5 * L = 8 * (5 * c) + 5 * m
      BY <1>1, <1>2
    <3>2. QED BY <1>2, <3>1
  <2>2. (5 * m) \div 8 = n /\ m % 8 \in {0, 2, 4, 5, 7}
    BY <1>1
  <2>3. 8 * (c + 1) >= L /\ 8 * n <= 5 * m /\ c + 1 <= (L + 7) \div 8 /\ ~(8 * c >= L)
    BY <1>1, <1>2
  <2>4. QED BY <2>1, <2>2, <2>3 DEF Fits
<1>3. CASE m = 8 /\ L > 8 * c + 8
  <2>1. n = 5 /\ ~(8 * (c + 1) >= L) /\ 5 * c + n = 5 * (c + 1)
    BY <1>1, <1>3
  <2>2. 8 * n <= 5 * m /\ c + 1 <= (L + 7) \div 8 /\ ~(8 * c >= L)
    BY <1>3, <2>1
  <2>3. QED BY <2>1, <2>2
<1>4. QED BY <1>l, <1>2, <1>3

LEMMA Joined ==
  ASSUME NEW r \in Seq(Byte), NEW bs \in Seq(Byte)
  PROVE  /\ r \o bs \in Seq(Byte) /\ Len(r \o bs) = Len(r) + Len(bs)
         /\ \A k \in 1..Len(r) : (r \o bs)[k] = r[k]
         /\ \A z \in 1..Len(bs) : (r \o bs)[Len(r) + z] = bs[z]
<1> DEFINE all == r \o bs
<1>1. /\ all \in Seq(Byte) /\ Len(all) = Len(r) + Len(bs)
      /\ \A k \in 1..(Len(r) + Len(bs)) :
           all[k] = IF k <= Len(r) THEN r[k] ELSE bs[k - Len(r)]
  BY ConcatProperties
<1> HIDE DEF all
<1>2. Len(r) \in Nat /\ Len(bs) \in Nat
  OBVIOUS
<1>3. ASSUME NEW z \in 1..Len(bs) PROVE all[Len(r) + z] = bs[z]
  <2>1. /\ Len(r) + z \in 1..(Len(r) + Len(bs)) /\ ~(Len(r) + z <= Len(r))
        /\ (Len(r) + z) - Len(r) = z
    BY <1>2
  <2>2. QED BY <1>1, <2>1
<1>4. ASSUME NEW k \in 1..Len(r) PROVE all[k] = r[k]
  <2>1. k \in 1..(Len(r) + Len(bs)) /\ k <= Len(r)
    BY <1>2
  <2>2. QED BY <1>1, <2>1
<1>5. QED BY <1>1, <1>3, <1>4 DEF all

\* A chunk that is accepted adds its bytes.
LEMMA ChunkRead ==
  ASSUME NEW S, NEW u \in Seq(S), \A k \in 1..Len(u) : u[k] # Pad,
         NEW c \in Nat, ReadTo(u, c), ~(i > Len(newstr)),
         NEW str, str = SubSeq(newstr, i, i + 7), ~ChunkThrows(str),
         NEW all, all = ret \o b32ChunkToBytes(str)
  PROVE  BytesOf(u, c + 1, all)
<1> DEFINE L == Len(u)
<1>1. PICK m \in 1..8 : Left(u, c, m) /\ Holds(str, u, c, m)
  BY NextChunk
<1>2. DOMAIN str = 1..8
  BY <1>1 DEF Holds
<1>3. \A k \in 1..8 : str[k] = Pad <=> k > m
  BY <1>1 DEF Holds
<1>4. \A k \in 1..m : str[k] = u[8 * c + k]
  BY <1>1 DEF Holds
<1>5. (\A k \in 1..m : str[k] \in Digits) /\ m \in {2, 4, 5, 7, 8}
  BY <1>2, <1>3, DigitChunk
<1> DEFINE bytes == b32ChunkToBytes(str)
<1>6. PICK n \in 1..5, v \in [1..8 -> Digits] : Read(str, n, v)
  BY <1>2, Accepted
<1>7. bytes \in Seq(Byte) /\ Len(bytes) = n
  BY <1>6 DEF Read
<1>8. \A k \in 1..n : bytes[k] = ToBytes(FromDigits(v))[k]
  BY <1>6 DEF Read
<1>9. all = ret \o bytes
  OBVIOUS
<1> HIDE DEF bytes
<1>10. PutChars[n] = m
  <2>1. PutChars[n] \in 1..8
    BY DEF PutChars
  <2>2. \A k \in 1..8 : k > m <=> k > PutChars[n]
    BY <1>3, <1>6 DEF Read
  <2>3. QED BY <2>1, <2>2
<1>11. \A k \in 1..m : u[8 * c + k] = v[k]
  <2>1. ASSUME NEW k \in 1..m PROVE u[8 * c + k] = v[k]
    <3>1. k \in 1..8 /\ k <= m
      OBVIOUS
    <3>2. v[k] = str[k]
      BY <1>6, <1>10, <3>1 DEF Read
    <3>3. QED BY <1>4, <3>2
  <2>2. QED BY <2>1
<1>12. L \in Nat /\ L = Len(u)
  OBVIOUS
<1> HIDE DEF L
<1>13. /\ 5 * c + n = IF 8 * (c + 1) >= L THEN (5 * L) \div 8 ELSE 5 * (c + 1)
       /\ 8 * (c + 1) >= L => Fits(L)
       /\ 8 * n <= 5 * m /\ c + 1 <= (L + 7) \div 8 /\ ~(8 * c >= L)
  BY <1>1, <1>10, <1>12, Lengths
<1>14. /\ \A k \in 1..L : k <= 8 * c => u[k] \in Digits
       /\ ret \in Seq(Byte) /\ Len(ret) = 5 * c
       /\ \A x \in 1..(8 * Len(ret)) : BitOf(ret, 8, x) = BitOf(u, 5, x)
  BY <1>12, <1>13 DEF ReadTo, BytesOf
<1>15. ret \in Seq(Byte) /\ Len(ret) = 5 * c
  BY <1>14
<1>16. /\ all \in Seq(Byte) /\ Len(all) = 5 * c + n
       /\ \A k \in 1..(5 * c) : all[k] = ret[k]
       /\ \A z \in 1..n : all[5 * c + z] = bytes[z]
  <2>1. /\ ret \o bytes \in Seq(Byte) /\ Len(ret \o bytes) = Len(ret) + Len(bytes)
        /\ \A k \in 1..Len(ret) : (ret \o bytes)[k] = ret[k]
        /\ \A z \in 1..Len(bytes) : (ret \o bytes)[Len(ret) + z] = bytes[z]
    BY <1>7, <1>15, Joined
  <2>2. QED BY <1>7, <1>9, <1>15, <2>1
<1>17. ASSUME NEW x \in 1..(8 * (5 * c + n))
       PROVE  BitOf(all, 8, x) = BitOf(u, 5, x)
  <2>1. CASE x <= 40 * c
    <3>1. ((x - 1) \div 8) + 1 \in 1..(5 * c) /\ x \in 1..(8 * (5 * c))
      BY <2>1
    <3>2. all[((x - 1) \div 8) + 1] = ret[((x - 1) \div 8) + 1]
      BY <1>16, <3>1
    <3>3. BitOf(all, 8, x) = BitOf(ret, 8, x)
      BY <3>2 DEF BitOf
    <3>4. BitOf(ret, 8, x) = BitOf(u, 5, x)
      BY <1>14, <1>15, <3>1
    <3>5. QED BY <3>3, <3>4
  <2>2. CASE ~(x <= 40 * c)
    <3> DEFINE y == x - 40 * c
               t == ToBytes(FromDigits(v))
               z == ((y - 1) \div 8) + 1
               d == ((y - 1) \div 5) + 1
    <3>1. y \in 1..(8 * n) /\ y \in 1..(5 * m) /\ y \in 1..40 /\ x = 40 * c + y
      BY <1>13, <2>2
    <3> HIDE DEF y, t
    <3>2. z \in 1..n /\ d \in 1..m
      BY <3>1
    <3>3. all[5 * c + z] = t[z]
      <4> HIDE DEF z
      <4>1. all[5 * c + z] = bytes[z]
        BY <1>16, <3>2
      <4>2. bytes[z] = t[z]
        BY <1>8, <3>2 DEF t
      <4>3. QED BY <4>1, <4>2
    <3>4. u[8 * c + d] = v[d]
      <4> HIDE DEF d
      <4>1. QED BY <1>11, <3>2
    <3>9. y \in 1..40
      BY <3>1
    <3>5. BitOf(all, 8, 40 * c + y) = BitOf(t, 8, y)
      <4>1. /\ (((40 * c + y) - 1) \div 8) + 1 = 5 * c + z
            /\ ((40 * c + y) - 1) % 8 = (y - 1) % 8
        BY <3>9
      <4>2. QED BY <3>3, <4>1 DEF BitOf
    <3>6. BitOf(u, 5, 40 * c + y) = BitOf(v, 5, y)
      <4>1. /\ (((40 * c + y) - 1) \div 5) + 1 = 8 * c + d
            /\ ((40 * c + y) - 1) % 5 = (y - 1) % 5
        BY <3>9
      <4>2. QED BY <3>4, <4>1 DEF BitOf
    <3>7. BitOf(t, 8, y) = BitOf(v, 5, y)
      BY <3>1, SameBits DEF t
    <3>8. QED BY <3>1, <3>5, <3>6, <3>7
  <2>3. QED BY <2>1, <2>2
<1>18. ASSUME NEW k \in 1..L, k <= 8 * (c + 1)
       PROVE  u[k] \in Digits
  <2>1. CASE k <= 8 * c
    BY <1>14, <2>1
  <2>2. CASE ~(k <= 8 * c)
    <3>1. k - 8 * c \in 1..m /\ 8 * c + (k - 8 * c) = k
      <4>1. L = 8 * c + m \/ (m = 8 /\ L > 8 * c + 8)
        BY <1>1, <1>12 DEF Left
      <4>2. QED BY <1>12, <1>18, <2>2, <4>1
    <3>2. str[k - 8 * c] = u[8 * c + (k - 8 * c)]
      BY <1>4, <3>1
    <3>3. QED BY <1>5, <3>1, <3>2
  <2>3. QED BY <2>1, <2>2
<1>19. QED BY <1>12, <1>13, <1>16, <1>17, <1>18 DEF BytesOf

\* A text that is not read to its end holds something else, or is too long or
\* too short.
LEMMA ChunkRefused ==
  ASSUME NEW S, NEW u \in Seq(S), \A k \in 1..Len(u) : u[k] # Pad,
         NEW c \in Nat, ReadTo(u, c), ~(i > Len(newstr)),
         NEW str, str = SubSeq(newstr, i, i + 7), ChunkThrows(str)
  PROVE  Unreadable(u)
<1>1. PICK m \in 1..8 : Left(u, c, m) /\ Holds(str, u, c, m)
  BY NextChunk
<1>2. DOMAIN str = 1..8 /\ (\A k \in 1..8 : str[k] = Pad <=> k > m)
  BY <1>1 DEF Holds
<1>3. \A k \in 1..m : 8 * c + k \in 1..Len(u) /\ str[k] = u[8 * c + k]
  BY <1>1 DEF Holds
<1>4. (\E k \in 1..m : str[k] \notin Digits) \/ m \notin {2, 4, 5, 7, 8}
  BY <1>2, DigitChunk
<1>5. CASE \E k \in 1..m : str[k] \notin Digits
  BY <1>3, <1>5 DEF Unreadable
<1>6. CASE m \notin {2, 4, 5, 7, 8}
  <2>1. Len(u) = 8 * c + m /\ m \in 1..7
    BY <1>1, <1>6 DEF Left
  <2>2. Len(u) % 8 = m
    BY <2>1
  <2>3. QED BY <1>6, <2>2 DEF Unreadable, Fits
<1>7. QED BY <1>4, <1>5, <1>6

\* The secret's characters are numbered from one, and as long as nothing but
\* digits and separators has been met the decoder is somewhere in the text.
DigitsRead ==
  /\ \E M \in Nat : DOMAIN secret = 1..M
  /\ phase = "start" => i = 1 /\ ret = <<>>
  /\ Pad \notin ToSet(secret) =>
       /\ phase \in {"decode", "done"} => \E c \in Nat : ReadTo(normalizedBase32String(secret), c)
       /\ phase = "done" => i > Len(newstr)
       /\ phase = "thrown" => Unreadable(normalizedBase32String(secret))

LEMMA ReadNothing ==
  ASSUME NEW L \in Nat
  PROVE  /\ 0 <= (L + 7) \div 8 /\ \A k \in 1..L : ~(k <= 8 * 0)
         /\ 8 * 0 >= L => Fits(L)
         /\ 0 = IF 8 * 0 >= L THEN (5 * L) \div 8 ELSE 5 * 0
<1>1. 8 * 0 >= L => L = 0 /\ (5 * L) \div 8 = 0
  OBVIOUS
<1>2. 8 * 0 >= L => Fits(L)
  BY <1>1 DEF Fits
<1>3. QED BY <1>1, <1>2

LEMMA WrittenPlaces ==
  ASSUME NEW bs \in Seq(Byte), NEW text \in Written(toBase32(bs))
  PROVE  \E M \in Nat : DOMAIN text = 1..M
<1> DEFINE T == toBase32(bs)
<1>1. T \in Seq(Digits \union {Pad}) /\ Unpad(T) \in Seq(Digits \union {Pad})
  BY Repadded
<1>2. text \in {T, Unpad(T), Small(T), Spaced(Small(Unpad(T)))}
  BY DEF Written
<1> HIDE DEF T
<1>3. \A t \in Seq(Digits \union {Pad}) : DOMAIN Small(t) = 1..Len(t) /\ Len(t) \in Nat
  BY DEF Small
<1>4. CASE text \in {T, Unpad(T)}
  BY <1>1, <1>4
<1>5. CASE text = Small(T)
  BY <1>1, <1>3, <1>5
<1>6. CASE text = Spaced(Small(Unpad(T)))
  <2> DEFINE t == Small(Unpad(T))
  <2>1. Len(t) \in Nat
    BY <1>1, <1>3
  <2> HIDE DEF t
  <2>2. DOMAIN Spaced(t) = 1..(2 * Len(t)) /\ 2 * Len(t) \in Nat
    BY <2>1 DEF Spaced
  <2>3. QED BY <1>6, <2>2 DEF t
<1>7. QED BY <1>2, <1>4, <1>5, <1>6

LEMMA DigitsReadHolds == Spec => []DigitsRead
<1>1. Init => DigitsRead
  <2> SUFFICES ASSUME Init
               PROVE  \E M \in Nat : DOMAIN secret = 1..M
    BY DEF Init, Unread, DigitsRead
  <2>1. CASE secret \in Seq(Chars)
    BY <2>1
  <2>2. CASE \E bs \in Seq(Byte) : secret \in Written(toBase32(bs))
    BY <2>2, WrittenPlaces
  <2>3. CASE Given
    BY <2>1, <2>2, <2>3, ConstantsAssumption DEF Given
  <2>4. CASE \E v \in Jobs : secret = v.secret
    BY <2>1, <2>4, ConstantsAssumption
  <2>5. QED BY <2>3, <2>4 DEF Init
<1>2. DigitsRead /\ [Next]_vars => DigitsRead'
  <2> SUFFICES ASSUME DigitsRead, [Next]_vars
               PROVE  DigitsRead'
    OBVIOUS
  <2> DEFINE u == normalizedBase32String(secret)
  <2>1. secret' = secret
    BY DEF Next, DecodeText, Start, Decode, Totp, ComputeTotp, vars, decoder
  <2>2. PICK M \in Nat : DOMAIN secret = 1..M
    BY DEF DigitsRead
  <2>3. u' = u /\ (ToSet(secret))' = ToSet(secret)
    BY <2>1
  <2>4. ASSUME Pad \notin ToSet(secret)
        PROVE  /\ u \in Seq({u[k] : k \in DOMAIN u}) /\ \A k \in 1..Len(u) : u[k] # Pad
    BY <2>2, <2>4, NoPaddingRead
  <2> HIDE DEF u
  <2>5. CASE Start
    <3>1. newstr' = Padded(u) /\ i' = 1 /\ ret' = <<>> /\ phase' = "decode"
      BY <2>5 DEF Start, DigitsRead, u
    <3>2. ASSUME Pad \notin ToSet(secret) PROVE ReadTo(u, 0)'
      <4>1. Len(u) \in Nat
        BY <2>4, <3>2
      <4>2. /\ 0 <= (Len(u) + 7) \div 8 /\ \A k \in 1..Len(u) : ~(k <= 8 * 0)
            /\ 8 * 0 >= Len(u) => Fits(Len(u))
            /\ 0 = IF 8 * 0 >= Len(u) THEN (5 * Len(u)) \div 8 ELSE 5 * 0
        BY <4>1, ReadNothing
      <4>3. ret' \in Seq(Byte) /\ Len(ret') = 0 /\ i' = 8 * 0 + 1
        BY <3>1
      <4>4. \A x \in 1..(8 * Len(ret')) : BitOf(ret', 8, x) = BitOf(u, 5, x)
        BY <4>3
      <4>5. QED BY <2>3, <3>1, <4>2, <4>3, <4>4 DEF ReadTo, BytesOf
    <3>3. QED BY <2>1, <2>3, <3>1, <3>2 DEF DigitsRead, u
  <2>6. CASE Decode
    <3> DEFINE str == SubSeq(newstr, i, i + 7)
    <3>1. phase = "decode" /\ newstr' = newstr
      BY <2>6 DEF Decode
    <3>2. CASE i > Len(newstr)
      <4>1. phase' = "done" /\ i' = i /\ ret' = ret
        BY <2>6, <3>2 DEF Decode
      <4>2. \A c \in Nat : ReadTo(u, c) => ReadTo(u, c)'
        BY <2>3, <3>1, <4>1 DEF ReadTo, BytesOf
      <4>3. QED BY <2>1, <2>3, <3>1, <3>2, <4>1, <4>2 DEF DigitsRead, u
    <3>3. CASE ~(i > Len(newstr)) /\ ChunkThrows(str)
      <4>1. phase' = "thrown"
        BY <2>6, <3>3 DEF Decode
      <4>2. ASSUME Pad \notin ToSet(secret) PROVE Unreadable(u)
        <5>1. PICK c \in Nat : ReadTo(u, c)
          BY <3>1, <4>2 DEF DigitsRead, u
        <5>2. QED BY <2>4, <3>3, <4>2, <5>1, ChunkRefused
      <4>3. Unreadable(u)' = Unreadable(u)
        BY <2>3 DEF Unreadable
      <4>4. QED BY <2>1, <2>3, <4>1, <4>2, <4>3 DEF DigitsRead, u
    <3>4. CASE ~(i > Len(newstr)) /\ ~ChunkThrows(str)
      <4>1. phase' = "decode" /\ i' = i + 8 /\ ret' = ret \o b32ChunkToBytes(str)
        BY <2>6, <3>1, <3>4 DEF Decode
      <4>2. ASSUME Pad \notin ToSet(secret) PROVE \E c \in Nat : ReadTo(u, c)'
        <5>1. PICK c \in Nat : ReadTo(u, c)
          BY <3>1, <4>2 DEF DigitsRead, u
        <5> DEFINE all == ret \o b32ChunkToBytes(str)
        <5>a. all = ret \o b32ChunkToBytes(str)
          OBVIOUS
        <5> HIDE DEF all, str
        <5>b. str = SubSeq(newstr, i, i + 7)
          BY DEF str
        <5>2. BytesOf(u, c + 1, all)
          BY <2>4, <3>4, <4>2, <5>1, <5>a, <5>b, ChunkRead
        <5>3. newstr' = Padded(u) /\ i' = 8 * (c + 1) + 1 /\ ret' = all
          <6>1. newstr = Padded(u) /\ i = 8 * c + 1
            BY <5>1 DEF ReadTo, BytesOf
          <6>2. QED BY <3>1, <4>1, <5>a, <6>1
        <5>4. ReadTo(u, c + 1)'
          BY <2>3, <5>2, <5>3 DEF ReadTo, BytesOf
        <5>5. QED BY <5>4
      <4>3. QED BY <2>1, <2>3, <4>1, <4>2 DEF DigitsRead, u
    <3>5. QED BY <3>2, <3>3, <3>4
  <2>7. CASE Totp
    BY <2>1, <2>7 DEF Totp, DigitsRead
  <2>8. CASE ComputeTotp \/ UNCHANGED vars
    <3>1. UNCHANGED decoder
      BY <2>8 DEF ComputeTotp, vars
    <3>2. \A c \in Nat : ReadTo(u, c) => ReadTo(u, c)'
      BY <2>3, <3>1 DEF ReadTo, BytesOf, decoder
    <3>3. Unreadable(u)' = Unreadable(u)
      BY <2>3 DEF Unreadable
    <3>4. QED BY <2>3, <3>1, <3>2, <3>3 DEF decoder, DigitsRead, u
  <2>9. QED BY <2>5, <2>6, <2>7, <2>8 DEF Next, DecodeText
<1>3. QED BY <1>1, <1>2, PTL DEF Spec

\* A secret without padding, whatever its characters, is decoded if and only if
\* all of them are digits or separators and the digits end where a byte may; and
\* then every bit of every byte is the text's.
THEOREM DigitsDecoded == Spec => []DecodesDigits
<1>1. DigitsRead => DecodesDigits
  <2> DEFINE u == normalizedBase32String(secret)
  <2> SUFFICES ASSUME DigitsRead, Pad \notin ToSet(secret)
               PROVE  /\ phase = "thrown" => ToSet(u) \ Digits # {} \/ ~Fits(Len(u))
                      /\ phase = "done" =>
                           /\ ToSet(u) \subseteq Digits /\ Fits(Len(u))
                           /\ AllBits(ret, 8) = SubSeq(AllBits(u, 5), 1, 8 * ((5 * Len(u)) \div 8))
    BY DEF DecodesDigits
  <2>1. Len(u) \in Nat /\ DOMAIN u = 1..Len(u) /\ u \in Seq({u[k] : k \in DOMAIN u})
    BY NoPaddingRead DEF DigitsRead
  <2>2. ASSUME phase = "thrown"
        PROVE  ToSet(u) \ Digits # {} \/ ~Fits(Len(u))
    <3>1. Unreadable(u)
      BY <2>2 DEF DigitsRead
    <3> HIDE DEF u
    <3>2. QED BY <2>1, <3>1 DEF Unreadable, ToSet
  <2>3. ASSUME phase = "done"
        PROVE  /\ ToSet(u) \subseteq Digits /\ Fits(Len(u))
               /\ AllBits(ret, 8) = SubSeq(AllBits(u, 5), 1, 8 * ((5 * Len(u)) \div 8))
    <3>1. PICK c \in Nat : ReadTo(u, c)
      BY <2>3 DEF DigitsRead
    <3>2. i > Len(newstr)
      BY <2>3 DEF DigitsRead
    <3> HIDE DEF u
    <3> DEFINE L == Len(u)
    <3>3. newstr = Padded(u) /\ i = 8 * c + 1
      BY <3>1 DEF ReadTo, BytesOf
    <3>4. Len(newstr) = 8 * ((L + 7) \div 8)
      BY <2>1, <3>3, PaddedText
    <3>5. 8 * c >= L
      <4> HIDE DEF L
      <4>1. L \in Nat
        BY <2>1 DEF L
      <4>2. QED BY <3>2, <3>3, <3>4, <4>1
    <3>6. /\ \A k \in 1..L : k <= 8 * c => u[k] \in Digits
          /\ Fits(L) /\ Len(ret) = (5 * L) \div 8
          /\ \A x \in 1..(8 * Len(ret)) : BitOf(ret, 8, x) = BitOf(u, 5, x)
      BY <3>1, <3>5 DEF ReadTo, BytesOf
    <3>7. ToSet(u) \subseteq Digits
      <4>1. \A k \in 1..L : k <= 8 * c
        BY <2>1, <3>5
      <4>2. \A k \in 1..L : u[k] \in Digits
        BY <3>6, <4>1
      <4>3. QED BY <2>1, <4>2 DEF ToSet
    <3> DEFINE n == 8 * ((5 * L) \div 8)
    <3>8. n \in Nat /\ n <= 5 * L /\ 8 * Len(ret) = n
      BY <2>1, <3>6
    <3>9. \A x \in 1..n : BitOf(ret, 8, x) = BitOf(u, 5, x)
      BY <3>6, <3>8
    <3> HIDE DEF n, L
    <3>10. AllBits(ret, 8) = [x \in 1..n |-> BitOf(ret, 8, x)]
      BY <3>8 DEF AllBits
    <3>11. AllBits(u, 5) = [x \in 1..(5 * L) |-> BitOf(u, 5, x)]
      BY DEF AllBits, L
    <3>12. SubSeq(AllBits(u, 5), 1, n) = [x \in 1..n |-> BitOf(u, 5, x)]
      <4> DEFINE b == AllBits(u, 5)
      <4>1. \A x \in 1..n : b[x] = BitOf(u, 5, x)
        <5>1. \A x \in 1..n : x \in 1..(5 * L)
          BY <2>1, <3>8 DEF L
        <5>2. QED BY <3>11, <5>1
      <4> HIDE DEF b
      <4>2. SubSeq(b, 1, n) = [x \in 1..(n - 1 + 1) |-> b[1 + x - 1]]
        BY <3>8
      <4>3. n - 1 + 1 = n /\ \A x \in 1..n : 1 + x - 1 = x
        BY <3>8
      <4>4. SubSeq(b, 1, n) = [x \in 1..n |-> b[x]]
        BY <4>2, <4>3
      <4>5. QED BY <4>1, <4>4 DEF b
    <3>13. AllBits(ret, 8) = SubSeq(AllBits(u, 5), 1, n)
      BY <3>9, <3>10, <3>12
    <3>14. QED BY <3>6, <3>7, <3>13 DEF n, L
  <2>4. QED BY <2>2, <2>3
<1>2. QED BY <1>1, DigitsReadHolds, PTL

-----------------------------------------------------------------------------
(***************************************************************************)
(* Bits                                                                    *)
(***************************************************************************)

Places == {1, 2, 4, 8, 16, 32, 64, 128}
Word   == [1..4 -> Octet]

\* The value of a byte's bit at its place.
Part(x, p) == IF Set(x, p) THEN p ELSE 0

\* A byte is the sum of its bits,
LEMMA SumOfParts ==
  ASSUME NEW x \in Octet
  PROVE  x = Part(x, 1) + Part(x, 2) + Part(x, 4) + Part(x, 8)
               + Part(x, 16) + Part(x, 32) + Part(x, 64) + Part(x, 128)
<1> DEFINE a == (x \div 1) % 2
           b == (x \div 2) % 2
           c == (x \div 4) % 2
           d == (x \div 8) % 2
           e == (x \div 16) % 2
           f == (x \div 32) % 2
           g == (x \div 64) % 2
           m == (x \div 128) % 2
<1>1. x = a + 2 * b + 4 * c + 8 * d + 16 * e + 32 * f + 64 * g + 128 * m
  BY DEF Octet
<1>2. /\ a \in {0, 1} /\ b \in {0, 1} /\ c \in {0, 1} /\ d \in {0, 1}
      /\ e \in {0, 1} /\ f \in {0, 1} /\ g \in {0, 1} /\ m \in {0, 1}
  BY DEF Octet
<1>3. /\ Part(x, 1) = IF a = 1 THEN 1 ELSE 0
      /\ Part(x, 2) = IF b = 1 THEN 2 ELSE 0
      /\ Part(x, 4) = IF c = 1 THEN 4 ELSE 0
      /\ Part(x, 8) = IF d = 1 THEN 8 ELSE 0
      /\ Part(x, 16) = IF e = 1 THEN 16 ELSE 0
      /\ Part(x, 32) = IF f = 1 THEN 32 ELSE 0
      /\ Part(x, 64) = IF g = 1 THEN 64 ELSE 0
      /\ Part(x, 128) = IF m = 1 THEN 128 ELSE 0
  BY DEF Part, Set
<1> HIDE DEF a, b, c, d, e, f, g, m
<1>4. /\ Part(x, 1) = a /\ Part(x, 2) = 2 * b /\ Part(x, 4) = 4 * c /\ Part(x, 8) = 8 * d
      /\ Part(x, 16) = 16 * e /\ Part(x, 32) = 32 * f /\ Part(x, 64) = 64 * g
      /\ Part(x, 128) = 128 * m
  BY <1>2, <1>3
<1>5. QED BY <1>1, <1>4

\* and a sum of bits has those.
LEMMA PartsOfSum ==
  ASSUME NEW a \in {0, 1}, NEW b \in {0, 2}, NEW c \in {0, 4}, NEW d \in {0, 8},
         NEW e \in {0, 16}, NEW f \in {0, 32}, NEW g \in {0, 64}, NEW m \in {0, 128},
         NEW x, x = a + b + c + d + e + f + g + m
  PROVE  /\ x \in Octet
         /\ (Set(x, 1) <=> a # 0) /\ (Set(x, 2) <=> b # 0)
         /\ (Set(x, 4) <=> c # 0) /\ (Set(x, 8) <=> d # 0)
         /\ (Set(x, 16) <=> e # 0) /\ (Set(x, 32) <=> f # 0)
         /\ (Set(x, 64) <=> g # 0) /\ (Set(x, 128) <=> m # 0)
<1>1. x \in Octet
  BY DEF Octet
<1>2. (x \div 128) % 2 = IF m = 0 THEN 0 ELSE 1
  OBVIOUS
<1>3. (x \div 64) % 2 = IF g = 0 THEN 0 ELSE 1
  OBVIOUS
<1>4. (x \div 32) % 2 = IF f = 0 THEN 0 ELSE 1
  OBVIOUS
<1>5. (x \div 16) % 2 = IF e = 0 THEN 0 ELSE 1
  OBVIOUS
<1>6. (x \div 8) % 2 = IF d = 0 THEN 0 ELSE 1
  OBVIOUS
<1>7. (x \div 4) % 2 = IF c = 0 THEN 0 ELSE 1
  OBVIOUS
<1>8. (x \div 2) % 2 = IF b = 0 THEN 0 ELSE 1
  OBVIOUS
<1>9. (x \div 1) % 2 = IF a = 0 THEN 0 ELSE 1
  OBVIOUS
<1>10. QED BY <1>1, <1>2, <1>3, <1>4, <1>5, <1>6, <1>7, <1>8, <1>9 DEF Set

\* Bytes with the same bits are the same.
LEMMA SameByte ==
  ASSUME NEW x \in Octet, NEW y \in Octet, \A p \in Places : Set(x, p) <=> Set(y, p)
  PROVE  x = y
<1>1. \A p \in Places : Part(x, p) = Part(y, p)
  BY DEF Part
<1>2. /\ Part(x, 1) = Part(y, 1) /\ Part(x, 2) = Part(y, 2) /\ Part(x, 4) = Part(y, 4)
      /\ Part(x, 8) = Part(y, 8) /\ Part(x, 16) = Part(y, 16) /\ Part(x, 32) = Part(y, 32)
      /\ Part(x, 64) = Part(y, 64) /\ Part(x, 128) = Part(y, 128)
  BY <1>1 DEF Places
<1>3. QED BY <1>2, SumOfParts

\* The conjunction and the exclusive disjunction of bytes.
XorOf(x, y) == x + y - 2 * AndByte[x][y]

LEMMA AndOfBytes ==
  ASSUME NEW x \in Octet, NEW y \in Octet
  PROVE  /\ AndByte[x][y] \in Octet
         /\ AndByte[x][y] = Both(x, y, 1) + Both(x, y, 2) + Both(x, y, 4) + Both(x, y, 8)
                             + Both(x, y, 16) + Both(x, y, 32) + Both(x, y, 64) + Both(x, y, 128)
<1>1. AndByte[x][y] = Both(x, y, 1) + Both(x, y, 2) + Both(x, y, 4) + Both(x, y, 8)
                        + Both(x, y, 16) + Both(x, y, 32) + Both(x, y, 64) + Both(x, y, 128)
  BY DEF AndByte
<1>2. /\ Both(x, y, 1) \in {0, 1} /\ Both(x, y, 2) \in {0, 2} /\ Both(x, y, 4) \in {0, 4}
      /\ Both(x, y, 8) \in {0, 8} /\ Both(x, y, 16) \in {0, 16} /\ Both(x, y, 32) \in {0, 32}
      /\ Both(x, y, 64) \in {0, 64} /\ Both(x, y, 128) \in {0, 128}
  BY DEF Both
<1>3. QED BY <1>1, <1>2, PartsOfSum

LEMMA XorOfBytes ==
  ASSUME NEW x \in Octet, NEW y \in Octet
  PROVE  /\ XorOf(x, y) \in Octet
         /\ \A p \in Places : Set(XorOf(x, y), p) <=> ~(Set(x, p) <=> Set(y, p))
<1> DEFINE One(p) == IF Set(x, p) <=> Set(y, p) THEN 0 ELSE p
<1>1. ASSUME NEW p \in Places
      PROVE  /\ Part(x, p) + Part(y, p) - 2 * Both(x, y, p) = One(p)
             /\ One(p) \in {0, p} /\ (One(p) # 0 <=> ~(Set(x, p) <=> Set(y, p)))
             /\ Part(x, p) \in Int /\ Part(y, p) \in Int /\ Both(x, y, p) \in Int
  <2>1. p \in Nat /\ p # 0
    BY DEF Places
  <2>2. CASE Set(x, p) /\ Set(y, p)
    BY <2>1, <2>2 DEF Part, Both
  <2>3. CASE Set(x, p) /\ ~Set(y, p)
    BY <2>1, <2>3 DEF Part, Both
  <2>4. CASE ~Set(x, p) /\ Set(y, p)
    BY <2>1, <2>4 DEF Part, Both
  <2>5. CASE ~Set(x, p) /\ ~Set(y, p)
    BY <2>1, <2>5 DEF Part, Both
  <2>6. QED BY <2>2, <2>3, <2>4, <2>5
<1>2. AndByte[x][y] = Both(x, y, 1) + Both(x, y, 2) + Both(x, y, 4) + Both(x, y, 8)
                        + Both(x, y, 16) + Both(x, y, 32) + Both(x, y, 64) + Both(x, y, 128)
  BY AndOfBytes
<1> HIDE DEF One
<1>3. XorOf(x, y) = One(1) + One(2) + One(4) + One(8) + One(16) + One(32) + One(64) + One(128)
  <2>1. 1 \in Places /\ 2 \in Places /\ 4 \in Places /\ 8 \in Places
        /\ 16 \in Places /\ 32 \in Places /\ 64 \in Places /\ 128 \in Places
    BY DEF Places
  <2>2. x = Part(x, 1) + Part(x, 2) + Part(x, 4) + Part(x, 8)
              + Part(x, 16) + Part(x, 32) + Part(x, 64) + Part(x, 128)
    BY SumOfParts
  <2>3. y = Part(y, 1) + Part(y, 2) + Part(y, 4) + Part(y, 8)
              + Part(y, 16) + Part(y, 32) + Part(y, 64) + Part(y, 128)
    BY SumOfParts
  <2> DEFINE A == AndByte[x][y]
  <2>4. XorOf(x, y) = x + y - 2 * A
    BY DEF XorOf
  <2>5. x \in Int /\ y \in Int /\ A \in Int
    <3>1. A \in Octet
      BY AndOfBytes
    <3>2. QED BY <3>1 DEF Octet
  <2> HIDE DEF A
  <2>6. A = Both(x, y, 1) + Both(x, y, 2) + Both(x, y, 4) + Both(x, y, 8)
              + Both(x, y, 16) + Both(x, y, 32) + Both(x, y, 64) + Both(x, y, 128)
    BY <1>2 DEF A
  <2>7. x + y - 2 * A = One(1) + One(2) + One(4) + One(8) + One(16) + One(32) + One(64) + One(128)
    <3>1. /\ Part(x, 1) \in Int /\ Part(y, 1) \in Int /\ Both(x, y, 1) \in Int
          /\ Part(x, 2) \in Int /\ Part(y, 2) \in Int /\ Both(x, y, 2) \in Int
          /\ Part(x, 4) \in Int /\ Part(y, 4) \in Int /\ Both(x, y, 4) \in Int
          /\ Part(x, 8) \in Int /\ Part(y, 8) \in Int /\ Both(x, y, 8) \in Int
          /\ Part(x, 16) \in Int /\ Part(y, 16) \in Int /\ Both(x, y, 16) \in Int
          /\ Part(x, 32) \in Int /\ Part(y, 32) \in Int /\ Both(x, y, 32) \in Int
          /\ Part(x, 64) \in Int /\ Part(y, 64) \in Int /\ Both(x, y, 64) \in Int
          /\ Part(x, 128) \in Int /\ Part(y, 128) \in Int /\ Both(x, y, 128) \in Int
      BY <1>1, <2>1
    <3>2. /\ Part(x, 1) + Part(y, 1) - 2 * Both(x, y, 1) = One(1)
          /\ Part(x, 2) + Part(y, 2) - 2 * Both(x, y, 2) = One(2)
          /\ Part(x, 4) + Part(y, 4) - 2 * Both(x, y, 4) = One(4)
          /\ Part(x, 8) + Part(y, 8) - 2 * Both(x, y, 8) = One(8)
          /\ Part(x, 16) + Part(y, 16) - 2 * Both(x, y, 16) = One(16)
          /\ Part(x, 32) + Part(y, 32) - 2 * Both(x, y, 32) = One(32)
          /\ Part(x, 64) + Part(y, 64) - 2 * Both(x, y, 64) = One(64)
          /\ Part(x, 128) + Part(y, 128) - 2 * Both(x, y, 128) = One(128)
      BY <1>1, <2>1
    <3>3. QED BY <2>2, <2>3, <2>5, <2>6, <3>1, <3>2
  <2>8. QED BY <2>4, <2>7
<1>4. /\ One(1) \in {0, 1} /\ One(2) \in {0, 2} /\ One(4) \in {0, 4} /\ One(8) \in {0, 8}
      /\ One(16) \in {0, 16} /\ One(32) \in {0, 32} /\ One(64) \in {0, 64} /\ One(128) \in {0, 128}
  BY <1>1 DEF Places
<1>5. /\ XorOf(x, y) \in Octet
      /\ (Set(XorOf(x, y), 1) <=> One(1) # 0) /\ (Set(XorOf(x, y), 2) <=> One(2) # 0)
      /\ (Set(XorOf(x, y), 4) <=> One(4) # 0) /\ (Set(XorOf(x, y), 8) <=> One(8) # 0)
      /\ (Set(XorOf(x, y), 16) <=> One(16) # 0) /\ (Set(XorOf(x, y), 32) <=> One(32) # 0)
      /\ (Set(XorOf(x, y), 64) <=> One(64) # 0) /\ (Set(XorOf(x, y), 128) <=> One(128) # 0)
  BY <1>3, <1>4, PartsOfSum
<1>6. ASSUME NEW p \in Places
      PROVE  Set(XorOf(x, y), p) <=> One(p) # 0
  BY <1>5 DEF Places
<1>7. QED BY <1>1, <1>5, <1>6

\* A word's bit: byte k, place p.
On(u, k, p) == Set(u[k], p)

LEMMA SameWord ==
  ASSUME NEW u \in Word, NEW v \in Word,
         \A k \in 1..4, p \in Places : On(u, k, p) <=> On(v, k, p)
  PROVE  u = v
<1>1. ASSUME NEW k \in 1..4 PROVE u[k] = v[k]
  <2>1. u[k] \in Octet /\ v[k] \in Octet
    BY DEF Word
  <2>2. \A p \in Places : Set(u[k], p) <=> Set(v[k], p)
    BY DEF On
  <2>3. QED BY <2>1, <2>2, SameByte
<1>2. QED BY <1>1 DEF Word

LEMMA XorOfWords ==
  ASSUME NEW u \in Word, NEW v \in Word
  PROVE  /\ Xor(u, v) \in Word
         /\ \A k \in 1..4, p \in Places : On(Xor(u, v), k, p) <=> ~(On(u, k, p) <=> On(v, k, p))
<1>1. ASSUME NEW k \in 1..4
      PROVE  /\ Xor(u, v)[k] \in Octet
             /\ \A p \in Places : On(Xor(u, v), k, p) <=> ~(On(u, k, p) <=> On(v, k, p))
  <2>1. u[k] \in Octet /\ v[k] \in Octet
    BY DEF Word
  <2>2. Xor(u, v)[k] = XorOf(u[k], v[k])
    BY DEF Xor, XorOf
  <2>3. QED BY <2>1, <2>2, XorOfBytes DEF On
<1>2. Xor(u, v) \in Word
  <2>1. \A k \in 1..4 : Xor(u, v)[k] \in Octet
    BY <1>1
  <2>2. QED BY <2>1 DEF Xor, Word
<1>3. QED BY <1>1, <1>2

\* The bit that a rotation by one brings to a place.
PrevByte(k, p) == IF p = 1 THEN (k % 4) + 1 ELSE k
PrevPlace(p)   == IF p = 1 THEN 128 ELSE p \div 2

LEMMA PrevInRange ==
  ASSUME NEW k \in 1..4, NEW p \in Places
  PROVE  PrevByte(k, p) \in 1..4 /\ PrevPlace(p) \in Places
<1>1. PrevByte(k, p) \in 1..4
  BY DEF PrevByte
<1>2. 2 \div 2 = 1 /\ 4 \div 2 = 2 /\ 8 \div 2 = 4 /\ 16 \div 2 = 8 /\ 32 \div 2 = 16
      /\ 64 \div 2 = 32 /\ 128 \div 2 = 64
  OBVIOUS
<1>3. PrevPlace(p) \in Places
  BY <1>2 DEF PrevPlace, Places
<1>4. QED BY <1>1, <1>3

\* A byte that is rotated by one, and the byte after it.
Rotated(x, y) == ((x * 2) % 256) + ((y * 2) \div 256)

LEMMA RotatedBytes ==
  ASSUME NEW x \in Octet, NEW y \in Octet
  PROVE  /\ Rotated(x, y) \in Octet
         /\ Set(Rotated(x, y), 1) <=> Set(y, 128)
         /\ \A p \in Places \ {1} : Set(Rotated(x, y), p) <=> Set(x, p \div 2)
<1> DEFINE z == Rotated(x, y)
<1>0. z = ((x * 2) % 256) + ((y * 2) \div 256)
  BY DEF Rotated
<1> HIDE DEF z
<1>1. z \in Octet
  BY <1>0 DEF Octet
<1>a. (z \div 1) % 2 = (y \div 128) % 2
  BY <1>0, SMTT(20) DEF Octet
<1>b. (z \div 2) % 2 = (x \div 1) % 2
  BY <1>0, SMTT(20) DEF Octet
<1>c. (z \div 4) % 2 = (x \div 2) % 2
  BY <1>0, SMTT(20) DEF Octet
<1>d. (z \div 8) % 2 = (x \div 4) % 2
  BY <1>0, SMTT(20) DEF Octet
<1>e. (z \div 16) % 2 = (x \div 8) % 2
  BY <1>0, SMTT(20) DEF Octet
<1>f. (z \div 32) % 2 = (x \div 16) % 2
  BY <1>0, SMTT(20) DEF Octet
<1>g. (z \div 64) % 2 = (x \div 32) % 2
  BY <1>0, SMTT(20) DEF Octet
<1>h. (z \div 128) % 2 = (x \div 64) % 2
  BY <1>0, SMTT(20) DEF Octet
<1>6. Set(z, 1) <=> Set(y, 128)
  BY <1>a DEF Set
<1>7. ASSUME NEW p \in Places \ {1}
      PROVE  (z \div p) % 2 = (x \div (p \div 2)) % 2
  <2>1. p \in {2, 4, 8, 16, 32, 64, 128}
    BY DEF Places
  <2>2. 2 \div 2 = 1 /\ 4 \div 2 = 2 /\ 8 \div 2 = 4 /\ 16 \div 2 = 8 /\ 32 \div 2 = 16
        /\ 64 \div 2 = 32 /\ 128 \div 2 = 64
    OBVIOUS
  <2>3. QED BY <1>b, <1>c, <1>d, <1>e, <1>f, <1>g, <1>h, <2>1, <2>2
<1>8. QED BY <1>1, <1>6, <1>7 DEF Set, z

LEMMA TwiceRotated ==
  ASSUME NEW x \in Octet, NEW y \in Octet, NEW z \in Octet
  PROVE  Rotated(Rotated(x, y), Rotated(y, z)) = ((x * 4) % 256) + ((y * 4) \div 256)
<1> DEFINE b == (y * 2) \div 256
           c == (z * 2) \div 256
           d == (x * 2) % 256
           e == (y * 2) % 256
<1>1. b \in {0, 1} /\ c \in {0, 1} /\ y * 2 = 256 * b + e /\ e \in 0..254 /\ e % 2 = 0
  BY DEF Octet
<1>2. d \in 0..254 /\ d % 2 = 0 /\ (d * 2) % 256 = (x * 4) % 256 /\ (d * 2) % 4 = 0
  BY DEF Octet
<1>3. Rotated(x, y) = d + b /\ Rotated(y, z) = e + c
  BY DEF Rotated
<1> HIDE DEF b, c, d, e
<1>4. ((d + b) * 2) % 256 = ((d * 2) % 256) + 2 * b
  <2>1. PICK q \in 0..127 : d = 2 * q
    BY <1>2
  <2>2. CASE b = 0
    BY <1>2, <2>2
  <2>3. CASE b = 1
    <3>1. (4 * q + 2) % 256 = ((4 * q) % 256) + 2
      BY <2>1
    <3>2. QED BY <2>1, <2>3, <3>1
  <2>4. QED BY <1>1, <2>2, <2>3
<1>5. ((e + c) * 2) \div 256 = (e * 2) \div 256
  BY <1>1
<1>6. (y * 4) \div 256 = 2 * b + ((e * 2) \div 256)
  BY <1>1 DEF Octet
<1>7. Rotated(Rotated(x, y), Rotated(y, z)) = (((d + b) * 2) % 256) + (((e + c) * 2) \div 256)
  BY <1>3 DEF Rotated
<1>8. (((d * 2) % 256) + 2 * b) + ((e * 2) \div 256) = ((d * 2) % 256) + (2 * b + ((e * 2) \div 256))
  BY <1>1, <1>2
<1>9. QED BY <1>2, <1>4, <1>5, <1>6, <1>7, <1>8

LEMMA RotatedOnce ==
  ASSUME NEW u \in Word
  PROVE  /\ lrot32(u, 1) \in Word
         /\ \A k \in 1..4, p \in Places :
              On(lrot32(u, 1), k, p) <=> On(u, PrevByte(k, p), PrevPlace(p))
<1>1. ASSUME NEW k \in 1..4
      PROVE  /\ u[k] \in Octet /\ u[(k % 4) + 1] \in Octet
             /\ lrot32(u, 1)[k] = Rotated(u[k], u[(k % 4) + 1])
  <2>1. (k % 4) + 1 \in 1..4
    OBVIOUS
  <2>2. /\ ((k - 1 + 1 \div 8) % 4) + 1 = k /\ (((k + 1) - 1 + 1 \div 8) % 4) + 1 = (k % 4) + 1
        /\ Power[(1 % 8) + 1] = 2
    BY DEF Power
  <2>3. QED BY <2>1, <2>2 DEF lrot32, Word, Rotated
<1>2. ASSUME NEW k \in 1..4
      PROVE  /\ lrot32(u, 1)[k] \in Octet
             /\ \A p \in Places : On(lrot32(u, 1), k, p) <=> On(u, PrevByte(k, p), PrevPlace(p))
  <2>1. /\ lrot32(u, 1)[k] \in Octet
        /\ Set(lrot32(u, 1)[k], 1) <=> Set(u[(k % 4) + 1], 128)
        /\ \A p \in Places \ {1} : Set(lrot32(u, 1)[k], p) <=> Set(u[k], p \div 2)
    <3> DEFINE x == u[k]
               y == u[(k % 4) + 1]
               z == lrot32(u, 1)[k]
    <3>1. x \in Octet /\ y \in Octet /\ z = Rotated(x, y)
      BY <1>1
    <3> HIDE DEF x, y, z
    <3>2. /\ z \in Octet
          /\ Set(z, 1) <=> Set(y, 128)
          /\ \A p \in Places \ {1} : Set(z, p) <=> Set(x, p \div 2)
      BY <3>1, RotatedBytes
    <3>3. QED BY <3>2 DEF x, y, z
  <2>2. ASSUME NEW p \in Places
        PROVE  On(lrot32(u, 1), k, p) <=> On(u, PrevByte(k, p), PrevPlace(p))
    <3>1. CASE p = 1
      <4>1. PrevByte(k, p) = (k % 4) + 1 /\ PrevPlace(p) = 128
        BY <3>1 DEF PrevByte, PrevPlace
      <4>2. QED BY <2>1, <3>1, <4>1 DEF On
    <3>2. CASE p # 1
      <4>1. PrevByte(k, p) = k /\ PrevPlace(p) = p \div 2
        BY <3>2 DEF PrevByte, PrevPlace
      <4>2. QED BY <2>1, <3>2, <4>1 DEF On
    <3>3. QED BY <3>1, <3>2
  <2>3. QED BY <2>1, <2>2
<1>3. lrot32(u, 1) \in Word
  <2>1. \A k \in 1..4 : lrot32(u, 1)[k] \in Octet
    BY <1>2
  <2>2. QED BY <2>1 DEF lrot32, Word
<1>4. QED BY <1>2, <1>3

\* A rotation by two is two rotations by one.
LEMMA RotatedTwice ==
  ASSUME NEW u \in Word
  PROVE  lrot32(u, 2) = lrot32(lrot32(u, 1), 1)
<1>1. ASSUME NEW k \in 1..4
      PROVE  lrot32(u, 2)[k] = lrot32(lrot32(u, 1), 1)[k]
  <2> DEFINE l == (k % 4) + 1
             m == (l % 4) + 1
             x == u[k]
             y == u[l]
             z == u[m]
  <2>1. l \in 1..4 /\ m \in 1..4
    OBVIOUS
  <2>2. /\ ((k - 1 + 1 \div 8) % 4) + 1 = k /\ (((k + 1) - 1 + 1 \div 8) % 4) + 1 = l
        /\ ((l - 1 + 1 \div 8) % 4) + 1 = l /\ (((l + 1) - 1 + 1 \div 8) % 4) + 1 = m
        /\ ((k - 1 + 2 \div 8) % 4) + 1 = k /\ (((k + 1) - 1 + 2 \div 8) % 4) + 1 = l
        /\ Power[(1 % 8) + 1] = 2 /\ Power[(2 % 8) + 1] = 4
    BY DEF Power
  <2>3. x \in Octet /\ y \in Octet /\ z \in Octet
    BY <2>1 DEF Word
  <2> HIDE DEF l, m
  <2>4. lrot32(u, 2)[k] = ((x * 4) % 256) + ((y * 4) \div 256)
    BY <2>1, <2>2 DEF lrot32
  <2> DEFINE r == lrot32(u, 1)
  <2>5. r[k] = Rotated(x, y) /\ r[l] = Rotated(y, z)
    BY <2>1, <2>2 DEF lrot32, Rotated
  <2> HIDE DEF r
  <2>6. lrot32(r, 1)[k] = Rotated(r[k], r[l])
    BY <2>1, <2>2 DEF lrot32, Rotated
  <2> HIDE DEF x, y, z
  <2>7. QED BY <2>3, <2>4, <2>5, <2>6, TwiceRotated DEF r
<1>2. QED BY <1>1 DEF lrot32

-----------------------------------------------------------------------------
(***************************************************************************)
(* The schedule                                                            *)
(***************************************************************************)

Mix(w, n, a, b, c, d) == Xor(Xor(w[n - a], w[n - b]), Xor(w[n - c], w[n - d]))

\* The standard's recurrence.
AsExpected(w, n) == w[n] = lrot32(Mix(w, n, 3, 8, 14, 16), 1)

\* Of four words' bits at a place, an odd number is set.
Uneven(s, t, u, v, k, p) ==
  ~((On(s, k, p) <=> On(t, k, p)) <=> (On(u, k, p) <=> On(v, k, p)))

LEMMA BitsOfFour ==
  ASSUME NEW s \in Word, NEW t \in Word, NEW u \in Word, NEW v \in Word
  PROVE  /\ Xor(Xor(s, t), Xor(u, v)) \in Word
         /\ \A k \in 1..4, p \in Places :
              On(Xor(Xor(s, t), Xor(u, v)), k, p) <=> Uneven(s, t, u, v, k, p)
<1>1. Xor(s, t) \in Word /\ Xor(u, v) \in Word
  BY XorOfWords
<1>2. QED BY <1>1, XorOfWords DEF Uneven

LEMMA BitsOfMix ==
  ASSUME NEW w, NEW n, NEW a, NEW b, NEW c, NEW d, w[n - a] \in Word, w[n - b] \in Word,
         w[n - c] \in Word, w[n - d] \in Word
  PROVE  /\ Mix(w, n, a, b, c, d) \in Word
         /\ \A k \in 1..4, p \in Places :
              On(Mix(w, n, a, b, c, d), k, p)
                <=> Uneven(w[n - a], w[n - b], w[n - c], w[n - d], k, p)
<1> DEFINE s == w[n - a]
           t == w[n - b]
           u == w[n - c]
           v == w[n - d]
<1>1. s \in Word /\ t \in Word /\ u \in Word /\ v \in Word
  OBVIOUS
<1>2. Mix(w, n, a, b, c, d) = Xor(Xor(s, t), Xor(u, v))
  BY DEF Mix
<1> HIDE DEF s, t, u, v
<1>3. /\ Mix(w, n, a, b, c, d) \in Word
      /\ \A k \in 1..4, p \in Places :
           On(Mix(w, n, a, b, c, d), k, p) <=> Uneven(s, t, u, v, k, p)
  <2> DEFINE x == Xor(Xor(s, t), Xor(u, v))
  <2>1. x \in Word
    BY <1>1, BitsOfFour
  <2>2. \A k \in 1..4, p \in Places : On(x, k, p) <=> Uneven(s, t, u, v, k, p)
    BY <1>1, BitsOfFour
  <2> HIDE DEF x
  <2>3. Mix(w, n, a, b, c, d) = x
    BY <1>2 DEF x
  <2>4. QED BY <2>1, <2>2, <2>3
<1>4. QED BY <1>3 DEF s, t, u, v

\* The bit of a word of the schedule, by those of the words it is made of.
LEMMA RecurredBit ==
  ASSUME NEW w \in Seq(Word), NEW n \in 17..Len(w), AsExpected(w, n),
         NEW k \in 1..4, NEW p \in Places
  PROVE  On(w[n], k, p)
           <=> Uneven(w[n - 3], w[n - 8], w[n - 14], w[n - 16], PrevByte(k, p), PrevPlace(p))
<1>1. /\ n - 3 \in 1..Len(w) /\ n - 8 \in 1..Len(w)
      /\ n - 14 \in 1..Len(w) /\ n - 16 \in 1..Len(w)
  OBVIOUS
<1>2. w[n - 3] \in Word /\ w[n - 8] \in Word /\ w[n - 14] \in Word /\ w[n - 16] \in Word
  BY <1>1
<1>3. PrevByte(k, p) \in 1..4 /\ PrevPlace(p) \in Places
  BY PrevInRange
<1> DEFINE m == Mix(w, n, 3, 8, 14, 16)
<1>4. m \in Word /\ w[n] = lrot32(m, 1)
  BY <1>2, BitsOfMix DEF AsExpected
<1>5. On(w[n], k, p) <=> On(m, PrevByte(k, p), PrevPlace(p))
  BY <1>4, RotatedOnce
<1>6. QED BY <1>2, <1>3, <1>5, BitsOfMix

\* Of the sixteen bits two steps back, the six pairs off the diagonal cancel.
LEMMA PairsCancel ==
  ASSUME NEW a \in BOOLEAN, NEW b \in BOOLEAN, NEW c \in BOOLEAN, NEW d \in BOOLEAN,
         NEW ab \in BOOLEAN, NEW ac \in BOOLEAN, NEW ad \in BOOLEAN,
         NEW bc \in BOOLEAN, NEW bd \in BOOLEAN, NEW cd \in BOOLEAN
  PROVE  ~((~((a <=> ab) <=> (ac <=> ad)) <=> ~((ab <=> b) <=> (bc <=> bd)))
             <=> (~((ac <=> bc) <=> (c <=> cd)) <=> ~((ad <=> bd) <=> (cd <=> d))))
         <=> ~((a <=> b) <=> (c <=> d))
OBVIOUS

\* Looking twice as far back and rotating twice gives the same word.
LEMMA LookedBack ==
  ASSUME NEW w \in Seq(Word), Len(w) >= 32, \A m \in 17..Len(w) : AsExpected(w, m)
  PROVE  Mix(w, Len(w) + 1, 3, 8, 14, 16) = lrot32(Mix(w, Len(w) + 1, 6, 16, 28, 32), 1)
<1> DEFINE N == Len(w) + 1
<1>1. /\ N - 3 \in 17..Len(w) /\ N - 8 \in 17..Len(w)
      /\ N - 14 \in 17..Len(w) /\ N - 16 \in 17..Len(w)
  OBVIOUS
<1>2. /\ w[N - 3] \in Word /\ w[N - 8] \in Word /\ w[N - 14] \in Word /\ w[N - 16] \in Word
      /\ w[N - 6] \in Word /\ w[N - 28] \in Word /\ w[N - 32] \in Word
  <2>1. /\ N - 3 \in 1..Len(w) /\ N - 8 \in 1..Len(w) /\ N - 14 \in 1..Len(w)
        /\ N - 16 \in 1..Len(w)
    OBVIOUS
  <2>2. N - 6 \in 1..Len(w) /\ N - 28 \in 1..Len(w) /\ N - 32 \in 1..Len(w)
    OBVIOUS
  <2>3. w[N - 3] \in Word /\ w[N - 8] \in Word /\ w[N - 14] \in Word /\ w[N - 16] \in Word
    BY <2>1
  <2>4. w[N - 6] \in Word /\ w[N - 28] \in Word /\ w[N - 32] \in Word
    BY <2>2
  <2>5. QED BY <2>3, <2>4
<1>3. Mix(w, N, 3, 8, 14, 16) \in Word /\ Mix(w, N, 6, 16, 28, 32) \in Word
  <2>1. w[N - 3] \in Word /\ w[N - 8] \in Word /\ w[N - 14] \in Word /\ w[N - 16] \in Word
    BY <1>2
  <2>2. w[N - 6] \in Word /\ w[N - 16] \in Word /\ w[N - 28] \in Word /\ w[N - 32] \in Word
    BY <1>2
  <2>3. Mix(w, N, 3, 8, 14, 16) \in Word
    BY <2>1, BitsOfMix
  <2>4. Mix(w, N, 6, 16, 28, 32) \in Word
    BY <2>2, BitsOfMix
  <2>5. QED BY <2>3, <2>4
<1>4. lrot32(Mix(w, N, 6, 16, 28, 32), 1) \in Word
  BY <1>3, RotatedOnce
<1>5. ASSUME NEW k \in 1..4, NEW p \in Places
      PROVE  On(Mix(w, N, 3, 8, 14, 16), k, p) <=> On(lrot32(Mix(w, N, 6, 16, 28, 32), 1), k, p)
  <2> DEFINE B(m) == On(w[m], PrevByte(k, p), PrevPlace(p))
  <2>1. /\ N - 3 - 3 = N - 6 /\ N - 3 - 8 = N - 11 /\ N - 3 - 14 = N - 17 /\ N - 3 - 16 = N - 19
        /\ N - 8 - 3 = N - 11 /\ N - 8 - 8 = N - 16 /\ N - 8 - 14 = N - 22 /\ N - 8 - 16 = N - 24
        /\ N - 14 - 3 = N - 17 /\ N - 14 - 8 = N - 22 /\ N - 14 - 14 = N - 28
        /\ N - 14 - 16 = N - 30
        /\ N - 16 - 3 = N - 19 /\ N - 16 - 8 = N - 24 /\ N - 16 - 14 = N - 30
        /\ N - 16 - 16 = N - 32
    BY <1>1
  <2>2. /\ B(N - 6) \in BOOLEAN /\ B(N - 16) \in BOOLEAN /\ B(N - 28) \in BOOLEAN
        /\ B(N - 32) \in BOOLEAN /\ B(N - 11) \in BOOLEAN /\ B(N - 17) \in BOOLEAN
        /\ B(N - 19) \in BOOLEAN /\ B(N - 22) \in BOOLEAN /\ B(N - 24) \in BOOLEAN
        /\ B(N - 30) \in BOOLEAN
    BY DEF On, Set
  <2>3. ASSUME NEW m \in 17..Len(w)
        PROVE  On(w[m], k, p) <=> ~((B(m - 3) <=> B(m - 8)) <=> (B(m - 14) <=> B(m - 16)))
    BY RecurredBit DEF Uneven
  <2>4. On(w[N - 3], k, p) <=>
          ~((B(N - 6) <=> B(N - 11)) <=> (B(N - 17) <=> B(N - 19)))
    <3>1. N - 3 - 3 = N - 6 /\ N - 3 - 8 = N - 11 /\ N - 3 - 14 = N - 17 /\ N - 3 - 16 = N - 19
      BY <2>1
    <3>2. On(w[N - 3], k, p) <=>
            ~((B(N - 3 - 3) <=> B(N - 3 - 8)) <=> (B(N - 3 - 14) <=> B(N - 3 - 16)))
      BY <1>1, <2>3
    <3> HIDE DEF B
    <3>3. QED BY <3>1, <3>2
  <2>5. On(w[N - 8], k, p) <=>
          ~((B(N - 11) <=> B(N - 16)) <=> (B(N - 22) <=> B(N - 24)))
    <3>1. N - 8 - 3 = N - 11 /\ N - 8 - 8 = N - 16 /\ N - 8 - 14 = N - 22 /\ N - 8 - 16 = N - 24
      BY <2>1
    <3>2. On(w[N - 8], k, p) <=>
            ~((B(N - 8 - 3) <=> B(N - 8 - 8)) <=> (B(N - 8 - 14) <=> B(N - 8 - 16)))
      BY <1>1, <2>3
    <3> HIDE DEF B
    <3>3. QED BY <3>1, <3>2
  <2>6. On(w[N - 14], k, p) <=>
          ~((B(N - 17) <=> B(N - 22)) <=> (B(N - 28) <=> B(N - 30)))
    <3>1. N - 14 - 3 = N - 17 /\ N - 14 - 8 = N - 22 /\ N - 14 - 14 = N - 28 /\ N - 14 - 16 = N - 30
      BY <2>1
    <3>2. On(w[N - 14], k, p) <=>
            ~((B(N - 14 - 3) <=> B(N - 14 - 8)) <=> (B(N - 14 - 14) <=> B(N - 14 - 16)))
      BY <1>1, <2>3
    <3> HIDE DEF B
    <3>3. QED BY <3>1, <3>2
  <2>7. On(w[N - 16], k, p) <=>
          ~((B(N - 19) <=> B(N - 24)) <=> (B(N - 30) <=> B(N - 32)))
    <3>1. N - 16 - 3 = N - 19 /\ N - 16 - 8 = N - 24 /\ N - 16 - 14 = N - 30 /\ N - 16 - 16 = N - 32
      BY <2>1
    <3>2. On(w[N - 16], k, p) <=>
            ~((B(N - 16 - 3) <=> B(N - 16 - 8)) <=> (B(N - 16 - 14) <=> B(N - 16 - 16)))
      BY <1>1, <2>3
    <3> HIDE DEF B
    <3>3. QED BY <3>1, <3>2
  <2>8. On(Mix(w, N, 3, 8, 14, 16), k, p) <=>
          ~((On(w[N - 3], k, p) <=> On(w[N - 8], k, p))
              <=> (On(w[N - 14], k, p) <=> On(w[N - 16], k, p)))
    <3>1. w[N - 3] \in Word /\ w[N - 8] \in Word /\ w[N - 14] \in Word /\ w[N - 16] \in Word
      BY <1>2
    <3>2. On(Mix(w, N, 3, 8, 14, 16), k, p)
            <=> Uneven(w[N - 3], w[N - 8], w[N - 14], w[N - 16], k, p)
      BY <3>1, BitsOfMix
    <3>3. QED BY <3>2 DEF Uneven
  <2>9. On(lrot32(Mix(w, N, 6, 16, 28, 32), 1), k, p) <=>
          ~((B(N - 6) <=> B(N - 16)) <=> (B(N - 28) <=> B(N - 32)))
    <3> DEFINE q == PrevByte(k, p)
               r == PrevPlace(p)
    <3>1. q \in 1..4 /\ r \in Places
      BY PrevInRange
    <3>2. On(lrot32(Mix(w, N, 6, 16, 28, 32), 1), k, p) <=> On(Mix(w, N, 6, 16, 28, 32), q, r)
      BY <1>3, RotatedOnce
    <3>3. w[N - 6] \in Word /\ w[N - 16] \in Word /\ w[N - 28] \in Word /\ w[N - 32] \in Word
      BY <1>2
    <3> HIDE DEF q, r
    <3>4. On(Mix(w, N, 6, 16, 28, 32), q, r)
            <=> Uneven(w[N - 6], w[N - 16], w[N - 28], w[N - 32], q, r)
      BY <3>1, <3>3, BitsOfMix
    <3>5. QED BY <3>2, <3>4 DEF Uneven, q, r
  <2> HIDE DEF B
  <2>10. ~((~((B(N - 6) <=> B(N - 11)) <=> (B(N - 17) <=> B(N - 19)))
             <=> ~((B(N - 11) <=> B(N - 16)) <=> (B(N - 22) <=> B(N - 24))))
          <=> (~((B(N - 17) <=> B(N - 22)) <=> (B(N - 28) <=> B(N - 30)))
                 <=> ~((B(N - 19) <=> B(N - 24)) <=> (B(N - 30) <=> B(N - 32)))))
        <=> ~((B(N - 6) <=> B(N - 16)) <=> (B(N - 28) <=> B(N - 32)))
    BY <2>2, PairsCancel, ZenonT(60)
  <2> DEFINE On3  == ~((B(N - 6) <=> B(N - 11)) <=> (B(N - 17) <=> B(N - 19)))
             On8  == ~((B(N - 11) <=> B(N - 16)) <=> (B(N - 22) <=> B(N - 24)))
             On14 == ~((B(N - 17) <=> B(N - 22)) <=> (B(N - 28) <=> B(N - 30)))
             On16 == ~((B(N - 19) <=> B(N - 24)) <=> (B(N - 30) <=> B(N - 32)))
             Back == ~((B(N - 6) <=> B(N - 16)) <=> (B(N - 28) <=> B(N - 32)))
  <2>11. ~((On3 <=> On8) <=> (On14 <=> On16)) <=> Back
    BY <2>10
  <2>12. /\ On(w[N - 3], k, p) <=> On3
         /\ On(w[N - 8], k, p) <=> On8
         /\ On(w[N - 14], k, p) <=> On14
         /\ On(w[N - 16], k, p) <=> On16
    BY <2>4, <2>5, <2>6, <2>7
  <2>13. On(lrot32(Mix(w, N, 6, 16, 28, 32), 1), k, p) <=> Back
    BY <2>9
  <2> HIDE DEF On3, On8, On14, On16, Back
  <2>14. QED BY <2>8, <2>11, <2>12, <2>13
<1>6. QED BY <1>3, <1>4, <1>5, SameWord

\* The word that is added is the recurrence's.
LEMMA NextIsExpected ==
  ASSUME NEW w \in Seq(Word), Len(w) >= 16, \A m \in 17..Len(w) : AsExpected(w, m)
  PROVE  /\ NextWord(w) \in Word
         /\ NextWord(w) = lrot32(Mix(w, Len(w) + 1, 3, 8, 14, 16), 1)
<1> DEFINE N == Len(w) + 1
<1>1. Mix(w, N, 3, 8, 14, 16) \in Word
  <2>1. /\ N - 3 \in 1..Len(w) /\ N - 8 \in 1..Len(w)
        /\ N - 14 \in 1..Len(w) /\ N - 16 \in 1..Len(w)
    OBVIOUS
  <2>2. /\ w[N - 3] \in Word /\ w[N - 8] \in Word /\ w[N - 14] \in Word /\ w[N - 16] \in Word
    BY <2>1
  <2>3. QED BY <2>2, BitsOfMix
<1>2. CASE Len(w) < 32
  <2>1. NextWord(w) = lrot32(Mix(w, N, 3, 8, 14, 16), 1)
    BY <1>2 DEF NextWord, Mix
  <2>2. QED BY <1>1, <2>1, RotatedOnce
<1>3. CASE Len(w) >= 32
  <2>1. NextWord(w) = lrot32(Mix(w, N, 6, 16, 28, 32), 2)
    BY <1>3 DEF NextWord, Mix
  <2>2. Mix(w, N, 6, 16, 28, 32) \in Word
    <3>1. /\ N - 6 \in 1..Len(w) /\ N - 16 \in 1..Len(w)
          /\ N - 28 \in 1..Len(w) /\ N - 32 \in 1..Len(w)
      BY <1>3
    <3>2. /\ w[N - 6] \in Word /\ w[N - 16] \in Word /\ w[N - 28] \in Word /\ w[N - 32] \in Word
      BY <3>1
    <3>3. QED BY <3>2, BitsOfMix
  <2>3. Mix(w, N, 3, 8, 14, 16) = lrot32(Mix(w, N, 6, 16, 28, 32), 1)
    BY <1>3, LookedBack
  <2>4. NextWord(w) = lrot32(Mix(w, N, 3, 8, 14, 16), 1)
    BY <2>1, <2>2, <2>3, RotatedTwice
  <2>5. QED BY <1>1, <2>4, RotatedOnce
<1>4. Len(w) < 32 \/ Len(w) >= 32
  OBVIOUS
<1>5. QED BY <1>2, <1>3, <1>4

-----------------------------------------------------------------------------
(***************************************************************************)
(* Words and messages                                                      *)
(***************************************************************************)

\* The disjunction of bytes, as Or has it.
OrOf(x, y) == x + y - AndByte[x][y]

LEMMA OrOfBytes ==
  ASSUME NEW x \in Octet, NEW y \in Octet
  PROVE  OrOf(x, y) \in Octet
<1> DEFINE One(p) == Part(x, p) + Part(y, p) - Both(x, y, p)
           A == AndByte[x][y]
<1>1. ASSUME NEW p \in Places
      PROVE  /\ One(p) \in 0..p
             /\ Part(x, p) \in Int /\ Part(y, p) \in Int /\ Both(x, y, p) \in Int
  <2>1. p \in Nat
    BY DEF Places
  <2>2. CASE Set(x, p) /\ Set(y, p)
    BY <2>1, <2>2 DEF Part, Both
  <2>3. CASE Set(x, p) /\ ~Set(y, p)
    BY <2>1, <2>3 DEF Part, Both
  <2>4. CASE ~Set(x, p) /\ Set(y, p)
    BY <2>1, <2>4 DEF Part, Both
  <2>5. CASE ~Set(x, p) /\ ~Set(y, p)
    BY <2>1, <2>5 DEF Part, Both
  <2>6. QED BY <2>2, <2>3, <2>4, <2>5
<1>2. A \in Int /\ A = Both(x, y, 1) + Both(x, y, 2) + Both(x, y, 4) + Both(x, y, 8)
                         + Both(x, y, 16) + Both(x, y, 32) + Both(x, y, 64) + Both(x, y, 128)
  <2>1. A \in Octet
    BY AndOfBytes
  <2>2. A \in Int
    BY <2>1 DEF Octet
  <2>3. QED BY <2>2, AndOfBytes
<1>3. x = Part(x, 1) + Part(x, 2) + Part(x, 4) + Part(x, 8)
            + Part(x, 16) + Part(x, 32) + Part(x, 64) + Part(x, 128)
  BY SumOfParts
<1>4. y = Part(y, 1) + Part(y, 2) + Part(y, 4) + Part(y, 8)
            + Part(y, 16) + Part(y, 32) + Part(y, 64) + Part(y, 128)
  BY SumOfParts
<1>5. 1 \in Places /\ 2 \in Places /\ 4 \in Places /\ 8 \in Places
      /\ 16 \in Places /\ 32 \in Places /\ 64 \in Places /\ 128 \in Places
  BY DEF Places
<1>6. /\ Part(x, 1) \in Int /\ Part(y, 1) \in Int /\ Both(x, y, 1) \in Int
      /\ Part(x, 2) \in Int /\ Part(y, 2) \in Int /\ Both(x, y, 2) \in Int
      /\ Part(x, 4) \in Int /\ Part(y, 4) \in Int /\ Both(x, y, 4) \in Int
      /\ Part(x, 8) \in Int /\ Part(y, 8) \in Int /\ Both(x, y, 8) \in Int
      /\ Part(x, 16) \in Int /\ Part(y, 16) \in Int /\ Both(x, y, 16) \in Int
      /\ Part(x, 32) \in Int /\ Part(y, 32) \in Int /\ Both(x, y, 32) \in Int
      /\ Part(x, 64) \in Int /\ Part(y, 64) \in Int /\ Both(x, y, 64) \in Int
      /\ Part(x, 128) \in Int /\ Part(y, 128) \in Int /\ Both(x, y, 128) \in Int
  BY <1>1, <1>5
<1>7. x + y - A = One(1) + One(2) + One(4) + One(8) + One(16) + One(32) + One(64) + One(128)
  <2> HIDE DEF A
  <2>1. x \in Int /\ y \in Int
    BY DEF Octet
  <2>2. QED BY <1>2, <1>3, <1>4, <1>6, <2>1
<1> HIDE DEF One
<1>8. /\ One(1) \in 0..1 /\ One(2) \in 0..2 /\ One(4) \in 0..4 /\ One(8) \in 0..8
      /\ One(16) \in 0..16 /\ One(32) \in 0..32 /\ One(64) \in 0..64 /\ One(128) \in 0..128
  BY <1>1, <1>5
<1>9. OrOf(x, y) = One(1) + One(2) + One(4) + One(8) + One(16) + One(32) + One(64) + One(128)
  BY <1>7 DEF OrOf
<1> DEFINE a == One(1)
           b == One(2)
           c == One(4)
           d == One(8)
           e == One(16)
           f == One(32)
           g == One(64)
           m == One(128)
           z == OrOf(x, y)
<1>10. /\ z = a + b + c + d + e + f + g + m
       /\ a \in 0..1 /\ b \in 0..2 /\ c \in 0..4 /\ d \in 0..8
       /\ e \in 0..16 /\ f \in 0..32 /\ g \in 0..64 /\ m \in 0..128
  BY <1>8, <1>9
<1> HIDE DEF a, b, c, d, e, f, g, m, z
<1>11. z \in Octet
  BY <1>10 DEF Octet
<1>12. QED BY <1>11 DEF z

LEMMA WordOperators ==
  ASSUME NEW u \in Word, NEW v \in Word
  PROVE  And(u, v) \in Word /\ Or(u, v) \in Word /\ Xor(u, v) \in Word /\ Not(u) \in Word
<1>1. \A k \in 1..4 : u[k] \in Octet /\ v[k] \in Octet
  BY DEF Word
<1>2. And(u, v) \in Word
  <2>1. \A k \in 1..4 : AndByte[u[k]][v[k]] \in Octet
    BY <1>1, AndOfBytes
  <2>2. QED BY <2>1 DEF And, Word
<1>3. Or(u, v) \in Word
  <2>1. \A k \in 1..4 : OrOf(u[k], v[k]) \in Octet
    BY <1>1, OrOfBytes
  <2>2. QED BY <2>1 DEF Or, OrOf, Word
<1>4. Not(u) \in Word
  <2>0. \A x \in Octet : 255 - x \in Octet
    BY DEF Octet
  <2>1. \A k \in 1..4 : 255 - u[k] \in Octet
    BY <1>1, <2>0
  <2>2. QED BY <2>1 DEF Not, Word
<1>5. QED BY <1>2, <1>3, <1>4, XorOfWords

LEMMA SumOfWords ==
  ASSUME NEW u \in Word, NEW v \in Word
  PROVE  Add(u, v) \in Word
<1> DEFINE s4 == u[4] + v[4]
           s3 == u[3] + v[3] + s4 \div 256
           s2 == u[2] + v[2] + s3 \div 256
           s1 == u[1] + v[1] + s2 \div 256
<1>1. /\ u[1] \in Nat /\ u[2] \in Nat /\ u[3] \in Nat /\ u[4] \in Nat
      /\ v[1] \in Nat /\ v[2] \in Nat /\ v[3] \in Nat /\ v[4] \in Nat
  <2>1. \A k \in 1..4 : u[k] \in Octet /\ v[k] \in Octet
    BY DEF Word
  <2>2. \A x \in Octet : x \in Nat
    BY DEF Octet
  <2>3. QED BY <2>1, <2>2
<1>2. Add(u, v) = <<s1 % 256, s2 % 256, s3 % 256, s4 % 256>>
  BY DEF Add
<1>a. ASSUME NEW x \in Nat, NEW y \in Nat, NEW z \in Nat
      PROVE  x + y + z \div 256 \in Nat
  OBVIOUS
<1>3. s4 \in Nat
  BY <1>1
<1> HIDE DEF s4
<1>4. s3 \in Nat
  BY <1>1, <1>3, <1>a
<1> HIDE DEF s3
<1>5. s2 \in Nat
  BY <1>1, <1>4, <1>a
<1> HIDE DEF s2
<1>6. s1 \in Nat
  BY <1>1, <1>5, <1>a
<1> HIDE DEF s1
<1>7. s1 % 256 \in Octet /\ s2 % 256 \in Octet /\ s3 % 256 \in Octet /\ s4 % 256 \in Octet
  BY <1>3, <1>4, <1>5, <1>6 DEF Octet
<1>8. QED BY <1>2, <1>7 DEF Word

\* The rotations of a round.
LEMMA RotatedInRound ==
  ASSUME NEW u \in Word
  PROVE  lrot32(u, 5) \in Word /\ lrot32(u, 30) \in Word
<1> DEFINE from(k, n) == u[((k - 1 + n \div 8) % 4) + 1]
           byte(k, n, m) == ((from(k, n) * m) % 256) + ((from(k + 1, n) * m) \div 256)
<1>1. ASSUME NEW k \in 1..5
      PROVE  from(k, 5) \in Octet /\ from(k, 30) \in Octet
  <2>1. ((k - 1 + 5 \div 8) % 4) + 1 \in 1..4 /\ ((k - 1 + 30 \div 8) % 4) + 1 \in 1..4
    OBVIOUS
  <2>2. QED BY <2>1 DEF Word
<1>2. Power[(5 % 8) + 1] = 32 /\ Power[(30 % 8) + 1] = 64
  BY DEF Power
<1>3. lrot32(u, 5) = [k \in 1..4 |-> byte(k, 5, 32)]
  BY <1>2 DEF lrot32
<1>4. lrot32(u, 30) = [k \in 1..4 |-> byte(k, 30, 64)]
  BY <1>2 DEF lrot32
<1>5. ASSUME NEW x \in Octet, NEW y \in Octet
      PROVE  /\ ((x * 32) % 256) + ((y * 32) \div 256) \in Octet
             /\ ((x * 64) % 256) + ((y * 64) \div 256) \in Octet
  <2>1. (x * 32) % 256 = 32 * (x % 8) /\ (y * 32) \div 256 = y \div 8
    BY DEF Octet
  <2>2. (x * 64) % 256 = 64 * (x % 4) /\ (y * 64) \div 256 = y \div 4
    BY DEF Octet
  <2>3. x % 8 \in 0..7 /\ x % 4 \in 0..3 /\ y \div 8 \in 0..31 /\ y \div 4 \in 0..63
    BY DEF Octet
  <2>4. QED BY <2>1, <2>2, <2>3 DEF Octet
<1>6. \A k \in 1..4 : k \in 1..5 /\ k + 1 \in 1..5
  OBVIOUS
<1> HIDE DEF from
<1>7. \A k \in 1..4 : byte(k, 5, 32) \in Octet /\ byte(k, 30, 64) \in Octet
  BY <1>1, <1>5, <1>6
<1>8. QED BY <1>3, <1>4, <1>7 DEF Word

LEMMA RoundFunction ==
  ASSUME NEW n, NEW b \in Word, NEW c \in Word, NEW d \in Word
  PROVE  F(n, b, c, d) \in Word /\ K(n) \in Word
<1>1. K(n) \in Word
  <2>1. /\ <<90, 130, 121, 153>> \in Word /\ <<110, 217, 235, 161>> \in Word
        /\ <<143, 27, 188, 220>> \in Word /\ <<202, 98, 193, 214>> \in Word
    BY DEF Word, Octet
  <2>2. QED BY <2>1 DEF K
<1>2. CASE n < 20
  <2>1. And(b, c) \in Word /\ And(Not(b), d) \in Word
    BY WordOperators
  <2>2. Or(And(b, c), And(Not(b), d)) \in Word
    BY <2>1, WordOperators
  <2>3. QED BY <1>1, <1>2, <2>2 DEF F
<1>3. CASE ~(n < 20) /\ n \in 40..59
  <2>1. And(b, c) \in Word /\ And(b, d) \in Word /\ And(c, d) \in Word
    BY WordOperators
  <2>2. Or(And(b, c), And(b, d)) \in Word
    BY <2>1, WordOperators
  <2>3. Or(Or(And(b, c), And(b, d)), And(c, d)) \in Word
    BY <2>1, <2>2, WordOperators
  <2>4. QED BY <1>1, <1>3, <2>3 DEF F
<1>4. CASE ~(n < 20) /\ ~(n \in 40..59)
  <2>1. Xor(b, c) \in Word
    BY WordOperators
  <2>2. Xor(Xor(b, c), d) \in Word
    BY <2>1, WordOperators
  <2>3. QED BY <1>1, <1>4, <2>2 DEF F
<1>5. QED BY <1>2, <1>3, <1>4

Block == [1..64 -> Octet]
State == [1..5 -> Word]

LEMMA TwoTexts ==
  ASSUME NEW s \in Seq(Octet), NEW t \in Seq(Octet)
  PROVE  s \o t \in Seq(Octet) /\ Len(s \o t) = Len(s) + Len(t)
OBVIOUS

LEMMA FixedLength ==
  ASSUME NEW n \in Nat, NEW f \in [1..n -> Octet]
  PROVE  f \in Seq(Octet) /\ Len(f) = n
<1>1. f = [k \in 1..n |-> f[k]] /\ \A k \in 1..n : f[k] \in Octet
  OBVIOUS
<1>2. QED BY <1>1

LEMMA CounterBytes ==
  ASSUME NEW n \in Nat
  PROVE  u64beToByteString(n) \in Seq(Octet) /\ Len(u64beToByteString(n)) = 8
<1>1. ASSUME NEW m \in Nat
      PROVE  u32beToByteString(m) \in Seq(Octet) /\ Len(u32beToByteString(m)) = 4
  <2>1. m % 256 \in 0..255 /\ (m \div 256) % 256 \in 0..255
    OBVIOUS
  <2>2. (m \div 65536) % 256 \in 0..255 /\ (m \div 16777216) % 256 \in 0..255
    OBVIOUS
  <2>3. QED BY <2>1, <2>2 DEF u32beToByteString, Octet
<1>2. (n \div 65536) \div 65536 \in Nat
  OBVIOUS
<1> DEFINE left == u32beToByteString((n \div 65536) \div 65536)
           right == u32beToByteString(n)
<1>3. left \in Seq(Octet) /\ Len(left) = 4 /\ right \in Seq(Octet) /\ Len(right) = 4
  BY <1>1, <1>2
<1>4. u64beToByteString(n) = left \o right
  BY DEF u64beToByteString
<1> HIDE DEF left, right
<1>5. left \o right \in Seq(Octet) /\ Len(left \o right) = Len(left) + Len(right)
  BY <1>3, TwoTexts
<1>6. QED BY <1>3, <1>4, <1>5

\* A message is padded to whole blocks, of which there is at least one,
LEMMA PaddedMessage ==
  ASSUME NEW msg \in Seq(Octet)
  PROVE  /\ PadMessage(msg) \in Seq(Octet)
         /\ \E q \in Nat \ {0} : Len(PadMessage(msg)) = 64 * q
<1> DEFINE L == Len(msg)
           zeros == (119 - (L % 64)) % 64
           bits == u64beToByteString(8 * L)
<1>1. L \in Nat /\ zeros \in Nat /\ 8 * L \in Nat
  OBVIOUS
<1>2. bits \in Seq(Octet) /\ Len(bits) = 8
  BY <1>1, CounterBytes
<1>3. Zeros(zeros) \in Seq(Octet) /\ Len(Zeros(zeros)) = zeros
  BY <1>1 DEF Zeros, Octet
<1>4. <<128>> \in Seq(Octet) /\ Len(<<128>>) = 1
  BY DEF Octet
<1>5. PadMessage(msg) = msg \o <<128>> \o Zeros(zeros) \o bits
  BY DEF PadMessage
<1>6. \E q \in Nat \ {0} : L + 1 + zeros + 8 = 64 * q
  <2>1. CASE L % 64 <= 55
    <3>1. zeros = 55 - (L % 64)
      BY <2>1
    <3>2. L + 1 + zeros + 8 = 64 * ((L \div 64) + 1)
      BY <3>1
    <3>3. (L \div 64) + 1 \in Nat \ {0}
      OBVIOUS
    <3>4. QED BY <3>2, <3>3
  <2>2. CASE ~(L % 64 <= 55)
    <3>1. zeros = 119 - (L % 64)
      BY <2>2
    <3>2. L + 1 + zeros + 8 = 64 * ((L \div 64) + 2)
      BY <3>1
    <3>3. (L \div 64) + 2 \in Nat \ {0}
      OBVIOUS
    <3>4. QED BY <3>2, <3>3
  <2>3. QED BY <2>1, <2>2
<1> HIDE DEF zeros, bits
<1>7. PadMessage(msg) \in Seq(Octet) /\ Len(PadMessage(msg)) = L + 1 + zeros + 8
  <2> DEFINE a == msg \o <<128>>
             b == a \o Zeros(zeros)
  <2>1. a \in Seq(Octet) /\ Len(a) = L + 1
    BY <1>4, TwoTexts
  <2> HIDE DEF a
  <2>2. b \in Seq(Octet) /\ Len(b) = L + 1 + zeros
    BY <1>3, <2>1, TwoTexts
  <2>3. PadMessage(msg) = b \o bits
    BY <1>5 DEF a
  <2> HIDE DEF b
  <2>4. QED BY <1>1, <1>2, <2>2, <2>3, TwoTexts
<1>8. QED BY <1>6, <1>7

LEMMA ByteOfText ==
  ASSUME NEW s \in Seq(Octet)
  PROVE  \A k \in 1..Len(s) : s[k] \in Octet
OBVIOUS

\* a block is 64 bytes,
LEMMA BlocksOf ==
  ASSUME NEW bstr \in Seq(Octet), NEW q \in Nat \ {0}, Len(bstr) = 64 * q
  PROVE  Blocks(bstr) \in Seq(Block) /\ Blocks(bstr) # <<>>
<1>1. Len(bstr) \div 64 = q
  OBVIOUS
<1>2. ASSUME NEW n \in 1..q
      PROVE  SubSeq(bstr, 64 * n - 63, 64 * n) \in Block
  <2>1. SubSeq(bstr, 64 * n - 63, 64 * n)
          = [k \in 1..(64 * n - (64 * n - 63) + 1) |-> bstr[(64 * n - 63) + k - 1]]
    OBVIOUS
  <2>2. 64 * n - (64 * n - 63) + 1 = 64
    OBVIOUS
  <2>3. ASSUME NEW k \in 1..64
        PROVE  bstr[(64 * n - 63) + k - 1] \in Octet
    <3>1. (64 * n - 63) + k - 1 \in 1..Len(bstr)
      OBVIOUS
    <3>2. QED BY <3>1, ByteOfText
  <2>4. SubSeq(bstr, 64 * n - 63, 64 * n) = [k \in 1..64 |-> bstr[(64 * n - 63) + k - 1]]
    BY <2>1, <2>2
  <2>5. [k \in 1..64 |-> bstr[(64 * n - 63) + k - 1]] \in [1..64 -> Octet]
    BY <2>3
  <2>6. QED BY <2>4, <2>5 DEF Block
<1>3. Blocks(bstr) = [n \in 1..q |-> SubSeq(bstr, 64 * n - 63, 64 * n)]
  BY <1>1 DEF Blocks
<1>4. Blocks(bstr) \in Seq(Block) /\ Len(Blocks(bstr)) = q
  BY <1>2, <1>3
<1>5. QED BY <1>4

\* and sixteen words.
LEMMA LoadedBlock ==
  ASSUME NEW chunk \in Block
  PROVE  Loaded(chunk) \in Seq(Word) /\ Len(Loaded(chunk)) = 16
<1>1. ASSUME NEW n \in 1..16
      PROVE  SubSeq(chunk, 4 * n - 3, 4 * n) \in Word
  <2>1. chunk \in Seq(Octet)
    BY FixedLength DEF Block
  <2>2. SubSeq(chunk, 4 * n - 3, 4 * n)
          = [k \in 1..(4 * n - (4 * n - 3) + 1) |-> chunk[(4 * n - 3) + k - 1]]
    BY <2>1
  <2>3. 4 * n - (4 * n - 3) + 1 = 4
    OBVIOUS
  <2>4. ASSUME NEW k \in 1..4
        PROVE  chunk[(4 * n - 3) + k - 1] \in Octet
    <3>1. (4 * n - 3) + k - 1 \in 1..64
      OBVIOUS
    <3>2. QED BY <3>1 DEF Block
  <2>5. QED BY <2>2, <2>3, <2>4 DEF Word
<1>2. QED BY <1>1 DEF Loaded

\* What the computation of a hash has at hand.
HashTyped ==
  /\ blocks \in Seq(Block) /\ words \in Seq(Word) /\ j \in Nat
  /\ h \in State /\ abcde \in State

LEMMA FirstState == H0 \in State
<1>1. /\ <<103, 69, 35, 1>> \in Word /\ <<239, 205, 171, 137>> \in Word
      /\ <<152, 186, 220, 254>> \in Word /\ <<16, 50, 84, 118>> \in Word
      /\ <<195, 210, 225, 240>> \in Word
  BY DEF Word, Octet
<1>2. H0[1] \in Word /\ H0[2] \in Word /\ H0[3] \in Word /\ H0[4] \in Word /\ H0[5] \in Word
  BY <1>1 DEF H0
<1>3. H0 = [n \in 1..5 |-> H0[n]]
  BY DEF H0
<1>4. \A n \in 1..5 : H0[n] \in Word
  BY <1>2
<1>5. QED BY <1>3, <1>4 DEF State

LEMMA HashBegins ==
  ASSUME NEW name, NEW msg \in Seq(Octet), Hash(name, msg)
  PROVE  /\ stage' = name
         /\ blocks' \in Seq(Block) /\ words' \in Seq(Word) /\ Len(words') = 16
         /\ j' \in Nat /\ h' \in State /\ abcde' \in State
<1> DEFINE bs == Blocks(PadMessage(msg))
<1>1. bs \in Seq(Block) /\ bs # <<>>
  BY PaddedMessage, BlocksOf
<1>2. Head(bs) \in Block /\ Tail(bs) \in Seq(Block)
  <2> HIDE DEF bs
  <2>1. QED BY <1>1
<1>3. stage' = name /\ blocks' = Tail(bs) /\ words' = Loaded(Head(bs)) /\ j' = 0
      /\ h' = H0 /\ abcde' = H0
  BY DEF Hash
<1> HIDE DEF bs
<1>4. H0 \in State
  BY FirstState
<1>5. QED BY <1>2, <1>3, <1>4, LoadedBlock

\* The digest is twenty bytes.
LEMMA DigestBytes ==
  ASSUME h \in State, abcde \in State
  PROVE  /\ Sum \in State
         /\ Digest \in Seq(Octet) /\ Len(Digest) = 20
<1>1. ASSUME NEW n \in 1..5
      PROVE  Add(h[n], abcde[n]) \in Word
  BY SumOfWords DEF State
<1>2. Sum \in State
  BY <1>1 DEF Sum, State
<1>3. ASSUME NEW n \in 1..5
      PROVE  Sum[n] \in Seq(Octet) /\ Len(Sum[n]) = 4
  BY <1>2, FixedLength DEF State, Word
<1> DEFINE a == Sum[1] \o Sum[2]
           b == a \o Sum[3]
           c == b \o Sum[4]
<1>4. a \in Seq(Octet) /\ Len(a) = 8
  <2> DEFINE s == Sum[1]
             t == Sum[2]
  <2>1. s \in Seq(Octet) /\ Len(s) = 4 /\ t \in Seq(Octet) /\ Len(t) = 4
    BY <1>3
  <2>2. a = s \o t
    OBVIOUS
  <2> HIDE DEF s, t, a
  <2>3. a \in Seq(Octet) /\ Len(a) = Len(s) + Len(t)
    BY <2>1, <2>2, TwoTexts
  <2>4. QED BY <2>1, <2>3
<1>5. b \in Seq(Octet) /\ Len(b) = 12
  <2> DEFINE s == a
             t == Sum[3]
  <2>1. s \in Seq(Octet) /\ Len(s) = 8 /\ t \in Seq(Octet) /\ Len(t) = 4
    BY <1>3, <1>4
  <2>2. b = s \o t
    OBVIOUS
  <2> HIDE DEF s, t, b
  <2>3. b \in Seq(Octet) /\ Len(b) = Len(s) + Len(t)
    BY <2>1, <2>2, TwoTexts
  <2>4. QED BY <2>1, <2>3
<1>6. c \in Seq(Octet) /\ Len(c) = 16
  <2> DEFINE s == b
             t == Sum[4]
  <2>1. s \in Seq(Octet) /\ Len(s) = 12 /\ t \in Seq(Octet) /\ Len(t) = 4
    BY <1>3, <1>5
  <2>2. c = s \o t
    OBVIOUS
  <2> HIDE DEF s, t, c
  <2>3. c \in Seq(Octet) /\ Len(c) = Len(s) + Len(t)
    BY <2>1, <2>2, TwoTexts
  <2>4. QED BY <2>1, <2>3
<1>7. Digest \in Seq(Octet) /\ Len(Digest) = 20
  <2> DEFINE s == c
             t == Sum[5]
  <2>1. s \in Seq(Octet) /\ Len(s) = 16 /\ t \in Seq(Octet) /\ Len(t) = 4
    BY <1>3, <1>6
  <2>2. Digest = s \o t
    BY DEF Digest
  <2> HIDE DEF s, t
  <2>3. Digest \in Seq(Octet) /\ Len(Digest) = Len(s) + Len(t)
    BY <2>1, <2>2, TwoTexts
  <2>4. QED BY <2>1, <2>3
<1>8. QED BY <1>2, <1>7

\* A key is as long as a block, and stays so when it is masked.
LEMMA KeyBytes ==
  ASSUME NEW k \in Seq(Octet), Len(k) <= BlockSize, NEW m \in Octet
  PROVE  /\ PadKey(k) \in Seq(Octet)
         /\ \A s \in Seq(Octet) : Masked(s, m) \in Seq(Octet)
<1>1. PadKey(k) \in Seq(Octet)
  <2>1. BlockSize - Len(k) \in Nat
    BY DEF BlockSize
  <2>2. Zeros(BlockSize - Len(k)) \in Seq(Octet)
    BY <2>1 DEF Zeros, Octet
  <2>3. QED BY <2>2 DEF PadKey
<1>2. ASSUME NEW s \in Seq(Octet)
      PROVE  Masked(s, m) \in Seq(Octet)
  <2>1. \A n \in 1..Len(s) : s[n] + m - 2 * AndByte[s[n]][m] \in Octet
    BY XorOfBytes DEF XorOf
  <2>2. Masked(s, m) = [n \in 1..Len(s) |-> s[n] + m - 2 * AndByte[s[n]][m]]
    BY DEF Masked
  <2>3. QED BY <2>1, <2>2
<1>3. QED BY <1>1, <1>2

-----------------------------------------------------------------------------
(***************************************************************************)
(* The inductive invariant: what is hashed is bytes and words, and every   *)
(* word of the schedule beyond the sixteenth is the recurrence's.          *)
(***************************************************************************)

Recurrent(w) == \A m \in 17..Len(w) : AsExpected(w, m)

Asked ==
  /\ i \in Nat /\ ret \in Seq(Byte)
  /\ stage = "text" => job \in Jobs \union {Unasked}
  /\ stage # "text" => job.key \in Seq(Octet) /\ job.counter \in Nat
  /\ key \in Seq(Octet)

ComputeInv ==
  /\ Asked /\ HashTyped
  /\ Hashing => Len(words) >= 16
  /\ Recurrent(words)

LEMMA RoundTyped ==
  ASSUME NEW s \in State, NEW n, NEW w \in Word
  PROVE  <<Add(Add(Add(lrot32(s[1], 5), F(n, s[2], s[3], s[4])), Add(s[5], K(n))), w),
           s[1], lrot32(s[2], 30), s[3], s[4]>> \in State
<1>1. s[1] \in Word /\ s[2] \in Word /\ s[3] \in Word /\ s[4] \in Word /\ s[5] \in Word
  BY DEF State
<1> DEFINE a == Add(lrot32(s[1], 5), F(n, s[2], s[3], s[4]))
           b == Add(s[5], K(n))
           c == Add(Add(a, b), w)
           d == lrot32(s[2], 30)
<1>2. a \in Word
  BY <1>1, RotatedInRound, RoundFunction, SumOfWords
<1>3. b \in Word
  BY <1>1, RoundFunction, SumOfWords
<1>4. c \in Word
  <2> HIDE DEF a, b
  <2>1. Add(a, b) \in Word
    BY <1>2, <1>3, SumOfWords
  <2>2. QED BY <2>1, SumOfWords
<1>5. d \in Word
  BY <1>1, RotatedInRound
<1> HIDE DEF c, d
<1>6. <<c, s[1], d, s[3], s[4]>> \in State
  BY <1>1, <1>4, <1>5 DEF State
<1>7. QED BY <1>6 DEF c, d

LEMMA SameBytes == Byte = Octet
BY DEF Byte, Octet

\* The decoder adds bytes to bytes.
LEMMA DecodedBytes ==
  ASSUME i \in Nat, ret \in Seq(Byte), Decode
  PROVE  i' \in Nat /\ ret' \in Seq(Byte)
<1> DEFINE chunk == SubSeq(newstr, i, i + 7)
<1>1. CASE i > Len(newstr) \/ ChunkThrows(chunk)
  BY <1>1 DEF Decode
<1>2. CASE ~(i > Len(newstr)) /\ ~ChunkThrows(chunk)
  <2>1. i' = i + 8 /\ ret' = ret \o b32ChunkToBytes(chunk)
    BY <1>2 DEF Decode
  <2>2. DOMAIN chunk = 1..8
    <3>1. chunk = [k \in 1..((i + 7) - i + 1) |-> newstr[i + k - 1]]
      OBVIOUS
    <3>2. (i + 7) - i + 1 = 8
      OBVIOUS
    <3>3. QED BY <3>1, <3>2
  <2> HIDE DEF chunk
  <2>3. PICK n \in 1..5, v \in [1..8 -> Digits] : Read(chunk, n, v)
    BY <1>2, <2>2, Accepted
  <2>4. b32ChunkToBytes(chunk) \in Seq(Byte)
    BY <2>3 DEF Read
  <2>5. QED BY <2>1, <2>4
<1>3. QED BY <1>1, <1>2

LEMMA NothingRecurs ==
  ASSUME NEW w, Len(w) = 16
  PROVE  Recurrent(w)
BY DEF Recurrent

LEMMA AddedWord ==
  ASSUME NEW w \in Seq(Word), Len(w) >= 16, Recurrent(w)
  PROVE  /\ Append(w, NextWord(w)) \in Seq(Word)
         /\ Len(Append(w, NextWord(w))) >= 16
         /\ Recurrent(Append(w, NextWord(w)))
<1> DEFINE x == NextWord(w)
           y == Append(w, x)
<1>1. x \in Word /\ x = lrot32(Mix(w, Len(w) + 1, 3, 8, 14, 16), 1)
  BY NextIsExpected DEF Recurrent
<1> HIDE DEF x
<1>2. y \in Seq(Word) /\ Len(y) = Len(w) + 1
  BY <1>1
<1>3. /\ y[Len(w) + 1] = x
      /\ \A m \in 1..Len(w) : y[m] = w[m]
  OBVIOUS
<1> HIDE DEF y
<1>4. ASSUME NEW m \in 17..(Len(w) + 1)
      PROVE  AsExpected(y, m)
  <2>1. m - 3 \in 1..Len(w) /\ m - 8 \in 1..Len(w) /\ m - 14 \in 1..Len(w) /\ m - 16 \in 1..Len(w)
    OBVIOUS
  <2>2. /\ y[m - 3] = w[m - 3] /\ y[m - 8] = w[m - 8]
        /\ y[m - 14] = w[m - 14] /\ y[m - 16] = w[m - 16]
    BY <1>3, <2>1
  <2>3. Mix(y, m, 3, 8, 14, 16) = Mix(w, m, 3, 8, 14, 16)
    BY <2>2 DEF Mix
  <2>4. CASE m \in 17..Len(w)
    <3>1. AsExpected(w, m) /\ y[m] = w[m]
      BY <1>3, <2>4 DEF Recurrent
    <3>2. QED BY <2>3, <3>1 DEF AsExpected
  <2>5. CASE m = Len(w) + 1
    BY <1>1, <1>3, <2>3, <2>5 DEF AsExpected
  <2>6. QED BY <2>4, <2>5
<1>5. Recurrent(y)
  BY <1>2, <1>4 DEF Recurrent
<1>6. QED BY <1>2, <1>5 DEF x, y

\* A hash that begins leaves all in order.
LEMMA BeginsInOrder ==
  ASSUME Asked, job' = job, key' \in Seq(Octet), UNCHANGED decoder,
         NEW name, name # "text", stage # "text", NEW msg \in Seq(Octet), Hash(name, msg)
  PROVE  ComputeInv'
<1>1. /\ stage' = name
      /\ blocks' \in Seq(Block) /\ words' \in Seq(Word) /\ Len(words') = 16
      /\ j' \in Nat /\ h' \in State /\ abcde' \in State
  BY HashBegins
<1>2. Asked'
  BY <1>1 DEF Asked, decoder
<1>3. HashTyped'
  BY <1>1 DEF HashTyped
<1>4. Recurrent(words')
  BY <1>1, NothingRecurs
<1>5. Len(words') >= 16
  BY <1>1
<1>6. QED BY <1>2, <1>3, <1>4, <1>5 DEF ComputeInv

LEMMA ComputeInvHolds == Spec => []ComputeInv
<1>1. Init => ComputeInv
  <2> SUFFICES ASSUME Init PROVE ComputeInv
    OBVIOUS
  <2>1. /\ i = 1 /\ ret = <<>> /\ stage = "text" /\ key = <<>>
        /\ blocks = <<>> /\ words = <<>> /\ j = 0 /\ abcde = H0 /\ h = H0
    BY DEF Init, Unread, Idle
  <2>2. job \in Jobs \union {Unasked}
    BY DEF Init
  <2>3. Asked
    BY <2>1, <2>2 DEF Asked
  <2>4. HashTyped
    BY <2>1, FirstState DEF HashTyped
  <2>5. ~Hashing /\ Len(words) = 0
    BY <2>1 DEF Hashing
  <2>6. QED BY <2>3, <2>4, <2>5 DEF ComputeInv, Recurrent
<1>2. ComputeInv /\ [Next]_vars => ComputeInv'
  <2> SUFFICES ASSUME ComputeInv, [Next]_vars
               PROVE  ComputeInv'
    OBVIOUS
  <2>0. Asked /\ HashTyped /\ (Hashing => Len(words) >= 16) /\ Recurrent(words)
    BY DEF ComputeInv
  <2>1. CASE UNCHANGED computer /\ i' \in Nat /\ ret' \in Seq(Byte)
    <3>1. Asked'
      BY <2>0, <2>1 DEF Asked, computer
    <3>2. HashTyped' /\ (Hashing' => Len(words') >= 16) /\ Recurrent(words')
      BY <2>0, <2>1 DEF HashTyped, Hashing, computer
    <3>3. QED BY <3>1, <3>2 DEF ComputeInv
  <2>2. CASE DecodeText
    <3>1. i' \in Nat /\ ret' \in Seq(Byte)
      <4>1. CASE Start
        BY <2>0, <4>1 DEF Start, Asked
      <4>2. CASE Decode
        BY <2>0, <4>2, DecodedBytes DEF Asked
      <4>3. QED BY <2>2, <4>1, <4>2 DEF DecodeText
    <3>2. QED BY <2>1, <2>2, <3>1 DEF DecodeText
  <2>3. CASE Totp
    <3>1. /\ job # Unasked /\ stage = "text" /\ stage' = "key"
          /\ job' = [job EXCEPT !.key = ret] /\ i' = i /\ ret' = ret /\ key' = key
          /\ blocks' = blocks /\ words' = words /\ j' = j /\ abcde' = abcde /\ h' = h
      BY <2>3 DEF Totp, qui
    <3>2. job \in [secret : Seq(Chars), key : Seq(Byte), counter : Nat,
                   digits : 0..9, expected : Nat]
      BY <2>0, <3>1, ConstantsAssumption DEF Asked, ConstantsAssumption
    <3>3. job'.key = ret /\ job'.counter \in Nat
      BY <3>1, <3>2
    <3>4. Asked'
      BY <2>0, <3>1, <3>3, SameBytes DEF Asked
    <3>5. HashTyped' /\ ~Hashing' /\ Recurrent(words')
      BY <2>0, <3>1 DEF HashTyped, Hashing
    <3>6. QED BY <3>4, <3>5 DEF ComputeInv
  <2>4. CASE ComputeTotp
    <3>0. stage # "text" /\ UNCHANGED decoder /\ Compute
      BY <2>4 DEF ComputeTotp
    <3>1. job.key \in Seq(Octet) /\ job.counter \in Nat /\ key \in Seq(Octet)
      BY <2>0, <3>0 DEF Asked
    <3>2. u64beToByteString(job.counter) \in Seq(Octet)
      BY <3>1, CounterBytes
    <3>3. ASSUME NEW k \in Seq(Octet), Len(k) <= BlockSize, Inner(PadKey(k))
          PROVE  ComputeInv'
      <4> DEFINE p == PadKey(k)
                 m == Masked(p, InnerPad) \o u64beToByteString(job.counter)
      <4>1. InnerPad \in Octet
        BY DEF InnerPad, Octet
      <4>2. p \in Seq(Octet) /\ Masked(p, InnerPad) \in Seq(Octet)
        BY <3>3, <4>1, KeyBytes
      <4>3. m \in Seq(Octet)
        BY <3>2, <4>2, TwoTexts
      <4>4. key' = p /\ job' = job /\ Hash("inner", m)
        BY <3>3 DEF Inner
      <4> HIDE DEF p, m
      <4>5. QED BY <2>0, <3>0, <4>2, <4>3, <4>4, BeginsInOrder
    <3>4. CASE ShortKey
      BY <3>1, <3>3, <3>4 DEF ShortKey
    <3>5. CASE LongKey
      <4>1. Hash("long key", job.key) /\ job' = job /\ key' = key
        BY <3>5 DEF LongKey
      <4>2. QED BY <2>0, <3>0, <3>1, <4>1, BeginsInOrder
    <3>6. CASE Schedule
      <4>1. /\ Hashing /\ words' = Append(words, NextWord(words))
            /\ job' = job /\ stage' = stage /\ key' = key /\ blocks' = blocks
            /\ j' = j /\ abcde' = abcde /\ h' = h
        BY <3>6 DEF Schedule
      <4>2. /\ words' \in Seq(Word) /\ Len(words') >= 16 /\ Recurrent(words')
        BY <2>0, <4>1, AddedWord DEF HashTyped
      <4>3. Asked'
        BY <2>0, <3>0, <4>1 DEF Asked, decoder
      <4>4. HashTyped'
        BY <2>0, <4>1, <4>2 DEF HashTyped
      <4>5. QED BY <4>2, <4>3, <4>4 DEF ComputeInv
    <3>7. CASE Round
      <4>1. /\ Hashing /\ Len(words) = 80 /\ j < 80
            /\ abcde' = <<Add(Add(Add(lrot32(abcde[1], 5),
                                      F(j, abcde[2], abcde[3], abcde[4])),
                                  Add(abcde[5], K(j))), words[j + 1]),
                          abcde[1], lrot32(abcde[2], 30), abcde[3], abcde[4]>>
            /\ j' = j + 1
            /\ job' = job /\ stage' = stage /\ key' = key /\ blocks' = blocks
            /\ words' = words /\ h' = h
        BY <3>7 DEF Round
      <4>2. j \in Nat /\ words[j + 1] \in Word /\ abcde \in State
        <5>1. j \in Nat /\ words \in Seq(Word) /\ abcde \in State
          BY <2>0 DEF HashTyped
        <5>2. j + 1 \in 1..Len(words)
          BY <4>1, <5>1
        <5>3. words[j + 1] \in Word
          BY <5>1, <5>2
        <5>4. QED BY <5>1, <5>3
      <4>3. abcde' \in State
        BY <4>1, <4>2, RoundTyped
      <4>4. Asked'
        BY <2>0, <3>0, <4>1 DEF Asked, decoder
      <4>5. HashTyped'
        BY <2>0, <4>1, <4>2, <4>3 DEF HashTyped
      <4>6. (Hashing' => Len(words') >= 16) /\ Recurrent(words')
        BY <2>0, <4>1 DEF Hashing
      <4>7. QED BY <4>4, <4>5, <4>6 DEF ComputeInv
    <3>8. CASE NextBlock
      <4>1. /\ blocks # <<>> /\ h' = Sum /\ abcde' = Sum
            /\ words' = Loaded(Head(blocks)) /\ blocks' = Tail(blocks) /\ j' = 0
            /\ job' = job /\ stage' = stage /\ key' = key
        BY <3>8 DEF NextBlock
      <4>2. Head(blocks) \in Block /\ Tail(blocks) \in Seq(Block)
        BY <2>0, <4>1 DEF HashTyped
      <4>3. words' \in Seq(Word) /\ Len(words') = 16
        BY <4>1, <4>2, LoadedBlock
      <4>4. Sum \in State
        BY <2>0, DigestBytes DEF HashTyped
      <4>5. Asked'
        BY <2>0, <3>0, <4>1 DEF Asked, decoder
      <4>6. HashTyped'
        BY <4>1, <4>2, <4>3, <4>4 DEF HashTyped
      <4>7. QED BY <4>3, <4>5, <4>6, NothingRecurs DEF ComputeInv
    <3>9. CASE KeyHashed
      <4>1. h \in State /\ abcde \in State
        BY <2>0 DEF HashTyped
      <4>2. Digest \in Seq(Octet) /\ Len(Digest) = 20
        BY <4>1, DigestBytes
      <4>3. Len(Digest) <= BlockSize
        BY <4>2 DEF BlockSize
      <4>4. QED BY <3>3, <3>9, <4>2, <4>3 DEF KeyHashed
    <3>10. CASE Outer
      <4> DEFINE m == Masked(key, OuterPad) \o Digest
      <4>1. Hash("outer", m) /\ job' = job /\ key' = key
        BY <3>10 DEF Outer
      <4>2. OuterPad \in Octet /\ <<>> \in Seq(Octet) /\ Len(<<>>) <= BlockSize
        BY DEF OuterPad, Octet, BlockSize
      <4>3. Masked(key, OuterPad) \in Seq(Octet)
        BY <3>1, <4>2, KeyBytes
      <4>4. Digest \in Seq(Octet)
        BY <2>0, DigestBytes DEF HashTyped
      <4>5. m \in Seq(Octet)
        BY <4>3, <4>4, TwoTexts
      <4> HIDE DEF m
      <4>6. QED BY <2>0, <3>0, <3>1, <4>1, <4>5, BeginsInOrder
    <3>11. CASE Done
      <4>1. /\ stage' = "done" /\ job' = job /\ blocks' = blocks /\ words' = words /\ j' = j
            /\ abcde' = abcde /\ h' = h /\ key' = key
        BY <3>11 DEF Done
      <4>2. Asked'
        BY <2>0, <3>0, <4>1 DEF Asked, decoder
      <4>3. HashTyped' /\ ~Hashing' /\ Recurrent(words')
        BY <2>0, <4>1 DEF HashTyped, Hashing
      <4>4. QED BY <4>2, <4>3 DEF ComputeInv
    <3>12. QED BY <3>0, <3>4, <3>5, <3>6, <3>7, <3>8, <3>9, <3>10, <3>11 DEF Compute
  <2>5. CASE UNCHANGED vars
    <3>1. UNCHANGED computer /\ i' \in Nat /\ ret' \in Seq(Byte)
      BY <2>0, <2>5 DEF vars, decoder, Asked
    <3>2. QED BY <2>1, <3>1
  <2>6. QED BY <2>2, <2>3, <2>4, <2>5 DEF Next
<1>3. QED BY <1>1, <1>2, PTL DEF Spec

\* The words of every block, of every key and message, are those of SHA-1's
\* recurrence, although from the thirty-third on sha1 looks twice as far back and
\* rotates by two.
THEOREM ScheduleCorrect == Spec => []ScheduleIsSHA1
<1>1. ComputeInv => ScheduleIsSHA1
  <2> SUFFICES ASSUME ComputeInv, Len(words) > 16
               PROVE  AsExpected(words, Len(words))
    BY DEF ScheduleIsSHA1, AsExpected, Mix
  <2>1. words \in Seq(Word) /\ Recurrent(words)
    BY DEF ComputeInv, HashTyped
  <2>2. Len(words) \in 17..Len(words)
    BY <2>1
  <2>3. QED BY <2>1, <2>2 DEF Recurrent
<1>2. QED BY <1>1, ComputeInvHolds, PTL

-----------------------------------------------------------------------------
(***************************************************************************)
(* The digits that are entered.                                            *)
(***************************************************************************)

\* Six digits, zeros first, are those of the number.
LEMMA EntryOfCode ==
  ASSUME NEW p \in Nat, p < 1000000
  PROVE  /\ Entry(p) \in [1..6 -> 0..9]
         /\ p = 100000 * Entry(p)[1] + 10000 * Entry(p)[2] + 1000 * Entry(p)[3]
                  + 100 * Entry(p)[4] + 10 * Entry(p)[5] + Entry(p)[6]
<1>1. /\ Tens[1] = 1 /\ Tens[2] = 10 /\ Tens[3] = 100 /\ Tens[4] = 1000
      /\ Tens[5] = 10000 /\ Tens[6] = 100000
  BY DEF Tens
<1>2. /\ Entry(p)[1] = (p \div 100000) % 10 /\ Entry(p)[2] = (p \div 10000) % 10
      /\ Entry(p)[3] = (p \div 1000) % 10 /\ Entry(p)[4] = (p \div 100) % 10
      /\ Entry(p)[5] = (p \div 10) % 10 /\ Entry(p)[6] = p % 10
  BY <1>1, SMTT(20) DEF Entry
<1>3. ASSUME NEW k \in 1..6
      PROVE  (p \div Tens[7 - k]) % 10 \in 0..9
  <2>1. Tens[7 - k] \in {1, 10, 100, 1000, 10000, 100000}
    BY <1>1
  <2>2. \A t \in {1, 10, 100, 1000, 10000, 100000} : (p \div t) % 10 \in 0..9
    OBVIOUS
  <2>3. QED BY <2>1, <2>2
<1>4. Entry(p) \in [1..6 -> 0..9]
  BY <1>3 DEF Entry
<1>5. p = 100000 * ((p \div 100000) % 10) + 10000 * ((p \div 10000) % 10)
            + 1000 * ((p \div 1000) % 10) + 100 * ((p \div 100) % 10)
            + 10 * ((p \div 10) % 10) + (p % 10)
  <2> DEFINE a == p \div 10
             b == p \div 100
             c == p \div 1000
             d == p \div 10000
             e == p \div 100000
  <2>1. b = a \div 10 /\ c = b \div 10 /\ d = c \div 10 /\ e = d \div 10
    BY SMTT(20)
  <2>2. a \in Nat /\ b \in Nat /\ c \in Nat /\ d \in Nat /\ e \in 0..9
    BY SMTT(20)
  <2>3. p = 10 * a + (p % 10)
    BY SMTT(20)
  <2> HIDE DEF a, b, c, d, e
  <2>4. /\ a = 10 * b + (a % 10) /\ b = 10 * c + (b % 10) /\ c = 10 * d + (c % 10)
        /\ d = 10 * e + (d % 10) /\ e % 10 = e
    BY <2>1, <2>2, SMTT(20)
  <2>5. p = 100000 * (e % 10) + 10000 * (d % 10) + 1000 * (c % 10)
              + 100 * (b % 10) + 10 * (a % 10) + (p % 10)
    BY <2>2, <2>3, <2>4, SMTT(20)
  <2>6. QED BY <2>5, SMTT(20) DEF a, b, c, d, e
<1>6. QED BY <1>2, <1>4, <1>5, SMTT(20)

\* A digest is long enough for every offset, and the code below a million.
LEMMA TruncatedCode ==
  ASSUME NEW d \in Seq(Octet), Len(d) = 20
  PROVE  Truncate(d, 6) \in Nat /\ Truncate(d, 6) < 1000000
<1> DEFINE offset == d[Len(d)] % 16
           top    == d[offset + 1]
           second == d[offset + 2]
           third  == d[offset + 3]
           last   == d[offset + 4]
<1>1. offset \in 0..15
  <2>1. 20 \in 1..Len(d)
    OBVIOUS
  <2>2. d[20] \in Octet
    BY <2>1, ByteOfText
  <2>3. \A x \in Octet : x % 16 \in 0..15
    BY DEF Octet
  <2>4. offset = d[20] % 16
    OBVIOUS
  <2> HIDE DEF offset
  <2>5. QED BY <2>2, <2>3, <2>4
<1> HIDE DEF offset
<1>2. /\ offset + 1 \in 1..20 /\ offset + 2 \in 1..20
      /\ offset + 3 \in 1..20 /\ offset + 4 \in 1..20
  BY <1>1
<1>3. top \in 0..255 /\ second \in 0..255 /\ third \in 0..255 /\ last \in 0..255
  <2>1. \A k \in 1..20 : d[k] \in 0..255
    BY ByteOfText DEF Octet
  <2>2. QED BY <1>2, <2>1
<1>4. Tens[6 + 1] = 1000000
  BY DEF Tens
<1>5. Truncate(d, 6)
        = ((top % 128) * 16777216 + second * 65536 + third * 256 + last) % 1000000
  BY <1>4, SMTT(20) DEF Truncate, offset
<1> HIDE DEF top, second, third, last
<1>6. (top % 128) * 16777216 + second * 65536 + third * 256 + last \in Nat
  BY <1>3, SMTT(20)
<1>7. QED BY <1>5, <1>6, SMTT(20)

\* What is entered into the PIN window is the password in six digits, the leading
\* zeros included, whatever secret and time it is computed of.
THEOREM DigitsEntered == Spec => []PinIsCode
<1>1. Init => PinIsCode
  BY DEF Init, PinIsCode
<1>2. ComputeInv /\ PinIsCode /\ [Next]_vars => PinIsCode'
  <2> SUFFICES ASSUME ComputeInv, PinIsCode, [Next]_vars
               PROVE  PinIsCode'
    OBVIOUS
  <2>1. CASE UNCHANGED computer
    BY <2>1 DEF PinIsCode, computer
  <2>2. CASE stage' # "done"
    BY <2>2 DEF PinIsCode
  <2>3. CASE DecodeText
    BY <2>1, <2>3 DEF DecodeText
  <2>4. CASE Totp
    BY <2>2, <2>4 DEF Totp
  <2>5. CASE ComputeTotp
    <3>0. Compute
      BY <2>5 DEF ComputeTotp
    <3>1. CASE Done
      <4> SUFFICES ASSUME job'.digits = 6
                   PROVE  /\ pincode' \in [1..6 -> 0..9]
                          /\ code' = 100000 * pincode'[1] + 10000 * pincode'[2]
                                      + 1000 * pincode'[3] + 100 * pincode'[4]
                                      + 10 * pincode'[5] + pincode'[6]
        BY DEF PinIsCode
      <4>1. h \in State /\ abcde \in State
        BY DEF ComputeInv, HashTyped
      <4>2. Digest \in Seq(Octet) /\ Len(Digest) = 20
        BY <4>1, DigestBytes
      <4>3. code' = Truncate(Digest, 6) /\ pincode' = Entry(code')
        BY <3>1 DEF Done
      <4>4. code' \in Nat /\ code' < 1000000
        BY <4>2, <4>3, TruncatedCode
      <4>5. QED BY <4>3, <4>4, EntryOfCode
    <3>2. CASE ShortKey
      BY <2>2, <3>2 DEF ShortKey, Inner, Hash
    <3>3. CASE LongKey
      BY <2>2, <3>3 DEF LongKey, Hash
    <3>4. CASE KeyHashed
      BY <2>2, <3>4 DEF KeyHashed, Inner, Hash
    <3>5. CASE Outer
      BY <2>2, <3>5 DEF Outer, Hash
    <3>6. CASE Schedule
      BY <2>2, <3>6 DEF Schedule, Hashing
    <3>7. CASE Round
      BY <2>2, <3>7 DEF Round, Hashing
    <3>8. CASE NextBlock
      BY <2>2, <3>8 DEF NextBlock, Hashing
    <3>9. QED BY <3>0, <3>1, <3>2, <3>3, <3>4, <3>5, <3>6, <3>7, <3>8 DEF Compute
  <2>6. CASE UNCHANGED vars
    BY <2>1, <2>6 DEF vars
  <2>7. QED BY <2>3, <2>4, <2>5, <2>6 DEF Next
<1>3. QED BY <1>1, <1>2, ComputeInvHolds, PTL DEF Spec
=============================================================================
