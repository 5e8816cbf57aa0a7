------------------------------- MODULE Base32 -------------------------------
(***************************************************************************)
(* The OTP secret: normalizedBase32String (totp.h), fromUnpaddedBase32 and *)
(* its inverse toBase32 (libcppotp/bytes.cpp).  A character is a number:   *)
(* the value of the digit it stands for, that plus LowerCase for a small   *)
(* letter, or one of Pad, Separator and Odd.  The decoder's loops run a    *)
(* chunk of eight characters to a step; a chunk is its forty bits.         *)
(***************************************************************************)
EXTENDS Integers, Sequences, FiniteSets, SequencesExt

CONSTANTS
  Plain,        \* the byte strings that are encoded and decoded again
  Arbitrary     \* other texts a secret may be given as

Byte      == 0..255
Letters   == 0..25                \* A to Z
Digits    == 0..31                \* A to Z, 2 to 7
LowerCase == 100
Pad       == 200                  \* =
Separator == 201                  \* a blank, a line feed, a hyphen
Odd       == 202                  \* any other character

\* What a text is made of.
Chars == Digits \union {LowerCase + d : d \in Letters} \union {Pad, Separator, Odd}

VARIABLES
  origin,     \* the byte string the secret encodes, or none
  secret,     \* the text of the secret
  newstr,     \* the text that is decoded
  i,          \* where the next chunk begins
  ret,        \* the bytes decoded so far
  phase       \* what fromUnpaddedBase32 is doing, or "used": its caller has gone on

-----------------------------------------------------------------------------
(***************************************************************************)
(* A chunk's forty bits, as two numbers of twenty: eight digits of five    *)
(* bits, or five bytes, are shifted in and out.                            *)
(***************************************************************************)

Twenty(a, b, c, d) == 32768 * a + 1024 * b + 32 * c + d

FromDigits(v) == <<Twenty(v[1], v[2], v[3], v[4]), Twenty(v[5], v[6], v[7], v[8])>>

FromBytes(bs) == <<4096 * bs[1] + 16 * bs[2] + bs[3] \div 16,
                   65536 * (bs[3] % 16) + 256 * bs[4] + bs[5]>>

ToDigits(whole) ==
  <<(whole[1] \div 32768) % 32, (whole[1] \div 1024) % 32, (whole[1] \div 32) % 32,
    whole[1] % 32,
    (whole[2] \div 32768) % 32, (whole[2] \div 1024) % 32, (whole[2] \div 32) % 32,
    whole[2] % 32>>

ToBytes(whole) ==
  <<(whole[1] \div 4096) % 256, (whole[1] \div 16) % 256,
    16 * (whole[1] % 16) + ((whole[2] \div 65536) % 16),
    (whole[2] \div 256) % 256, whole[2] % 256>>

-----------------------------------------------------------------------------
(***************************************************************************)
(* toBase32                                                                *)
(***************************************************************************)

\* putchars
PutChars == [n \in 1..5 |-> CASE n = 1 -> 2 [] n = 2 -> 4 [] n = 3 -> 5 [] n = 4 -> 7 [] n = 5 -> 8]

\* What follows the last byte in the chunk is zeros, and padding in its text.
bytesToB32Chunk(bs) ==
  LET whole == FromBytes([k \in 1..5 |-> IF k <= Len(bs) THEN bs[k] ELSE 0])
  IN  [k \in 1..8 |-> IF k <= PutChars[Len(bs)] THEN ToDigits(whole)[k] ELSE Pad]

toBase32(bs) ==
  LET chunks == (Len(bs) + 4) \div 5
      Chunk(c) == SubSeq(bs, 5 * c - 4, IF 5 * c > Len(bs) THEN Len(bs) ELSE 5 * c)
  IN  [k \in 1..(8 * chunks) |->
         bytesToB32Chunk(Chunk(((k - 1) \div 8) + 1))[((k - 1) % 8) + 1]]

-----------------------------------------------------------------------------
(***************************************************************************)
(* normalizedBase32String and fromUnpaddedBase32                           *)
(***************************************************************************)

Upper(c) == IF c \in {LowerCase + d : d \in Letters} THEN c - LowerCase ELSE c

SameCase(text) == SelectSeq(text, LAMBDA c : c # Separator)   \* mutant: case is kept

\* The places of a text that are not skipped, and the n-th of them.
Kept(text)    == {k \in DOMAIN text : text[k] # Separator}
Rank(text, k) == Cardinality({m \in Kept(text) : m <= k})
Nth(text, n)  == CHOOSE k \in Kept(text) : Rank(text, k) = n

normalizedBase32String(text) ==
  [n \in 1..Cardinality(Kept(text)) |-> Upper(text[Nth(text, n)])]

Padded(text) == text \o [k \in 1..((8 - (Len(text) % 8)) % 8) |-> Pad]

PadCount(str) == Cardinality({k \in DOMAIN str : str[k] = Pad})

LaxCount ==                  \* mutant: any number of padding characters will do
  [p \in 0..8 |-> CASE p = 0 -> 5 [] p \in {1, 2} -> 4 [] p = 3 -> 3 [] p \in {4, 5} -> 2
                    [] OTHER -> 1]

\* finalcount, by the number of padding characters
FinalCount == [p \in {0, 1, 3, 4, 6} |->
                 CASE p = 0 -> 5 [] p = 1 -> 4 [] p = 3 -> 3 [] p = 4 -> 2 [] p = 6 -> 1]

ThrowsOnCounts(str) ==                            \* mutant: padding in the middle
  (\E k \in 1..8 : str[k] \notin Digits \union {Pad}) \/ PadCount(str) \notin DOMAIN FinalCount

\* b32ChunkToBytes throws: on a character that is no digit, on one that
\* follows padding, and on a number of padding characters no chunk has.
ChunkThrows(str) ==
  \/ \E k \in 1..8 : str[k] \notin Digits \union {Pad}
  \/ \E k \in 2..8 : str[k] # Pad /\ str[k - 1] = Pad
  \/ PadCount(str) \notin DOMAIN FinalCount

b32ChunkToBytes(str) ==
  LET value == [k \in 1..8 |-> IF str[k] = Pad THEN 0 ELSE str[k]]
  IN  SubSeq(ToBytes(FromDigits(value)), 1, FinalCount[PadCount(str)])

Start ==
  /\ phase = "start"
  /\ newstr' = Padded(normalizedBase32String(secret))
  /\ phase' = "decode"
  /\ UNCHANGED <<origin, secret, i, ret>>

Decode ==
  /\ phase = "decode"
  /\ IF i > Len(newstr)
     THEN phase' = "done" /\ UNCHANGED <<i, ret>>
     ELSE LET chunk == SubSeq(newstr, i, i + 7)
          IN IF ChunkThrows(chunk)
             THEN phase' = "thrown" /\ UNCHANGED <<i, ret>>
             ELSE /\ ret' = ret \o b32ChunkToBytes(chunk)
                  /\ i' = i + 8
                  /\ UNCHANGED phase
  /\ UNCHANGED <<origin, secret, newstr>>

-----------------------------------------------------------------------------
\* The ways a secret is commonly written: padded or not, in small letters, and
\* with a separator after each character.
Unpad(text)   == SubSeq(text, 1, Len(text) - PadCount(text))
Small(text)   == [k \in DOMAIN text |-> IF text[k] \in Letters THEN text[k] + LowerCase
                                                              ELSE text[k]]
Spaced(text)  == [k \in 1..(2 * Len(text)) |-> IF k % 2 = 1 THEN text[(k + 1) \div 2]
                                                             ELSE Separator]
Written(text) == {text, Unpad(text), Small(text), Spaced(Small(Unpad(text)))}

Given ==
  \/ \E bytes \in Plain : origin = <<bytes>> /\ secret \in Written(toBase32(bytes))
  \/ origin = <<>> /\ secret \in Arbitrary

Unread == newstr = <<>> /\ i = 1 /\ ret = <<>> /\ phase = "start"

-----------------------------------------------------------------------------
(***************************************************************************)
(* Properties.                                                             *)
(***************************************************************************)

\* The bytes of an encoded secret come back, however it is written.
RoundTrip == origin # <<>> => phase # "thrown" /\ (phase = "done" => ret = origin[1])

\* The bits of numbers, the highest of each first.
BitOf(nums, width, k) ==
  LET place == <<1, 2, 4, 8, 16, 32, 64, 128>>
  IN  (nums[((k - 1) \div width) + 1] \div place[width - ((k - 1) % width)]) % 2

AllBits(nums, width) == [k \in 1..(width * Len(nums)) |-> BitOf(nums, width, k)]

\* The length a run of digits may have within its last chunk.
Fits(n) == n % 8 \in {0, 2, 4, 5, 7}

\* A text without padding is decoded if and only if it holds nothing but digits
\* and separators, as many as whole bytes take, and then every bit of every
\* whole byte is the text's.
DecodesDigits ==
  LET text == normalizedBase32String(secret) IN
  Pad \notin ToSet(secret) =>
    /\ phase = "thrown" => ToSet(text) \ Digits # {} \/ ~Fits(Len(text))
    /\ phase = "done" =>
         /\ ToSet(text) \subseteq Digits /\ Fits(Len(text))
         /\ AllBits(ret, 8) = SubSeq(AllBits(text, 5), 1, 8 * ((5 * Len(text)) \div 8))

\* Padding is accepted where the encoder writes it, at the end of a chunk and
\* in the numbers it writes: whatever is decoded, and whose bits past the last
\* byte are zero, the encoder writes the same, chunk by chunk.
PaddingAsEncoded ==
  i > 1 /\ phase # "used" =>
    LET chunk == SubSeq(newstr, i - 8, i - 1)
        again == bytesToB32Chunk(b32ChunkToBytes(chunk))
    IN  /\ \A k \in 1..8 : again[k] = Pad <=> chunk[k] = Pad
        /\ \A k \in 1..7 : chunk[k + 1] # Pad => again[k] = chunk[k]
=============================================================================
