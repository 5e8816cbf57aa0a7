-------------------------------- MODULE Hotp --------------------------------
(***************************************************************************)
(* The one-time password: sha1 and hmacSha1 (libcppotp/sha1.cpp), hotp and *)
(* totp (libcppotp/otp.cpp), and the digits GetPin makes of it             *)
(* (LoginOtp.h).  SHA-1 adds a word to its schedule, or runs a round, to a *)
(* step.  A uint32_t is its four bytes, the most significant first, and    *)
(* arithmetic is modulo 2^32.                                              *)
(***************************************************************************)
EXTENDS Integers, Sequences, SequencesExt

Octet == 0..255

-----------------------------------------------------------------------------
(***************************************************************************)
(* uint32_t                                                                *)
(***************************************************************************)

Power == <<1, 2, 4, 8, 16, 32, 64, 128>>

\* Conjunction of the bits of two bytes, each at its place.
Set(x, p)     == (x \div p) % 2 = 1
Both(x, y, p) == IF Set(x, p) /\ Set(y, p) THEN p ELSE 0
AndByte ==
  [x \in Octet |-> [y \in Octet |->
     Both(x, y, 1) + Both(x, y, 2) + Both(x, y, 4) + Both(x, y, 8)
       + Both(x, y, 16) + Both(x, y, 32) + Both(x, y, 64) + Both(x, y, 128)]]

And(u, v) == [k \in 1..4 |-> AndByte[u[k]][v[k]]]
Or(u, v)  == [k \in 1..4 |-> u[k] + v[k] - AndByte[u[k]][v[k]]]
Xor(u, v) == [k \in 1..4 |-> u[k] + v[k] - 2 * AndByte[u[k]][v[k]]]
Not(u)    == [k \in 1..4 |-> 255 - u[k]]

Add(u, v) ==
  LET s4 == u[4] + v[4]
      s3 == u[3] + v[3] + s4 \div 256
      s2 == u[2] + v[2] + s3 \div 256
      s1 == u[1] + v[1] + s2 \div 256
  IN  <<s1 % 256, s2 % 256, s3 % 256, s4 % 256>>

\* Rotation to the left by a number of bits below 32.
lrot32(u, n) ==
  LET from(k) == u[((k - 1 + n \div 8) % 4) + 1]
      m       == Power[(n % 8) + 1]
  IN  [k \in 1..4 |-> ((from(k) * m) % 256) + ((from(k + 1) * m) \div 256)]

u32beToByteString(n) ==
  <<(n \div 16777216) % 256, (n \div 65536) % 256, (n \div 256) % 256, n % 256>>

u64beToByteString(n) ==
  u32beToByteString((n \div 65536) \div 65536) \o u32beToByteString(n)

\* The powers of ten below 2^32.
Tens == <<1, 10, 100, 1000, 10000, 100000, 1000000, 10000000, 100000000, 1000000000>>

-----------------------------------------------------------------------------
(***************************************************************************)
(* The computation.                                                        *)
(***************************************************************************)

VARIABLES
  job,       \* what is computed
  stage,     \* the hash being computed, or "done"
  blocks,    \* the padded message's blocks that are still to be hashed
  words,     \* the schedule of the current block
  j,         \* the round
  abcde,     \* a, b, c, d, e
  h,         \* h0 to h4
  key,       \* realKey, once it is 64 bytes long
  code,      \* the one-time password; -1 while there is none
  pincode    \* the six digits GetPin takes from its text, if it has six

BlockSize == 64

H0 == <<<<103, 69, 35, 1>>, <<239, 205, 171, 137>>, <<152, 186, 220, 254>>,
        <<16, 50, 84, 118>>, <<195, 210, 225, 240>>>>

Zeros(n) == [k \in 1..n |-> 0]

PadShort(msg) ==                        \* mutant: never a block of its own
  LET zeros == 55 - (Len(msg) % 64)
  IN  msg \o <<128>> \o Zeros(zeros) \o u64beToByteString(8 * Len(msg))

\* A byte 0x80, zeros up to eight bytes short of a block, the length in bits.
PadMessage(msg) ==
  LET zeros == (119 - (Len(msg) % 64)) % 64
  IN  msg \o <<128>> \o Zeros(zeros) \o u64beToByteString(8 * Len(msg))

Blocks(bstr) == [n \in 1..(Len(bstr) \div 64) |-> SubSeq(bstr, 64 * n - 63, 64 * n)]

\* A block's first sixteen words; the others follow one by one.
Loaded(chunk) == [n \in 1..16 |-> SubSeq(chunk, 4 * n - 3, 4 * n)]

NextWordOnce(w) ==                      \* mutant: the later words rotate once
  LET W(back) == w[Len(w) + 1 - back]
  IN  IF Len(w) < 32 THEN lrot32(Xor(Xor(W(3), W(8)), Xor(W(14), W(16))), 1)
      ELSE lrot32(Xor(Xor(W(6), W(16)), Xor(W(28), W(32))), 1)

\* The word that follows w: words 32 to 79 look twice as far back.
NextWord(w) ==
  LET W(back) == w[Len(w) + 1 - back]
  IN  IF Len(w) < 32 THEN lrot32(Xor(Xor(W(3), W(8)), Xor(W(14), W(16))), 1)
      ELSE lrot32(Xor(Xor(W(6), W(16)), Xor(W(28), W(32))), 2)

F(n, b, c, d) ==
  IF n < 20 THEN Or(And(b, c), And(Not(b), d))
  ELSE IF n \in 40..59 THEN Or(Or(And(b, c), And(b, d)), And(c, d))
  ELSE Xor(Xor(b, c), d)

K(n) == CASE n < 20      -> <<90, 130, 121, 153>>
          [] n \in 20..39 -> <<110, 217, 235, 161>>
          [] n \in 40..59 -> <<143, 27, 188, 220>>
          [] OTHER        -> <<202, 98, 193, 214>>

\* sha1(msg) begins: its first block is loaded.
Hash(name, msg) ==
  LET bs == Blocks(PadMessage(msg)) IN
  /\ stage' = name
  /\ blocks' = Tail(bs)
  /\ words' = Loaded(Head(bs))
  /\ j' = 0 /\ h' = H0 /\ abcde' = H0

Hashing == stage \in {"long key", "inner", "outer"}

Schedule ==
  /\ Hashing /\ Len(words) < 80
  /\ words' = Append(words, NextWord(words))
  /\ UNCHANGED <<job, stage, blocks, j, abcde, h, key, code, pincode>>

Round ==
  /\ Hashing /\ Len(words) = 80 /\ j < 80
  /\ LET a == abcde[1]  b == abcde[2]  c == abcde[3]  d == abcde[4]  e == abcde[5]
         tmp == Add(Add(Add(lrot32(a, 5), F(j, b, c, d)), Add(e, K(j))), words[j + 1])
     IN  abcde' = <<tmp, a, lrot32(b, 30), c, d>>
  /\ j' = j + 1
  /\ UNCHANGED <<job, stage, blocks, words, h, key, code, pincode>>

Sum == [n \in 1..5 |-> Add(h[n], abcde[n])]

NextBlock ==
  /\ Hashing /\ j = 80 /\ blocks # <<>>
  /\ h' = Sum /\ abcde' = Sum
  /\ words' = Loaded(Head(blocks)) /\ blocks' = Tail(blocks)
  /\ j' = 0
  /\ UNCHANGED <<job, stage, key, code, pincode>>

Digest == Sum[1] \o Sum[2] \o Sum[3] \o Sum[4] \o Sum[5]
Hashed == Hashing /\ j = 80 /\ blocks = <<>>

PadKey(k) == k \o Zeros(BlockSize - Len(k))

Masked(k, m) == [n \in DOMAIN k |-> k[n] + m - 2 * AndByte[k[n]][m]]
InnerPad == 54                          \* 0x36
OuterPad == 92                          \* 0x5c

\* hmacSha1: the key is a hash of itself when it is longer than a block; then
\* the inner hash, then the outer.
Inner(k) ==
  /\ key' = k
  /\ Hash("inner", Masked(k, InnerPad) \o u64beToByteString(job.counter))
  /\ UNCHANGED <<job, code, pincode>>

ShortKey == stage = "key" /\ Len(job.key) <= BlockSize /\ Inner(PadKey(job.key))

LongKey ==
  /\ stage = "key" /\ Len(job.key) > BlockSize
  /\ Hash("long key", job.key)
  /\ UNCHANGED <<job, key, code, pincode>>

KeyHashed == stage = "long key" /\ Hashed /\ Inner(PadKey(Digest))

Outer ==
  /\ stage = "inner" /\ Hashed
  /\ Hash("outer", Masked(key, OuterPad) \o Digest)
  /\ UNCHANGED <<job, key, code, pincode>>

TruncateFirst(hmac, digits) ==          \* mutant: the first four bytes
  ((hmac[1] % 128) * 16777216 + hmac[2] * 65536 + hmac[3] * 256 + hmac[4]) % Tens[digits + 1]

\* hotp: four bytes at the offset the last nibble gives, without the top bit,
\* modulo a power of ten.
Truncate(hmac, digits) ==
  LET offset == hmac[Len(hmac)] % 16
      Four(k) == hmac[offset + k]
      ret == (Four(1) % 128) * 16777216 + Four(2) * 65536 + Four(3) * 256 + Four(4)
  IN  ret % Tens[digits + 1]

\* totp: the counter is the number of whole steps since timeStart.
TimeValue(timeNow, timeStart, timeStep) == (timeNow - timeStart) \div timeStep

Unpadded(p) ==                                              \* mutant: "%-6d"
  LET n == CHOOSE k \in 1..6 : p < Tens[k + 1] /\ (k = 1 \/ p >= Tens[k])
  IN  [k \in 1..6 |-> IF k > n THEN 0 ELSE (p \div Tens[n - k + 1]) % 10]

\* GetPin: the characters of "%06d", less '0'.
Entry(p) == [k \in 1..6 |-> (p \div Tens[7 - k]) % 10]

Done ==
  /\ stage = "outer" /\ Hashed
  /\ code' = Truncate(Digest, job.digits)
  /\ pincode' = IF job.digits = 6 THEN Entry(code') ELSE <<>>
  /\ stage' = "done"
  /\ UNCHANGED <<job, blocks, words, j, abcde, h, key>>

\* Nothing is computed yet.
Idle ==
  /\ blocks = <<>> /\ words = <<>> /\ j = 0
  /\ abcde = H0 /\ h = H0 /\ key = <<>> /\ code = -1 /\ pincode = <<>>

Compute == ShortKey \/ LongKey \/ Schedule \/ Round \/ NextBlock \/ KeyHashed \/ Outer \/ Done

-----------------------------------------------------------------------------
(***************************************************************************)
(* Properties.                                                             *)
(***************************************************************************)

\* The shortened schedule is SHA-1's: every word after the sixteenth is the
\* one the standard's recurrence gives.
ScheduleIsSHA1 ==
  j = 0 /\ Len(words) > 16 =>
    LET n == Len(words) IN
    words[n] = lrot32(Xor(Xor(words[n - 3], words[n - 8]),
                          Xor(words[n - 14], words[n - 16])), 1)

\* The passwords of the RFC's vectors, which libcppotp's test prints.
CodesAsTested ==
  stage = "done" => code = job.expected

\* The digits entered into the PIN window are the password's, zeros first.
PinIsCode ==
  stage = "done" /\ job.digits = 6 =>
    /\ pincode \in [1..6 -> 0..9]
    /\ code = 100000 * pincode[1] + 10000 * pincode[2] + 1000 * pincode[3]
                + 100 * pincode[4] + 10 * pincode[5] + pincode[6]
=============================================================================
