------------------------------- MODULE MCOtp --------------------------------
(* Otp on all byte strings of one byte, those of up to seven bytes from a few *)
(* and short texts of every kind of character with every length and place of  *)
(* padding; and with passwords: the vectors of libcppotp's own tests (otp.cpp, *)
(* TEST_OTP), whose key is the text 12345678901234567890, keys around the     *)
(* block size and of the length whose padding just needs one block more, and  *)
(* passwords with leading zeros.  What the tests do not list comes from an    *)
(* independent implementation.                                                *)
EXTENDS Otp

UpTo(n, S) == UNION {[1..k -> S] : k \in 0..n}

RfcKey == [n \in 1..20 |-> 48 + (n % 10)]
Run(n) == [k \in 1..n |-> k]

MCPlain == [1..1 -> Byte] \union UpTo(7, {0, 165}) \union UpTo(3, {1, 128, 255})
             \union {RfcKey, Run(64), Run(65), Run(120)}

MCArbitrary == UpTo(3, {3, 31, LowerCase + 1, Pad, Separator, Odd})
                 \union UpTo(10, {17, Pad}) \union UpTo(17, {29})

Vector(text, k, c, d, e) ==
  [secret |-> text, key |-> k, counter |-> c, digits |-> d, expected |-> e]

\* As it is encoded, and as it is copied from a site that groups the digits.
Encoded(k) == toBase32(k)
Grouped(k) == Spaced(Small(Unpad(Encoded(k))))

HotpVectors ==
  LET codes == <<755224, 287082, 359152, 969429, 338314,
                 254676, 287922, 162583, 399871, 520489>>
  IN  {Vector(Encoded(RfcKey), RfcKey, c, 6, codes[c + 1]) : c \in 0..9}

\* The times of the test, as totp divides them by its step of 30 seconds.
TotpVectors ==
  LET At(time, e) == Vector(Grouped(RfcKey), RfcKey, TimeValue(time, 0, 30), 8, e)
  IN  {At(59, 94287082), At(1111111109, 7081804), At(1111111111, 14050471),
       At(1234567890, 89005924), At(2000000000, 69279037),
       Vector(Grouped(RfcKey), RfcKey, 666666666, 8, 65353130)}

KeyVectors ==
  {Vector(Grouped(Run(64)), Run(64), 1, 6, 827617),
   Vector(Unpad(Encoded(Run(65))), Run(65), 1, 6, 425805),
   Vector(Small(Encoded(Run(120))), Run(120), 1, 6, 637367),
   Vector(<<>>, <<>>, 1, 6, 812658)}

ZeroVectors == {Vector(Encoded(RfcKey), RfcKey, 36, 6, 3784),
                Vector(Encoded(RfcKey), RfcKey, 44, 6, 152)}

MCJobs == HotpVectors \union TotpVectors \union KeyVectors \union ZeroVectors
=============================================================================
