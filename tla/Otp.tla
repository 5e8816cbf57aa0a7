-------------------------------- MODULE Otp ---------------------------------
(***************************************************************************)
(* The one-time password as GetPin computes it (LoginOtp.h): the secret's  *)
(* text is decoded (Base32), what is decoded is the key of the password    *)
(* (Hotp), and the password's digits are what is entered.  A text whose    *)
(* password is not asked for is only decoded.                              *)
(***************************************************************************)
EXTENDS Base32, Hotp

CONSTANTS
  Jobs,         \* passwords that are known: the text of a secret, its bytes, a
                \* counter, a number of digits, the password
  Unasked       \* no password is asked for

ASSUME ConstantsAssumption ==
  /\ Plain \subseteq Seq(Byte)
  /\ Arbitrary \subseteq Seq(Chars)
  /\ Jobs \subseteq [secret : Seq(Chars), key : Seq(Byte), counter : Nat,
                     digits : 0..9, expected : Nat]
  /\ \A v \in Jobs : v.secret \in Written(toBase32(v.key))
  /\ Unasked \notin Jobs

decoder  == <<origin, secret, newstr, i, ret, phase>>
computer == <<job, stage, blocks, words, j, abcde, h, key, code, pincode>>
vars     == <<decoder, computer>>

-----------------------------------------------------------------------------
\* fromUnpaddedBase32 throws out of GetPin, and nothing is computed, or returns.
DecodeText == (Start \/ Decode) /\ UNCHANGED computer

Terminated == ret \o <<0>>               \* mutant: the text's end is part of the key

qui == ret

\* totp is called with what is decoded.
Totp ==
  /\ phase = "done" /\ stage = "text" /\ job # Unasked
  /\ job' = [job EXCEPT !.key = qui]
  /\ stage' = "key" /\ phase' = "used"
  /\ UNCHANGED <<origin, secret, newstr, i, ret>>
  /\ UNCHANGED <<blocks, words, j, abcde, h, key, code, pincode>>

ComputeTotp == stage # "text" /\ Compute /\ UNCHANGED decoder

Init ==
  /\ \/ Given /\ job = Unasked
     \/ \E v \in Jobs : origin = <<v.key>> /\ secret = v.secret /\ job = v
  /\ stage = "text"
  /\ Unread /\ Idle

Next == DecodeText \/ Totp \/ ComputeTotp

Spec == Init /\ [][Next]_vars
=============================================================================
