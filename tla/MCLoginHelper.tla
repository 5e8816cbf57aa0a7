--------------------------- MODULE MCLoginHelper ---------------------------
(* LoginHelper with one PIN and no OTP secret, one text for accounts and     *)
(* passwords, two launches and two login requests in each.  Which of the two *)
(* variables holds the PIN is PinPanel's matter: here it is the first.       *)
EXTENDS LoginHelper

CONSTANTS tA, acc

Digits(x) == [i \in 1..6 |-> x]

MCTexts        == {tA}
MCSecrets      == {}
MCReading      == [t \in MCTexts |-> {Digits(1)}]
MCTotp         == [s \in MCSecrets |-> [w \in 0..MaxTime |-> {Digits(2)}]]
MCUserPins     == {Digits(3)}
MCLayouts      == {[b \in 0..9 |-> 9 - b]}
MCLoginTexts   == {acc}
MCLoginReading == [t \in MCLoginTexts |-> {t}]
MCTyped        == {[account |-> acc, password |-> acc]}

MCInit == Init /\ given["BNS_PROFILE_PIN"] = Unset
MCSpec == MCInit /\ [][Next]_vars
=============================================================================
