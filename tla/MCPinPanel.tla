----------------------------- MODULE MCPinPanel -----------------------------
(* PinPanel with two proper PINs, a text whose first character reads as the  *)
(* "none" mark of pincode, one that reads as the "never" mark, a text of two *)
(* characters, a good secret, one that does not decode, and one that is too  *)
(* long to be read: whatever lies in the buffer may decode or not.           *)
EXTENDS PinPanel

CONSTANTS tA, tB, tSlash, tDot, tShort, sGood, sBad, sLong

Full(x) == [i \in Pos |-> (x + i) % 10]

MCTexts     == {tA, tB, tSlash, tDot, tShort}
MCSecrets   == {sGood, sBad, sLong}
MCMalformed == {sBad, sLong}
MCReading   ==
  [t \in MCTexts |->
     CASE t = tA     -> {Full(0)}
       [] t = tB     -> {Full(5)}
       [] t = tSlash -> {[Full(0) EXCEPT ![1] = -1]}
       [] t = tDot   -> {[Full(0) EXCEPT ![1] = -2]}
       [] t = tShort -> {[i \in Pos |-> IF i < 3 THEN i ELSE IF i = 3 THEN -48 ELSE x]
                           : x \in {-48, 7}}]
MCTotp      ==
  [s \in MCSecrets |-> [w \in 0..MaxTime |->
     CASE s = sGood -> {[i \in Pos |-> w]}
       [] s = sBad  -> {}
       [] s = sLong -> {Full(3), Full(4)}]]
MCUserPins  == {Full(2)}
MCLayouts   == {[b \in Buttons |-> (b + 3) % 10]}
=============================================================================
