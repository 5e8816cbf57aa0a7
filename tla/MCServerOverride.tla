-------------------------- MODULE MCServerOverride --------------------------
(* ServerOverride with a number the game also knows as a program id, one     *)
(* that does not fit sixteen bits, a word, and a text too long to be read.   *)
EXTENDS ServerOverride

CONSTANTS t302, t70000, tWord, tLong, gText

MCAddresses == {tWord, tLong}
MCNumerals  == {t302, t70000, tWord, tLong}
MCReading   == [t \in Texts |-> IF t = tLong THEN {t302, tWord, Empty} ELSE {t}]
MCStoi      == [t \in Texts \union {Empty} |->
                  IF t = t302 THEN 302 ELSE IF t = t70000 THEN 70000 ELSE NotANumber]
MCGameTexts == {gText}
MCGamePorts == {10100}
MCGameIds   == {302, 306, 400}
=============================================================================
