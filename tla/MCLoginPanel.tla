---------------------------- MODULE MCLoginPanel ----------------------------
(* LoginPanel with an account and a password that fit the buffer, and a text *)
(* that does not: what is read for it may be any text, or none.              *)
EXTENDS LoginPanel

CONSTANTS acc, pwd, long

MCTexts   == {acc, pwd, long}
MCReading == [t \in MCTexts |-> IF t = long THEN {acc, long, Empty} ELSE {t}]
MCTyped   == {[account |-> acc, password |-> Empty], [account |-> acc, password |-> pwd]}
=============================================================================
