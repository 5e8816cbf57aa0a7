-------------------------- MODULE MCPatternSearch ---------------------------
(* PatternSearch with two digits: four bytes, and signatures of up to two    *)
(* masked bytes with a character to spare.                                   *)
EXTENDS PatternSearch
MCNibbles == {0, 1}
=============================================================================
