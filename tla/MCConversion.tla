--------------------------- MODULE MCConversion ----------------------------
(* Conversion with a few payloads: ints around zero, the doubles -1.5, 0.5, *)
(* 1.0 and 1.5, two strings, and two pointer words.                         *)
EXTENDS Conversion

MCInts == {-1, 0, 1}
MCHalves == {-3, 1, 2, 3}
MCStrs == {1, 2}
MCGarbage == {0, 40}
=============================================================================
