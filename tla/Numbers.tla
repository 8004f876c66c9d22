------------------------------- MODULE Numbers -------------------------------
(* The powers of a number, for the width of a word and the places of a digit. *)
EXTENDS Integers

Powers(b) == LET power[n \in Nat] == IF n = 0 THEN 1 ELSE b * power[n - 1] IN power
=============================================================================
