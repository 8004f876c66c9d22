------------------------------- MODULE MCInput -------------------------------
(* A small screen; the second packet has bit 3 set in its other bytes, too, *)
(* and moves by more than the screen.                                       *)
EXTENDS Input

MCPackets == {<<9, 1, 255>>, <<8, 8, 248>>}
==============================================================================
