--------------------------- MODULE MCWindowManager ---------------------------
(* A coarse screen for model checking WindowManager: 3 by 4 cells, title bars *)
(* one cell high with a one-cell button, a taskbar one cell high.             *)
EXTENDS WindowManager

Wide == [x |-> 0, y |-> 1, w |-> 3, h |-> 3]
Narrow == [x |-> 0, y |-> 1, w |-> 2, h |-> 1]

\* Two wide windows exhaust the RAM, the other choice fits.
MCAppRects == [n \in 0 .. 3 |-> CASE n = 0 -> {Wide} [] n = 1 -> {Wide, Narrow}
                                  [] OTHER -> {Narrow}]

MCPoints == {[x |-> a, y |-> b] : a \in {0, 1}, b \in {0, 3}}
==============================================================================
