----------------------------- MODULE MCMainLoop -----------------------------
(* The main loop with the geometry of the program.                         *)
EXTENDS MainLoop

Notepad == [x |-> 50, y |-> 50, w |-> 300, h |-> 200]
Terminal == [x |-> 400, y |-> 50, w |-> 320, h |-> 260]
Calculator == [x |-> 350, y |-> 100, w |-> 160, h |-> 200]
Snake == [x |-> 60, y |-> 60, w |-> 240, h |-> 190]
TaskMgr == [x |-> 100, y |-> 100, w |-> 200, h |-> 300]

\* The first two applications.
TwoApps == [n \in 0 .. 2 |-> IF n = 0 THEN {Notepad} ELSE {Terminal}]
AllApps == [n \in 0 .. 10 |-> CASE n = 0 -> {Notepad} [] n = 1 -> {Terminal}
              [] n = 2 -> {Calculator} [] n = 3 -> {Snake} [] OTHER -> {TaskMgr}]

\* Notepad's title, its minimize button, the first taskbar item.
UserPoints == {[x |-> 100, y |-> 40], [x |-> 340, y |-> 40], [x |-> 10, y |-> 590]}
NoPoints == {}
Minimize == [x |-> 335, y |-> 35]
Restore == [x |-> 15, y |-> 470]
=============================================================================
