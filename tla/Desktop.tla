------------------------------- MODULE Desktop -------------------------------
(***************************************************************************)
(* What the window manager promises: a set of open windows, those hidden   *)
(* kept in a tray in the order they were minimized, and at most one        *)
(* focused window, which is never hidden.                                  *)
(***************************************************************************)
EXTENDS Sequences, Functions

CONSTANTS Window, None

VARIABLES opened, tray, focus

Shown == opened \ Range(tray)

\* The focus after w has been hidden: unchanged, or passed on if anyone is left.
PassedOn(w) == IF focus # w THEN {focus}
               ELSE IF Shown = {w} THEN {None} ELSE Shown \ {w}

Init == opened = {} /\ tray = <<>> /\ focus = None

Open(w) == /\ w \notin opened
           /\ opened' = opened \cup {w} /\ focus' = w
           /\ UNCHANGED tray

Focus(w) == w \in Shown /\ focus' = w /\ UNCHANGED <<opened, tray>>

Unfocus == focus' = None /\ UNCHANGED <<opened, tray>>

Minimize(w) == /\ w \in Shown
               /\ tray' = Append(tray, w)
               /\ focus' \in PassedOn(w)
               /\ UNCHANGED opened

\* The sequence s without its i-th element.
Without(s, i) == [j \in 1 .. Len(s) - 1 |-> IF j < i THEN s[j] ELSE s[j + 1]]

Restore(w) == \E i \in DOMAIN tray :
                /\ tray[i] = w
                /\ tray' = Without(tray, i)
                /\ focus' = w
                /\ UNCHANGED opened

Next == \/ \E w \in Window : Open(w) \/ Focus(w) \/ Minimize(w) \/ Restore(w)
        \/ Unfocus

Spec == Init /\ [][Next]_<<opened, tray, focus>>
==============================================================================
