------------------------------- MODULE Adder --------------------------------
(***************************************************************************)
(* What the calculator promises: sums and differences of whole numbers,    *)
(* with no word of how they are written.                                   *)
(***************************************************************************)
EXTENDS Integers

CONSTANT Limit     \* no digit is added to a number from here on

VARIABLES shown, held, operator, fresh

Init == shown = 0 /\ held = 0 /\ operator = "none" /\ fresh = TRUE

Result == CASE operator = "+" -> held + shown
            [] operator = "-" -> held - shown
            [] OTHER -> shown

\* A digit begins a number or makes it ten times as large.
Digit(d) ==
  /\ shown' = CASE fresh -> d
                [] ~fresh /\ shown >= Limit -> shown
                [] OTHER -> 10 * shown + d
  /\ fresh' = FALSE
  /\ UNCHANGED <<held, operator>>

\* An operator computes what is pending, if a number has been entered for it.
Operator(o) ==
  /\ held' = IF fresh THEN shown ELSE Result
  /\ shown' = held'
  /\ operator' = o /\ fresh' = TRUE

Equals == shown' = Result /\ held' = 0 /\ operator' = "none" /\ fresh' = TRUE

Clear == shown' = 0 /\ held' = 0 /\ operator' = "none" /\ fresh' = TRUE

Next == \/ \E d \in 0 .. 9 : Digit(d)
        \/ \E o \in {"+", "-"} : Operator(o)
        \/ Equals \/ Clear

Spec == Init /\ [][Next]_<<shown, held, operator, fresh>>
=============================================================================
