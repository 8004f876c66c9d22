----------------------------- MODULE Calculator -----------------------------
(***************************************************************************)
(* apps/calculator.c: the state behind the buttons.  calc_mouse runs in    *)
(* the mouse handler.  A number is written as the sequence of its digits,  *)
(* with Minus in front of them if it is negative.                          *)
(***************************************************************************)
EXTENDS Numbers, Sequences, SequencesExt

CONSTANT MaxDigits        \* a digit is appended to fewer than these (15)

ASSUME CalculatorAssumption == MaxDigits \in Nat \ {0}

VARIABLES calc_display, pending_val, pending_op, new_entry

calcVars == <<calc_display, pending_val, pending_op, new_entry>>

Minus == 10
Digits[n \in Nat] == IF n < 10 THEN <<n>> ELSE Append(Digits[n \div 10], n % 10)

\* Mutant: the sign is forgotten.
int_to_strMut(n) == Digits[IF n < 0 THEN -n ELSE n]

int_to_str(n) == IF n < 0 THEN <<Minus>> \o Digits[-n] ELSE Digits[n]

\* The value of what has been read up to a character.
WithDigit(n, c) == IF c = Minus THEN n ELSE n * 10 + c
Value(s) == FoldLeft(WithDigit, 0, s)
str_to_int(s) == IF s[1] = Minus THEN -Value(s) ELSE Value(s)

CalcInit == /\ calc_display = <<0>> /\ pending_val = 0
            /\ pending_op = "none" /\ new_entry = TRUE

DigitButton(d) ==
  /\ calc_display' = CASE new_entry \/ calc_display = <<0>> -> <<d>>
                       [] ~new_entry /\ calc_display # <<0>> /\ Len(calc_display) < MaxDigits
                            -> Append(calc_display, d)
                       [] OTHER -> calc_display
  /\ new_entry' = FALSE
  /\ UNCHANGED <<pending_val, pending_op>>

Computed == CASE pending_op = "+" -> pending_val + str_to_int(calc_display)
              [] pending_op = "-" -> pending_val - str_to_int(calc_display)
              [] OTHER -> str_to_int(calc_display)

OperatorButton(o) ==
  /\ IF pending_op # "none" /\ ~new_entry
     THEN pending_val' = Computed /\ calc_display' = int_to_str(Computed)
     ELSE pending_val' = str_to_int(calc_display) /\ UNCHANGED calc_display
  /\ pending_op' = o /\ new_entry' = TRUE

EqualsButton ==
  /\ calc_display' = int_to_str(Computed)
  /\ pending_val' = 0 /\ pending_op' = "none" /\ new_entry' = TRUE

ClearButton == /\ calc_display' = <<0>>
               /\ pending_val' = 0 /\ pending_op' = "none" /\ new_entry' = TRUE

\* A click on a button; "." and the space between the buttons do nothing.
calc_mouse(Labels) ==
  \/ \E d \in Labels : DigitButton(d)
  \/ EqualsButton \/ ClearButton
  \/ UNCHANGED calcVars

-----------------------------------------------------------------------------
\* The calculator adds and subtracts: what it shows, read as a number, is what
\* Adder shows, whatever the digits went through (int_to_str, str_to_int).
Tens == Powers(10)

A == INSTANCE Adder WITH shown <- str_to_int(calc_display), held <- pending_val,
                         operator <- pending_op, fresh <- new_entry,
                         Limit <- Tens[MaxDigits - 1]
CalcImplements == A!Spec
=============================================================================
