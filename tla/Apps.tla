-------------------------------- MODULE Apps --------------------------------
(***************************************************************************)
(* The applications at work: keys go to the terminal or to the notepad,    *)
(* whichever has the focus, clicks to the calculator, which prints into    *)
(* the terminal, and the main loop prints there at the same time.  And     *)
(* printf by itself, with which all of them, and the loader, print.        *)
(***************************************************************************)
EXTENDS Terminal, Notepad, Calculator, Printf

CONSTANTS
  Keys,        \* what is typed
  DigitKeys,   \* the digit buttons that are clicked
  MaxInputs    \* bound: keys and clicks, by the application in use

\* Neither the keyboard nor the serial port sends a Nul (keyboard_handler_c), and
\* the figures on the buttons are figures (calc_mouse).
ASSUME AppsAssumption == Zero \notin Keys /\ DigitKeys \subseteq 0 .. 9

VARIABLES
  app,         \* the application in use; bound: one for a whole session
  inputs       \* keys and clicks so far

appsVars == <<termVars, notepadVars, calcVars, printfVars, app, inputs>>

KeepApps == UNCHANGED <<notepadVars, calcVars, printfVars>>

Input == /\ ~off /\ ~torn /\ inputs < MaxInputs[app]
         /\ inputs' = inputs + 1 /\ UNCHANGED app

\* IRQ1, with the focus on the terminal or the notepad.
TerminalKey == /\ app = "Terminal" /\ Input
               /\ \E c \in Keys : terminal_key(c)
               /\ KeepApps

NotepadKey == /\ app = "Notepad" /\ Input
              /\ \E c \in Keys : notepad_key(c)
              /\ UNCHANGED <<termVars, calcVars, printfVars>>

\* IRQ0: a character from the serial port is a key like others, but the Enter key
\* of the terminal at its other end is a Return.
timer ==
  \/ app = "Terminal" /\ Input /\ terminal_key(Return) /\ KeepApps
  \/ /\ app = "Notepad" /\ Input /\ notepad_key(Return)
     /\ UNCHANGED <<termVars, calcVars, printfVars>>

\* IRQ12: a click on the calculator prints a line, one on an operator two.
CalcClick ==
  /\ app = "Calculator" /\ Input
  /\ \/ calc_mouse(DigitKeys) /\ Log(Text.click)
     \/ \E o \in {"+", "-"} : OperatorButton(o) /\ Log(Text.click \o Text.click)
  /\ UNCHANGED <<notepadVars, printfVars>>

\* IRQ12: another window is minimized or restored, which prints a line.
Minimize == /\ app = "Terminal" /\ Input
            /\ Log(Text.click)
            /\ KeepApps

MainThread == /\ app \in DOMAIN MaxInputs /\ ~off /\ ~torn /\ Main
              /\ KeepApps /\ UNCHANGED <<app, inputs>>

Formatting == /\ KernelPrintf \/ LoaderPrintf
              /\ UNCHANGED <<termVars, notepadVars, calcVars, app, inputs>>

Init == /\ TerminalInit /\ NotepadInit /\ CalcInit /\ inputs = 0
        /\ \/ app \in DOMAIN MaxInputs /\ NoCall
           \/ app = "printf" /\ PrintfInit

Next == \/ TerminalKey \/ NotepadKey \/ timer \/ CalcClick \/ Minimize \/ MainThread
        \/ Formatting

AppsSpec == Init /\ [][Next]_appsVars

-----------------------------------------------------------------------------
(* Properties.                                                             *)

\* A handler may print into the terminal while the main thread does, in between
\* any two of its loads and stores but those that count as torn: no store goes
\* beyond a row, and every row keeps a terminator of its own, on which drawing
\* and scrolling rely (terminal_write_char); the command, too, leaves room for
\* its terminator (terminal_key).
ScreenIntact ==
  /\ ~torn => ~term.outside /\ \A i \in 0 .. TERM_ROWS - 1 : Terminated(term.buffer[i])
  /\ Len(cmd) < CMD_SIZE

\* As long as nobody else has printed, and the command has always fitted into its
\* row, the cursor stands behind the prompt and the command, whatever was typed,
\* erased and executed, and the row holds these and nothing else but the characters
\* erased since the last one typed: a backspace moves the cursor and leaves the
\* character on the screen, "visual" as it is called (terminal_key).
PromptShown ==
  alone /\ ~torn =>
    LET row == term.buffer[term.row]
        shown == Prompt \o cmd \o erased
    IN /\ term.col = Len(Prompt \o cmd)
       /\ \A i \in 1 .. Len(shown) : row[i - 1] = shown[i]
       /\ row[Len(shown)] = Nul

\* The buffer holds the text typed, with a terminator, and the cursor stands at
\* its end, so that insertion never moves anything out of the buffer (notepad_key).
TextKept ==
  /\ strlen(notepad_buffer) = Len(typed) /\ notepad_cursor = Len(typed)
  /\ \A i \in 1 .. Len(typed) : notepad_buffer[i - 1] = typed[i]
=============================================================================
