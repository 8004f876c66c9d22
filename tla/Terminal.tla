------------------------------ MODULE Terminal ------------------------------
(***************************************************************************)
(* The terminal, apps/terminal.c, and the shell behind it, shell/shell.c.  *)
(* terminal_key runs in an interrupt handler, and so does whatever the     *)
(* handlers print, because printf reaches terminal_write_char through the  *)
(* hook of vga_putc.  The main thread prints through the same function,    *)
(* load by load and store by store, with interrupts on.                    *)
(***************************************************************************)
EXTENDS Integers, Sequences, SequencesExt

CONSTANTS
  TERM_ROWS, TERM_COLS,
  CMD_SIZE,       \* the size of cmd_buffer (256)
  WordMax,        \* the longest command word (15)
  Words,          \* the four command words, each a sequence of characters
  Text,           \* what is printed: the banner, the replies, the log messages
  MaxPrints       \* bound: the messages of the main loop

Nul == ""
Newline == "\n"

\* What the shell replies are lines.
ASSUME TerminalAssumption ==
  /\ {TERM_ROWS, TERM_COLS, CMD_SIZE, WordMax} \subseteq Nat \ {0}
  /\ TERM_COLS > 1 /\ MaxPrints \in Nat
  /\ \A w \in DOMAIN Words : Len(Words[w]) \in 1 .. WordMax
  /\ Text \in [{"banner", "main", "click", "help", "reboot", "unknown"} -> Seq(STRING)]
  /\ \A x \in {"help", "reboot", "unknown"} :
       Text[x] # <<>> /\ Last(Text[x]) = Newline

Backspace == "BS"
Return == "\r"    \* from the serial port; a keyboard's Enter is a newline
Prompt == <<">", " ">>

VARIABLES
  term,       \* term_buffer, term_row, term_col; ghost: a store outside its row
  cmd,        \* cmd_buffer up to cmd_index
  pc, out, ch, r, k,   \* the main thread: statement, text, character, registers
  prints,
  off,        \* the shell has rebooted the machine
  erased,     \* ghost: what was erased behind cmd since a character was typed
  torn,       \* ghost: a handler printed where the main thread may not be cut
  alone       \* ghost: only keys, and no more than fit, since the last prompt

termVars == <<term, cmd, pc, out, ch, r, k, prints, off, erased, torn, alone>>

Row == [0 .. TERM_COLS -> STRING]
Blank == [c \in 0 .. TERM_COLS |-> Nul]
Terminated(row) == \E c \in 0 .. TERM_COLS : row[c] = Nul
NulAt(row) == CHOOSE c \in 0 .. TERM_COLS :
                row[c] = Nul /\ \A d \in 0 .. c - 1 : row[d] # Nul

-----------------------------------------------------------------------------
(* terminal_write_char, as a whole.                                        *)

Put(t, row, col, c) ==
  IF row < TERM_ROWS /\ col <= TERM_COLS
  THEN [t EXCEPT !.buffer[row][col] = c]
  ELSE [t EXCEPT !.outside = TRUE]

\* A row up is copied to its terminator only.
Scrolled(t) ==
  IF t.row < TERM_ROWS THEN t
  ELSE [t EXCEPT !.row = TERM_ROWS - 1,
         !.buffer = [i \in 0 .. TERM_ROWS - 1 |->
            IF i = TERM_ROWS - 1 THEN Blank
            ELSE [c \in 0 .. TERM_COLS |->
                    IF ~Terminated(@[i + 1]) \/ c <= NulAt(@[i + 1])
                    THEN @[i + 1][c] ELSE @[i][c]]]]

Printed(t, c) ==
  IF t.col < TERM_COLS
  THEN Put(Put([t EXCEPT !.col = @ + 1], t.row, t.col, c), t.row, t.col + 1, Nul)
  ELSE t

terminal_write_char(t, c) ==
  Scrolled(CASE c = Newline -> [t EXCEPT !.row = @ + 1, !.col = 0]
             [] c = Backspace -> [t EXCEPT !.col = IF @ > 0 THEN @ - 1 ELSE 0]
             [] OTHER -> Printed(t, c))

terminal_write_string(t, s) == FoldLeft(terminal_write_char, t, s)

terminal_clear(t) ==
  [t EXCEPT !.buffer = [i \in 0 .. TERM_ROWS - 1 |-> Blank], !.row = 0, !.col = 0]

-----------------------------------------------------------------------------
(* The shell.                                                              *)

SkipBlanks(s) == LET i == SelectInSeq(s, LAMBDA c : c # " ")
                 IN IF i = 0 THEN <<>> ELSE SubSeq(s, i, Len(s))

\* At most WordMax characters; the rest of a longer word becomes arguments.
FirstWord(s) == LET i == SelectInSeq(s, LAMBDA c : c = " ")
                    n == IF i = 0 THEN Len(s) ELSE i - 1
                IN SubSeq(s, 1, IF n < WordMax THEN n ELSE WordMax)

Command(line) == FirstWord(SkipBlanks(line))
Args(line) == LET s == SkipBlanks(line)
              IN SkipBlanks(SubSeq(s, Len(Command(line)) + 1, Len(s)))

\* The terminal after a line has been executed.
handle_line(t, line) ==
  LET command == Command(line)
  IN CASE command = <<>> -> t
       [] command = Words.help -> terminal_write_string(t, Text.help)
       [] command = Words.clear -> terminal_clear(t)
       [] command = Words.echo -> terminal_write_string(t, Append(Args(line), Newline))
       [] command = Words.reboot -> terminal_write_string(t, Text.reboot)
       [] OTHER -> terminal_write_string(t, Text.unknown)

-----------------------------------------------------------------------------
(* In the handlers.                                                        *)

\* A handler prints; the main thread goes on where it was.  It must not have
\* tested the column without having loaded it, nor have left the screen.
HandlerPrints ==
  /\ torn' = (torn \/ pc \in {"row", "col"} \/ term.row = TERM_ROWS)
  /\ UNCHANGED <<pc, out, ch, r, k, prints>>

\* The main thread is not inside a message.
MainQuiet == pc = "idle"
Fits(line) == Len(Prompt) + Len(line) <= TERM_COLS

Enter ==
  /\ term' = terminal_write_string(
               handle_line(terminal_write_char(term, Newline), cmd), Prompt)
  /\ cmd' = <<>> /\ erased' = <<>>
  /\ off' = (Command(cmd) = Words.reboot)
  /\ alone' = MainQuiet

\* Mutant: the screen is not told.
EraseMut ==
  /\ cmd # <<>>
  /\ cmd' = Front(cmd) /\ erased' = <<Last(cmd)>> \o erased
  /\ UNCHANGED <<term, off, alone>>

Erase ==
  /\ cmd # <<>>
  /\ cmd' = Front(cmd) /\ erased' = <<Last(cmd)>> \o erased
  /\ term' = terminal_write_char(term, Backspace)
  /\ UNCHANGED <<off, alone>>

Type(c) ==
  /\ Len(cmd) < CMD_SIZE - 1
  /\ cmd' = Append(cmd, c) /\ erased' = <<>>
  /\ term' = terminal_write_char(term, c)
  /\ alone' = (alone /\ Fits(cmd'))
  /\ UNCHANGED off

\* Other control characters are ignored, and so is Return.
terminal_key(c) ==
  IF c = Return THEN UNCHANGED termVars
  ELSE /\ HandlerPrints
       /\ CASE c = Newline -> Enter
            [] c = Backspace -> Erase
            [] OTHER -> Type(c)

\* A handler's message.
Log(s) ==
  /\ HandlerPrints
  /\ term' = terminal_write_string(term, s)
  /\ alone' = FALSE
  /\ UNCHANGED <<cmd, off, erased>>

-----------------------------------------------------------------------------
(* The main thread, in terminal_write_char.                                *)

KeepKeys == UNCHANGED <<cmd, off, erased, torn>>
At(here, there) == pc = here /\ pc' = there /\ KeepKeys

\* A message of the main loop.
Say == /\ At("idle", "putc") /\ prints < MaxPrints
       /\ prints' = prints + 1 /\ out' = Text.main /\ alone' = FALSE
       /\ UNCHANGED <<term, ch, r, k>>

Next_char ==
  /\ pc = "putc" /\ KeepKeys
  /\ IF out = <<>> THEN pc' = "idle" /\ UNCHANGED <<out, ch>>
     ELSE /\ ch' = Head(out) /\ out' = Tail(out)
          /\ pc' = IF ch' = Newline THEN "line" ELSE "test"
  /\ UNCHANGED <<term, r, k, prints, alone>>

KeepText == UNCHANGED <<out, ch, prints, alone>>

\* term_row++, a load and a store, and term_col = 0.
LoadLine == At("line", "add") /\ r' = term.row /\ UNCHANGED <<term, k>> /\ KeepText
AddLine == /\ At("add", "home") /\ term' = [term EXCEPT !.row = r + 1]
           /\ UNCHANGED <<r, k>> /\ KeepText
Home == /\ At("home", "check") /\ term' = [term EXCEPT !.col = 0]
        /\ UNCHANGED <<r, k>> /\ KeepText

\* Mutant: the last column is not kept for the terminator.
TestMut == /\ pc = "test" /\ KeepKeys
           /\ pc' = IF term.col <= TERM_COLS THEN "row" ELSE "check"
           /\ UNCHANGED <<term, r, k>> /\ KeepText

Test == /\ pc = "test" /\ KeepKeys
        /\ pc' = IF term.col < TERM_COLS THEN "row" ELSE "check"
        /\ UNCHANGED <<term, r, k>> /\ KeepText

\* term_buffer[term_row][term_col++] = c.
LoadRow == At("row", "col") /\ r' = term.row /\ UNCHANGED <<term, k>> /\ KeepText
LoadCol == At("col", "bump") /\ k' = term.col /\ UNCHANGED <<term, r>> /\ KeepText
Bump == /\ At("bump", "put") /\ term' = [term EXCEPT !.col = k + 1]
        /\ UNCHANGED <<r, k>> /\ KeepText
PutChar == /\ At("put", "row2") /\ term' = Put(term, r, k, ch)
           /\ UNCHANGED <<r, k>> /\ KeepText

\* term_buffer[term_row][term_col] = '\0'.
LoadRow2 == At("row2", "col2") /\ r' = term.row /\ UNCHANGED <<term, k>> /\ KeepText
LoadCol2 == At("col2", "nul") /\ k' = term.col /\ UNCHANGED <<term, r>> /\ KeepText
PutNul == /\ At("nul", "check") /\ term' = Put(term, r, k, Nul)
          /\ UNCHANGED <<r, k>> /\ KeepText

\* The scrolling; a handler that prints before it is over counts as torn.  The
\* registers are not used any more.
Check == /\ At("check", "putc") /\ term' = Scrolled(term)
         /\ ch' = Nul /\ r' = 0 /\ k' = 0
         /\ UNCHANGED <<out, prints, alone>>

Main == \/ Say \/ Next_char \/ LoadLine \/ AddLine \/ Home \/ Test \/ LoadRow \/ LoadCol
        \/ Bump \/ PutChar \/ LoadRow2 \/ LoadCol2 \/ PutNul \/ Check

\* terminal_init has set the hooks and is about to print the banner.
TerminalInit ==
  /\ term = [buffer |-> [i \in 0 .. TERM_ROWS - 1 |-> Blank], row |-> 0, col |-> 0,
             outside |-> FALSE]
  /\ cmd = <<>> /\ pc = "putc" /\ out = Text.banner \o Prompt /\ ch = Nul
  /\ r = 0 /\ k = 0 /\ prints = 0 /\ off = FALSE
  /\ erased = <<>> /\ torn = FALSE /\ alone = FALSE
=============================================================================
