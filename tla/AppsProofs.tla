----------------------------- MODULE AppsProofs ------------------------------
(* Theorems about the applications for every size of the notepad's buffer, *)
(* of the terminal's screen and of its command line, of the numbers that   *)
(* are typed into the calculator, and of the formats that printf is given. *)
EXTENDS Apps, TLAPS, WellFoundedInduction, SequenceTheorems

\* The folds and the recursive functions of the model; tag is a parameter of theirs.
Writing == INSTANCE Recursion WITH Op <- LAMBDA tag, t, c : terminal_write_char(t, c)
Reading == INSTANCE Recursion WITH Op <- LAMBDA tag, n, c : WithDigit(n, c)
Figuring == INSTANCE Recursion
  WITH Op <- LAMBDA tag, f, n : IF n < 10 THEN <<n>> ELSE Append(f[n \div 10], n % 10)
Raising == INSTANCE Recursion
  WITH Op <- LAMBDA b, f, n : IF n = 0 THEN 1 ELSE b * f[n - 1]

-----------------------------------------------------------------------------
(* The notepad.                                                            *)

\* What can stand in the buffer before the terminator.
Characters == (STRING \cup Keys \cup {"\n"}) \ {Zero}

NotepadInv ==
  /\ notepad_buffer \in [Bytes -> Characters \cup {Zero}]
  /\ typed \in Seq(Characters) /\ Len(typed) < NOTEPAD_BUF_SIZE
  /\ notepad_cursor = Len(typed)
  /\ \A i \in 1 .. Len(typed) : notepad_buffer[i - 1] = typed[i]
  /\ notepad_buffer[Len(typed)] = Zero

\* strlen counts the characters before the first Nul.
LEMMA StrlenCounts ==
  ASSUME NEW b \in [Bytes -> Characters \cup {Zero}], NEW n \in Bytes,
         b[n] = Zero, \A i \in 0 .. n - 1 : b[i] # Zero
  PROVE  strlen(b) = n
<1>1. NOTEPAD_BUF_SIZE \in Nat /\ Bytes = 0 .. NOTEPAD_BUF_SIZE - 1
  BY NotepadAssumption DEF NotepadAssumption, Bytes
<1>. DEFINE first(i) == b[i] = Zero /\ \A j \in 0 .. i - 1 : b[j] # Zero
<1>2. first(n)
  OBVIOUS
<1>3. \A i \in Bytes : first(i) => i = n
  BY <1>1
<1>4. strlen(b) = CHOOSE i \in Bytes : first(i)
  BY DEF strlen
<1>. HIDE DEF first
<1>. QED BY <1>2, <1>3, <1>4

\* The length of the text is the number of characters typed.
LEMMA NotepadStrlen == NotepadInv => strlen(notepad_buffer) = Len(typed)
<1>. SUFFICES ASSUME NotepadInv PROVE strlen(notepad_buffer) = Len(typed)
  OBVIOUS
<1>1. Len(typed) \in Bytes
  BY NotepadAssumption DEF NotepadAssumption, NotepadInv, Bytes
<1>2. ASSUME NEW i \in 0 .. Len(typed) - 1 PROVE notepad_buffer[i] # Zero
  <2>1. i + 1 \in 1 .. Len(typed) /\ (i + 1) - 1 = i
    BY DEF NotepadInv
  <2>2. notepad_buffer[i] = typed[i + 1] /\ typed[i + 1] \in Characters
    BY <2>1 DEF NotepadInv
  <2>. QED BY <2>2 DEF Characters
<1>. QED BY <1>1, <1>2, StrlenCounts DEF NotepadInv

\* The notepad as it is set up.
LEMMA NotepadBegins == NotepadInit => NotepadInv
<1>. SUFFICES ASSUME NotepadInit PROVE NotepadInv
  OBVIOUS
<1>1. /\ Greeting \in Seq(Characters) /\ Len(Greeting) \in Nat
      /\ Len(Greeting) < NOTEPAD_BUF_SIZE /\ NOTEPAD_BUF_SIZE \in Nat
  <2>1. /\ Greeting \in Seq(STRING) /\ Len(Greeting) \in Nat
        /\ \A i \in 1 .. Len(Greeting) : Greeting[i] \in Characters
    BY NotepadAssumption DEF NotepadAssumption, Characters
  <2>2. Greeting \in Seq(Characters)
    BY <2>1
  <2>. QED BY <2>1, <2>2, NotepadAssumption DEF NotepadAssumption
<1>2. \A i \in 0 .. Len(Greeting) - 1 : Greeting[i + 1] \in Characters
  BY <1>1
<1>3. \A i \in Bytes : i < Len(Greeting) => i \in 0 .. Len(Greeting) - 1
  BY <1>1 DEF Bytes
<1>4. notepad_buffer \in [Bytes -> Characters \cup {Zero}]
  BY <1>2, <1>3 DEF NotepadInit
<1>5. \A i \in 1 .. Len(Greeting) : notepad_buffer[i - 1] = Greeting[i]
  BY <1>1 DEF NotepadInit, Bytes
<1>6. notepad_buffer[Len(Greeting)] = Zero
  BY <1>1 DEF NotepadInit, Bytes
<1>. QED BY <1>1, <1>4, <1>5, <1>6 DEF NotepadInit, NotepadInv

\* Backspace takes the last character.
LEMMA BackOneKeeps == NotepadInv /\ BackOne => NotepadInv'
<1>. SUFFICES ASSUME NotepadInv, BackOne PROVE NotepadInv'
  OBVIOUS
<1>. DEFINE L == Len(typed)
<1>1. /\ L \in Nat /\ L > 0 /\ L < NOTEPAD_BUF_SIZE /\ NOTEPAD_BUF_SIZE \in Nat
      /\ strlen(notepad_buffer) = L /\ notepad_cursor = L
  BY NotepadStrlen, NotepadAssumption DEF NotepadInv, BackOne, NotepadAssumption
<1>2. notepad_buffer' = [i \in Bytes |-> IF i \in L - 1 .. L - 1 THEN notepad_buffer[i + 1]
                                         ELSE notepad_buffer[i]]
  BY <1>1 DEF BackOne
<1>3. /\ notepad_buffer'[L - 1] = Zero
      /\ \A i \in 0 .. L - 2 : notepad_buffer'[i] = notepad_buffer[i]
  BY <1>1, <1>2 DEF Bytes, NotepadInv
<1>4. notepad_buffer' \in [Bytes -> Characters \cup {Zero}]
  BY <1>1, <1>2 DEF Bytes, NotepadInv
<1>5. /\ typed' \in Seq(Characters) /\ Len(typed') = L - 1
      /\ \A i \in 1 .. L - 1 : typed'[i] = typed[i]
  BY <1>1 DEF BackOne, NotepadInv
<1>6. \A i \in 1 .. L - 1 : notepad_buffer'[i - 1] = typed'[i]
  <2>. SUFFICES ASSUME NEW i \in 1 .. L - 1 PROVE notepad_buffer'[i - 1] = typed'[i]
    OBVIOUS
  <2>1. i - 1 \in 0 .. L - 2 /\ i \in 1 .. L
    BY <1>1
  <2>2. notepad_buffer[i - 1] = typed[i]
    BY <2>1 DEF NotepadInv
  <2>. QED BY <1>3, <1>5, <2>1, <2>2
<1>7. notepad_cursor' = L - 1
  BY <1>1 DEF BackOne
<1>. HIDE DEF L
<1>. QED BY <1>1, <1>3, <1>4, <1>5, <1>6, <1>7 DEF NotepadInv

\* A character is put behind the text, if there is room.
LEMMA InsertKeeps ==
  ASSUME NotepadInv, NEW c \in Characters, Insert(c)
  PROVE  NotepadInv'
<1>. DEFINE L == Len(typed)
<1>1. /\ L \in Nat /\ L < NOTEPAD_BUF_SIZE /\ NOTEPAD_BUF_SIZE \in Nat
      /\ strlen(notepad_buffer) = L /\ notepad_cursor = L
  BY NotepadStrlen, NotepadAssumption DEF NotepadInv, NotepadAssumption
<1>2. CASE L < NOTEPAD_BUF_SIZE - 1
  <2>1. /\ notepad_buffer' = Opened(c) /\ notepad_cursor' = L + 1
        /\ typed' = Append(typed, c)
    BY <1>1, <1>2 DEF Insert, Reference
  <2>2. notepad_buffer' = [i \in Bytes |->
           CASE i = L -> c [] i \in L + 1 .. L + 1 -> notepad_buffer[i - 1]
             [] OTHER -> notepad_buffer[i]]
    BY <1>1, <2>1 DEF Opened
  <2>3. /\ notepad_buffer'[L] = c /\ notepad_buffer'[L + 1] = Zero
        /\ \A i \in 0 .. L - 1 : notepad_buffer'[i] = notepad_buffer[i]
    BY <1>1, <1>2, <2>2 DEF Bytes, NotepadInv
  <2>4. notepad_buffer' \in [Bytes -> Characters \cup {Zero}]
    BY <1>1, <2>2 DEF Bytes, NotepadInv
  <2>5. /\ typed' \in Seq(Characters) /\ Len(typed') = L + 1 /\ typed'[L + 1] = c
        /\ \A i \in 1 .. L : typed'[i] = typed[i]
    BY <1>1, <2>1 DEF NotepadInv
  <2>6. \A i \in 1 .. L + 1 : notepad_buffer'[i - 1] = typed'[i]
    <3>1. ASSUME NEW i \in 1 .. L PROVE notepad_buffer'[i - 1] = typed'[i]
      BY <1>1, <2>3, <2>5 DEF NotepadInv
    <3>. QED BY <1>1, <2>3, <2>5, <3>1
  <2>. QED BY <1>1, <1>2, <2>1, <2>3, <2>4, <2>5, <2>6 DEF NotepadInv
<1>3. CASE ~(L < NOTEPAD_BUF_SIZE - 1)
  BY <1>1, <1>3 DEF Insert, Reference, NotepadInv
<1>. QED BY <1>2, <1>3

\* What is typed at the end of the text is kept up to the size of the buffer, the
\* terminator included, for a buffer of any size and any sequence of keys.
THEOREM TextKeptCorrect == AppsSpec => []TextKept
<1>1. Init => NotepadInv
  BY NotepadBegins DEF Init
<1>2. NotepadInv /\ [Next]_appsVars => NotepadInv'
  <2>. SUFFICES ASSUME NotepadInv, [Next]_appsVars PROVE NotepadInv'
    OBVIOUS
  <2>1. CASE \E c \in Keys \cup {Return} : notepad_key(c)
    <3>1. PICK c \in Keys \cup {Return} : notepad_key(c)
      BY <2>1
    <3>2. "\n" \in Characters /\ (c # "\r" => c \in Characters)
      BY AppsAssumption DEF AppsAssumption, Characters, Return, Zero
    <3>. QED BY <3>1, <3>2, BackOneKeeps, InsertKeeps DEF notepad_key
  <2>2. CASE UNCHANGED notepadVars
    BY <2>2 DEF notepadVars, NotepadInv
  <2>. QED
    BY <2>1, <2>2 DEF Next, TerminalKey, NotepadKey, timer, CalcClick, Minimize, MainThread,
                      Formatting, KeepApps, appsVars
<1>3. NotepadInv => TextKept
  BY NotepadStrlen DEF NotepadInv, TextKept
<1>. QED BY <1>1, <1>2, <1>3, PTL DEF AppsSpec

-----------------------------------------------------------------------------
(* A string is printed character by character.                             *)

\* A set of natural numbers has a least member.
LEMMA LeastOf ==
  ASSUME NEW S, S \subseteq Nat, S # {}
  PROVE  \E a \in S : \A b \in S : a <= b
BY Writing!LeastOf

\* What terminal_write_string has written after each character.
LEMMA Written ==
  ASSUME NEW t, NEW C, NEW s \in Seq(C)
  PROVE  \E w : /\ w[0] = t /\ terminal_write_string(t, s) = w[Len(s)]
                /\ \A i \in 1 .. Len(s) : w[i] = terminal_write_char(w[i - 1], s[i])
<1>1. PICK w : Writing!Follows("", t, s, w) /\ w[Len(s)] = Writing!Fold("", t, s)
  BY Writing!FoldTable
<1>2. terminal_write_string(t, s) = Writing!Fold("", t, s)
  BY DEF terminal_write_string, FoldLeft, MapThenFoldSet, Max, Writing!Fold,
         Writing!FoldLeft, Writing!MapThenFoldSet, Writing!Max
<1>. QED BY <1>1, <1>2 DEF Writing!Follows

\* What a number has come to after each digit.
LEMMA Counted ==
  ASSUME NEW C, NEW s \in Seq(C)
  PROVE  \E w : /\ w[0] = 0 /\ Value(s) = w[Len(s)]
                /\ \A i \in 1 .. Len(s) : w[i] = WithDigit(w[i - 1], s[i])
<1>1. PICK w : Reading!Follows("", 0, s, w) /\ w[Len(s)] = Reading!Fold("", 0, s)
  BY Reading!FoldTable
<1>2. Value(s) = Reading!Fold("", 0, s)
  BY DEF Value, FoldLeft, MapThenFoldSet, Max, Reading!Fold, Reading!FoldLeft,
         Reading!MapThenFoldSet, Reading!Max
<1>. QED BY <1>1, <1>2 DEF Reading!Follows

-----------------------------------------------------------------------------
(* The terminal's screen, and what a handler does to it in one step.       *)

Lines == 0 .. TERM_ROWS - 1
Columns == 0 .. TERM_COLS
Shown == STRING \cup Keys \cup {Nul, Newline, Backspace, " ", ">"}

\* Nothing has been stored outside, and the last column, behind those that are
\* shown, is kept for a terminator.
Guarded(t) ==
  /\ t \in [buffer : [Lines -> [Columns -> Shown]], row : 0 .. TERM_ROWS, col : Columns,
            outside : {FALSE}]
  /\ \A i \in Lines : t.buffer[i][TERM_COLS] = Nul

\* It is not about to scroll.
Ready(t) == Guarded(t) /\ t.row \in Lines

\* Numbers of rows and columns.
LEMMA Sizes ==
  /\ TERM_ROWS \in Nat \ {0} /\ TERM_COLS \in Nat /\ TERM_COLS > 1
  /\ CMD_SIZE \in Nat \ {0} /\ WordMax \in Nat \ {0}
  /\ TERM_COLS \in Columns /\ 0 \in Columns /\ 0 \in Lines /\ TERM_ROWS - 1 \in Lines
  /\ \A i \in Lines : i \in Nat /\ i < TERM_ROWS /\ i + 1 \in 0 .. TERM_ROWS
  /\ \A i \in 0 .. TERM_ROWS : i < TERM_ROWS <=> i \in Lines
  /\ \A i \in Columns : i \in Nat /\ (i < TERM_COLS => i + 1 \in Columns)
  /\ \A i \in Columns : i > 0 => i - 1 \in Columns
<1>1. /\ TERM_ROWS \in Nat \ {0} /\ TERM_COLS \in Nat \ {0} /\ TERM_COLS > 1
      /\ CMD_SIZE \in Nat \ {0} /\ WordMax \in Nat \ {0}
  <2>1. {TERM_ROWS, TERM_COLS, CMD_SIZE, WordMax} \subseteq Nat \ {0} /\ TERM_COLS > 1
    BY TerminalAssumption DEF TerminalAssumption
  <2>. QED BY <2>1
<1>2. TERM_COLS \in Columns /\ 0 \in Columns /\ 0 \in Lines /\ TERM_ROWS - 1 \in Lines
  BY <1>1 DEF Lines, Columns
<1>3. /\ \A i \in Lines : i \in Nat /\ i < TERM_ROWS /\ i + 1 \in 0 .. TERM_ROWS
      /\ \A i \in 0 .. TERM_ROWS : i < TERM_ROWS <=> i \in Lines
  BY <1>1 DEF Lines
<1>4. /\ \A i \in Columns : i \in Nat /\ (i < TERM_COLS => i + 1 \in Columns)
      /\ \A i \in Columns : i > 0 => i - 1 \in Columns
  BY <1>1 DEF Columns
<1>. QED BY <1>1, <1>2, <1>3, <1>4

\* A character is stored in its place, and a terminator anywhere.
LEMMA PutKeeps ==
  ASSUME NEW t, Guarded(t), NEW i \in Lines, NEW j \in Columns, NEW c \in Shown,
         j = TERM_COLS => c = Nul
  PROVE  /\ Guarded(Put(t, i, j, c))
         /\ Put(t, i, j, c).row = t.row /\ Put(t, i, j, c).col = t.col
         /\ Put(t, i, j, c).buffer = [t.buffer EXCEPT ![i] = [t.buffer[i] EXCEPT ![j] = c]]
<1>. DEFINE b == [t.buffer EXCEPT ![i] = [t.buffer[i] EXCEPT ![j] = c]]
<1>1. Put(t, i, j, c) = [t EXCEPT !.buffer = b]
  <2>1. i < TERM_ROWS /\ j <= TERM_COLS
    BY Sizes DEF Lines, Columns
  <2>. QED BY <2>1 DEF Put
<1>2. t.buffer \in [Lines -> [Columns -> Shown]] /\ \A x \in Lines : t.buffer[x][TERM_COLS] = Nul
  BY DEF Guarded
<1>3. b \in [Lines -> [Columns -> Shown]]
  BY <1>2
<1>4. \A x \in Lines : b[x][TERM_COLS] = Nul
  <2>1. t.buffer[i] \in [Columns -> Shown]
    BY <1>2
  <2>2. [t.buffer[i] EXCEPT ![j] = c][TERM_COLS] = Nul
    BY <1>2, <2>1, Sizes
  <2>. QED BY <1>2, <2>2
<1>. HIDE DEF b
<1>5. /\ [t EXCEPT !.buffer = b].buffer = b /\ [t EXCEPT !.buffer = b].row = t.row
      /\ [t EXCEPT !.buffer = b].col = t.col
  BY DEF Guarded
<1>6. Guarded([t EXCEPT !.buffer = b])
  BY <1>3, <1>4 DEF Guarded
<1>. QED BY <1>1, <1>5, <1>6 DEF b

\* Scrolling leaves the last column of every line alone.
LEMMA ScrollKeeps ==
  ASSUME NEW t, Guarded(t)
  PROVE  /\ Ready(Scrolled(t)) /\ Scrolled(t).col = t.col
         /\ t.row \in Lines => Scrolled(t) = t
<1>1. CASE t.row < TERM_ROWS
  BY <1>1, Sizes DEF Scrolled, Ready, Guarded
<1>2. CASE ~(t.row < TERM_ROWS)
  <2>. DEFINE o == t.buffer
              b == [i \in Lines |->
                     IF i = TERM_ROWS - 1 THEN Blank
                     ELSE [c \in Columns |->
                             IF ~Terminated(o[i + 1]) \/ c <= NulAt(o[i + 1])
                             THEN o[i + 1][c] ELSE o[i][c]]]
  <2>1. Scrolled(t) = [t EXCEPT !.row = TERM_ROWS - 1, !.buffer = b]
    BY <1>2 DEF Scrolled, Lines, Columns
  <2>2. o \in [Lines -> [Columns -> Shown]] /\ \A x \in Lines : o[x][TERM_COLS] = Nul
    BY DEF Guarded
  <2>3. Blank \in [Columns -> Shown] /\ Blank[TERM_COLS] = Nul
    BY Sizes DEF Blank, Shown, Columns
  <2>4. \A i \in Lines : i # TERM_ROWS - 1 => i + 1 \in Lines
    BY Sizes DEF Lines
  <2>5. ASSUME NEW i \in Lines PROVE b[i] \in [Columns -> Shown] /\ b[i][TERM_COLS] = Nul
    <3>1. CASE i = TERM_ROWS - 1
      BY <2>3, <3>1
    <3>2. CASE i # TERM_ROWS - 1
      <4>1. /\ o[i] \in [Columns -> Shown] /\ o[i + 1] \in [Columns -> Shown]
            /\ o[i][TERM_COLS] = Nul /\ o[i + 1][TERM_COLS] = Nul
        BY <2>2, <2>4, <3>2
      <4>2. b[i] = [c \in Columns |-> IF ~Terminated(o[i + 1]) \/ c <= NulAt(o[i + 1])
                                      THEN o[i + 1][c] ELSE o[i][c]]
        BY <3>2
      <4>. HIDE DEF b, o
      <4>. QED BY <4>1, <4>2, Sizes
    <3>. QED BY <3>1, <3>2
  <2>6. b \in [Lines -> [Columns -> Shown]]
    <3>1. b = [i \in Lines |-> b[i]]
      OBVIOUS
    <3>. HIDE DEF b
    <3>. QED BY <2>5, <3>1
  <2>. HIDE DEF b, o
  <2>7. /\ [t EXCEPT !.row = TERM_ROWS - 1, !.buffer = b].buffer = b
        /\ [t EXCEPT !.row = TERM_ROWS - 1, !.buffer = b].row = TERM_ROWS - 1
        /\ [t EXCEPT !.row = TERM_ROWS - 1, !.buffer = b].col = t.col
        /\ [t EXCEPT !.row = TERM_ROWS - 1, !.buffer = b] \in
             [buffer : [Lines -> [Columns -> Shown]], row : 0 .. TERM_ROWS, col : Columns,
              outside : {FALSE}]
    <3>. DEFINE z == TERM_ROWS - 1
                B == [Lines -> [Columns -> Shown]]
    <3>1. z \in 0 .. TERM_ROWS
      BY Sizes
    <3>2. b \in B /\ t \in [buffer : B, row : 0 .. TERM_ROWS, col : Columns, outside : {FALSE}]
      BY <2>6 DEF Guarded
    <3>. HIDE DEF z, B
    <3>3. /\ [t EXCEPT !.row = z, !.buffer = b].buffer = b
          /\ [t EXCEPT !.row = z, !.buffer = b].row = z
          /\ [t EXCEPT !.row = z, !.buffer = b].col = t.col
          /\ [t EXCEPT !.row = z, !.buffer = b] \in
               [buffer : B, row : 0 .. TERM_ROWS, col : Columns, outside : {FALSE}]
      BY <3>1, <3>2
    <3>. QED BY <3>3 DEF z, B
  <2>. QED BY <1>2, <2>1, <2>5, <2>7, Sizes DEF Ready, Guarded
<1>. QED BY <1>1, <1>2

\* What a character does.
LEMMA WriteKeeps ==
  ASSUME NEW t, Ready(t), NEW c \in Shown
  PROVE  /\ Ready(terminal_write_char(t, c))
         /\ c = Newline => terminal_write_char(t, c).col = 0
         /\ c = Backspace /\ c # Newline /\ t.col > 0 =>
              terminal_write_char(t, c) = [t EXCEPT !.col = t.col - 1]
         /\ c \notin {Newline, Backspace} /\ t.col < TERM_COLS =>
              LET p == terminal_write_char(t, c)
              IN /\ p.row = t.row /\ p.col = t.col + 1
                 /\ p.buffer[t.row][t.col] = c /\ p.buffer[t.row][t.col + 1] = Nul
                 /\ \A j \in Columns : j < t.col => p.buffer[t.row][j] = t.buffer[t.row][j]
<1>0. Guarded(t) /\ t.row \in Lines /\ t.row + 1 \in 0 .. TERM_ROWS /\ t.col \in Columns
  BY Sizes DEF Ready, Guarded
<1>1. CASE c = Newline
  <2>. DEFINE p == [t EXCEPT !.row = t.row + 1, !.col = 0]
  <2>1. terminal_write_char(t, c) = Scrolled(p)
    BY <1>1 DEF terminal_write_char, Newline, Backspace
  <2>2. Guarded(p) /\ p.col = 0
    BY <1>0, Sizes DEF Guarded
  <2>. QED BY <1>1, <2>1, <2>2, ScrollKeeps
<1>2. CASE c = Backspace /\ c # Newline
  <2>. DEFINE p == [t EXCEPT !.col = IF t.col > 0 THEN t.col - 1 ELSE 0]
  <2>1. terminal_write_char(t, c) = Scrolled(p)
    BY <1>2 DEF terminal_write_char, Newline, Backspace
  <2>2. Guarded(p) /\ p.row \in Lines
    BY <1>0, Sizes DEF Guarded
  <2>3. terminal_write_char(t, c) = p /\ Ready(p)
    BY <2>1, <2>2, ScrollKeeps
  <2>. QED BY <1>2, <2>3
<1>3. CASE c \notin {Newline, Backspace}
  <2>1. terminal_write_char(t, c) = Scrolled(Printed(t, c))
    BY <1>3 DEF terminal_write_char, Newline, Backspace
  <2>2. CASE ~(t.col < TERM_COLS)
    <3>1. Printed(t, c) = t
      BY <2>2 DEF Printed
    <3>. QED BY <1>0, <1>3, <2>1, <2>2, <3>1, ScrollKeeps
  <2>3. CASE t.col < TERM_COLS
    <3>. DEFINE q == [t EXCEPT !.col = t.col + 1]
                u == Put(q, t.row, t.col, c)
                v == Put(u, t.row, t.col + 1, Nul)
    <3>1. Printed(t, c) = v
      BY <2>3 DEF Printed
    <3>2. t.col + 1 \in Columns /\ t.col # TERM_COLS /\ Nul \in Shown
      <4>1. t.col + 1 \in Columns /\ t.col # TERM_COLS
        <5>1. t.col \in Columns /\ TERM_COLS \in Nat
          BY <1>0, Sizes
        <5>. QED BY <2>3, <5>1 DEF Columns
      <4>. QED BY <4>1 DEF Shown
    <3>3. Guarded(q) /\ q.row = t.row /\ q.col = t.col + 1 /\ q.buffer = t.buffer
      BY <1>0, <3>2 DEF Guarded
    <3>4. /\ Guarded(u) /\ u.row = t.row /\ u.col = t.col + 1
          /\ u.buffer = [t.buffer EXCEPT ![t.row] = [t.buffer[t.row] EXCEPT ![t.col] = c]]
      <4>. HIDE DEF q
      <4>. QED BY <1>0, <3>2, <3>3, PutKeeps
    <3>5. /\ Guarded(v) /\ v.row = t.row /\ v.col = t.col + 1
          /\ v.buffer = [u.buffer EXCEPT ![t.row] = [u.buffer[t.row] EXCEPT ![t.col + 1] = Nul]]
      <4>. HIDE DEF u
      <4>. QED BY <1>0, <3>2, <3>4, PutKeeps
    <3>. HIDE DEF u, v
    <3>6. terminal_write_char(t, c) = v /\ Ready(v)
      BY <1>0, <2>1, <3>1, <3>5, ScrollKeeps
    <3>7. /\ t.buffer \in [Lines -> [Columns -> Shown]] /\ u.buffer \in [Lines -> [Columns -> Shown]]
          /\ t.buffer[t.row] \in [Columns -> Shown] /\ u.buffer[t.row] \in [Columns -> Shown]
      BY <1>0, <3>4 DEF Guarded
    <3>8. u.buffer[t.row] = [t.buffer[t.row] EXCEPT ![t.col] = c]
      BY <1>0, <3>4, <3>7
    <3>9. v.buffer[t.row] = [u.buffer[t.row] EXCEPT ![t.col + 1] = Nul]
      BY <1>0, <3>5, <3>7
    <3>10. /\ v.buffer[t.row][t.col] = c /\ v.buffer[t.row][t.col + 1] = Nul
           /\ \A j \in Columns : j < t.col => v.buffer[t.row][j] = t.buffer[t.row][j]
      <4>. DEFINE x == t.buffer[t.row]
                  y == u.buffer[t.row]
                  z == v.buffer[t.row]
                  m == t.col
      <4>1. /\ x \in [Columns -> Shown] /\ y = [x EXCEPT ![m] = c] /\ m \in Columns
            /\ z = [y EXCEPT ![m + 1] = Nul] /\ y \in [Columns -> Shown] /\ m + 1 \in Columns
        BY <1>0, <3>2, <3>7, <3>8, <3>9
      <4>2. \A j \in Columns : j < m => j # m /\ j # m + 1
        <5>1. m \in Nat /\ Columns \subseteq Nat
          BY <4>1, Sizes
        <5>. HIDE DEF m
        <5>. QED BY <5>1
      <4>3. m # m + 1
        <5>1. m \in Nat
          BY <4>1, Sizes
        <5>. HIDE DEF m
        <5>. QED BY <5>1
      <4>. HIDE DEF x, y, z, m
      <4>4. z[m] = c /\ z[m + 1] = Nul /\ \A j \in Columns : j < m => z[j] = x[j]
        BY <4>1, <4>2, <4>3
      <4>. QED BY <4>4 DEF x, z, m
    <3>. QED BY <1>3, <3>5, <3>6, <3>10
  <2>. QED BY <2>2, <2>3
<1>. QED BY <1>1, <1>2, <1>3

\* What a string does; one that ends with a newline leaves the cursor at the
\* beginning of a line.
LEMMA StringKeeps ==
  ASSUME NEW t, Ready(t), NEW s \in Seq(Shown)
  PROVE  /\ Ready(terminal_write_string(t, s))
         /\ s # <<>> /\ s[Len(s)] = Newline => terminal_write_string(t, s).col = 0
<1>1. PICK w : /\ w[0] = t /\ terminal_write_string(t, s) = w[Len(s)]
               /\ \A i \in 1 .. Len(s) : w[i] = terminal_write_char(w[i - 1], s[i])
  BY Written
<1>2. \A i \in 0 .. Len(s) : Ready(w[i])
  <2>. DEFINE Bad == {i \in 0 .. Len(s) : ~Ready(w[i])}
  <2>1. SUFFICES ASSUME Bad # {} PROVE FALSE
    OBVIOUS
  <2>2. PICK i \in Bad : \A b \in Bad : i <= b
    <3>1. Bad \subseteq Nat
      OBVIOUS
    <3>. QED BY <2>1, <3>1, LeastOf
  <2>3. i # 0
    BY <1>1
  <2>4. i \in 1 .. Len(s) /\ i - 1 \in 0 .. Len(s) /\ ~(i <= i - 1)
    BY <2>3
  <2>5. Ready(w[i - 1]) /\ s[i] \in Shown
    BY <2>2, <2>4
  <2>6. Ready(w[i])
    BY <1>1, <2>4, <2>5, WriteKeeps
  <2>. QED BY <2>6
<1>3. ASSUME s # <<>>, s[Len(s)] = Newline PROVE w[Len(s)].col = 0
  <2>0. Len(s) \in Nat /\ Len(s) > 0
    BY <1>3
  <2>1. Len(s) \in 1 .. Len(s) /\ Len(s) - 1 \in 0 .. Len(s) /\ s[Len(s)] \in Shown
    BY <2>0
  <2>2. Ready(w[Len(s) - 1]) /\ w[Len(s)] = terminal_write_char(w[Len(s) - 1], s[Len(s)])
    BY <1>1, <1>2, <2>1
  <2>. QED BY <1>3, <2>1, <2>2, WriteKeeps
<1>4. Ready(w[Len(s)])
  <2>1. Len(s) \in 0 .. Len(s)
    OBVIOUS
  <2>. QED BY <1>2, <2>1
<1>. QED BY <1>1, <1>3, <1>4

-----------------------------------------------------------------------------
(* The shell.                                                              *)

\* A part of a line.
LEMMA Parts ==
  ASSUME NEW C, NEW s \in Seq(C), NEW m \in Nat \ {0}, NEW n \in Nat, n <= Len(s)
  PROVE  SubSeq(s, m, n) \in Seq(C) /\ Len(SubSeq(s, m, n)) \in Nat
<1>1. \A i \in m .. n : s[i] \in C
  <2>1. \A i \in m .. n : i \in 1 .. Len(s)
    OBVIOUS
  <2>. QED BY <2>1
<1>2. SubSeq(s, m, n) \in Seq(C)
  BY <1>1, SubSeqProperties
<1>. QED BY <1>2

\* The first place at which a test succeeds.
LEMMA FirstPlace ==
  ASSUME NEW C, NEW s \in Seq(C), NEW I \in SUBSET (1 .. Len(s)), I # {}
  PROVE  Min(I) \in I
<1>1. I \subseteq Nat
  OBVIOUS
<1>2. PICK a \in I : \A b \in I : a <= b
  BY <1>1, LeastOf
<1>3. \A b \in I : a =< b
  BY <1>2
<1>. QED BY <1>3 DEF Min

\* Words and arguments are parts of the line.
LEMMA PartsOfLine ==
  ASSUME NEW C, NEW s \in Seq(C)
  PROVE  SkipBlanks(s) \in Seq(C) /\ Args(s) \in Seq(C)
<1>1. ASSUME NEW u \in Seq(C) PROVE SkipBlanks(u) \in Seq(C)
  <2>. DEFINE I == {i \in 1 .. Len(u) : u[i] # " "}
  <2>1. SkipBlanks(u) = IF (IF I # {} THEN Min(I) ELSE 0) = 0 THEN <<>>
                        ELSE SubSeq(u, Min(I), Len(u))
    BY DEF SkipBlanks, SelectInSeq
  <2>2. I \in SUBSET (1 .. Len(u)) /\ Len(u) \in Nat
    <3>1. I \subseteq 1 .. Len(u)
      BY Zenon
    <3>2. Len(u) \in Nat
      OBVIOUS
    <3>. QED BY <3>1, <3>2
  <2>. HIDE DEF I
  <2>3. I # {} => Min(I) \in 1 .. Len(u)
    BY <2>2, FirstPlace
  <2>4. I # {} => SubSeq(u, Min(I), Len(u)) \in Seq(C)
    BY <2>2, <2>3, Parts
  <2>. QED BY <2>1, <2>4
<1>2. ASSUME NEW u \in Seq(C) PROVE Len(FirstWord(u)) \in Nat
  <2>. DEFINE I == {i \in 1 .. Len(u) : u[i] = " "}
              i == IF I # {} THEN Min(I) ELSE 0
              n == IF i = 0 THEN Len(u) ELSE i - 1
              m == IF n < WordMax THEN n ELSE WordMax
  <2>1. FirstWord(u) = SubSeq(u, 1, m)
    BY DEF FirstWord, SelectInSeq
  <2>2. I \in SUBSET (1 .. Len(u)) /\ Len(u) \in Nat /\ WordMax \in Nat
    <3>1. I \subseteq 1 .. Len(u)
      BY Zenon
    <3>2. Len(u) \in Nat
      OBVIOUS
    <3>. QED BY <3>1, <3>2, Sizes
  <2>. HIDE DEF I
  <2>3. I # {} => Min(I) \in 1 .. Len(u)
    BY <2>2, FirstPlace
  <2>4. m \in Nat /\ m <= Len(u)
    BY <2>2, <2>3
  <2>. HIDE DEF m
  <2>. QED BY <2>1, <2>4, Parts
<1>3. SkipBlanks(s) \in Seq(C) /\ Len(SkipBlanks(s)) \in Nat
  BY <1>1
<1>4. Len(Command(s)) \in Nat
  BY <1>2, <1>3 DEF Command
<1>5. Args(s) \in Seq(C)
  <2>. DEFINE n == Len(Command(s)) + 1
              u == SkipBlanks(s)
  <2>1. n \in Nat \ {0} /\ u \in Seq(C) /\ Len(u) \in Nat
    BY <1>3, <1>4
  <2>2. Args(s) = SkipBlanks(SubSeq(u, n, Len(u)))
    BY DEF Args
  <2>. HIDE DEF n, u
  <2>3. SubSeq(u, n, Len(u)) \in Seq(C)
    BY <2>1, Parts
  <2>. QED BY <1>1, <2>2, <2>3
<1>. QED BY <1>3, <1>5

\* What is printed can be shown.
LEMMA TextShown ==
  /\ \A x \in {"banner", "main", "click", "help", "reboot", "unknown"} :
       Text[x] \in Seq(STRING) /\ Text[x] \in Seq(Shown)
  /\ \A x \in {"help", "reboot", "unknown"} :
       Text[x] # <<>> /\ Text[x][Len(Text[x])] = Newline
  /\ Prompt \in Seq(Shown)
<1>1. \A x \in {"banner", "main", "click", "help", "reboot", "unknown"} : Text[x] \in Seq(STRING)
  BY TerminalAssumption DEF TerminalAssumption
<1>2. \A s \in Seq(STRING) : s \in Seq(Shown)
  <2>. DEFINE S == STRING
              T == Shown
  <2>1. S \subseteq T
    BY DEF Shown
  <2>. HIDE DEF S, T
  <2>2. \A s \in Seq(S) : s \in Seq(T)
    <3>. SUFFICES ASSUME NEW s \in Seq(S) PROVE s \in Seq(T)
      OBVIOUS
    <3>1. \A i \in 1 .. Len(s) : s[i] \in T
      BY <2>1
    <3>. QED BY <3>1
  <2>. QED BY <2>2 DEF S, T
<1>3. Prompt \in Seq(Shown)
  <2>. DEFINE a == ">"
              b == " "
  <2>1. a \in Shown
    BY DEF Shown
  <2>2. b \in Shown
    BY DEF Shown
  <2>3. Prompt = <<a, b>>
    BY DEF Prompt
  <2>. HIDE DEF a, b
  <2>. QED BY <2>1, <2>2, <2>3
<1>. QED BY <1>1, <1>2, <1>3, TerminalAssumption DEF TerminalAssumption, Last

\* The shell executes a line, and its reply ends at the beginning of a line.
LEMMA LineKeeps ==
  ASSUME NEW t, Ready(t), t.col = 0, NEW s \in Seq(Shown)
  PROVE  Ready(handle_line(t, s)) /\ handle_line(t, s).col = 0
<1>1. ASSUME NEW x \in {"help", "reboot", "unknown"}
      PROVE  /\ Ready(terminal_write_string(t, Text[x]))
             /\ terminal_write_string(t, Text[x]).col = 0
  BY TextShown, StringKeeps
<1>2. /\ Ready(terminal_write_string(t, Append(Args(s), Newline)))
      /\ terminal_write_string(t, Append(Args(s), Newline)).col = 0
  <2>. DEFINE u == Append(Args(s), Newline)
  <2>1. Args(s) \in Seq(Shown) /\ Newline \in Shown
    <3>1. Newline \in Shown
      BY DEF Shown
    <3>. QED BY <3>1, PartsOfLine
  <2>2. u \in Seq(Shown) /\ u # <<>> /\ u[Len(u)] = Newline
    <3>. DEFINE a == Args(s)
                c == Newline
    <3>1. a \in Seq(Shown) /\ c \in Shown
      BY <2>1
    <3>. HIDE DEF a, c
    <3>2. Append(a, c) \in Seq(Shown) /\ Append(a, c) # <<>> /\ Append(a, c)[Len(Append(a, c))] = c
      BY <3>1
    <3>. QED BY <3>2 DEF a, c
  <2>. HIDE DEF u
  <2>3. Ready(terminal_write_string(t, u)) /\ terminal_write_string(t, u).col = 0
    BY <2>2, StringKeeps
  <2>. QED BY <2>3 DEF u
<1>3. Ready(terminal_clear(t)) /\ terminal_clear(t).col = 0
  <2>. DEFINE B == [Lines -> [Columns -> Shown]]
              b == [i \in Lines |-> Blank]
  <2>1. Blank \in [Columns -> Shown] /\ Blank[TERM_COLS] = Nul
    <3>1. Nul \in Shown
      BY DEF Shown
    <3>. QED BY <3>1, Sizes DEF Blank, Columns
  <2>2. b \in B /\ \A i \in Lines : b[i][TERM_COLS] = Nul
    BY <2>1
  <2>3. terminal_clear(t) = [t EXCEPT !.buffer = b, !.row = 0, !.col = 0]
    BY DEF terminal_clear, Lines
  <2>4. t \in [buffer : B, row : 0 .. TERM_ROWS, col : Columns, outside : {FALSE}]
    BY DEF Ready, Guarded
  <2>. HIDE DEF b, B
  <2>5. 0 \in 0 .. TERM_ROWS /\ 0 \in Columns /\ 0 \in Lines
    <3>1. 0 \in Columns /\ 0 \in Lines /\ TERM_ROWS \in Nat
      BY Sizes
    <3>. QED BY <3>1
  <2>6. /\ terminal_clear(t) \in [buffer : B, row : 0 .. TERM_ROWS, col : Columns, outside : {FALSE}]
        /\ terminal_clear(t).buffer = b /\ terminal_clear(t).row = 0 /\ terminal_clear(t).col = 0
    BY <2>2, <2>3, <2>4, <2>5
  <2>. QED BY <2>2, <2>5, <2>6 DEF Ready, Guarded, B
<1>. QED BY <1>1, <1>2, <1>3 DEF handle_line

\* The prompt, at the beginning of a line.
LEMMA PromptKeeps ==
  ASSUME NEW t, Ready(t), t.col = 0
  PROVE  LET p == terminal_write_string(t, Prompt)
         IN /\ Ready(p) /\ p.col = 2
            /\ p.buffer[p.row][0] = ">" /\ p.buffer[p.row][1] = " "
            /\ p.buffer[p.row][2] = Nul
<1>1. Prompt \in Seq(Shown) /\ Len(Prompt) = 2 /\ Prompt[1] = ">" /\ Prompt[2] = " "
  BY TextShown DEF Prompt
<1>. DEFINE u == Prompt
<1>2. PICK w : /\ w[0] = t /\ terminal_write_string(t, u) = w[Len(u)]
               /\ \A i \in 1 .. Len(u) : w[i] = terminal_write_char(w[i - 1], u[i])
  <2>1. u \in Seq(Shown)
    BY <1>1
  <2>. HIDE DEF u
  <2>. QED BY <2>1, Written
<1>3. w[1] = terminal_write_char(t, ">") /\ w[2] = terminal_write_char(w[1], " ")
      /\ terminal_write_string(t, Prompt) = w[2]
  <2>1. /\ \A i \in 1 .. 2 : w[i] = terminal_write_char(w[i - 1], u[i])
        /\ terminal_write_string(t, Prompt) = w[2]
    BY <1>1, <1>2
  <2>2. 1 \in 1 .. 2 /\ 2 \in 1 .. 2 /\ 1 - 1 = 0 /\ 2 - 1 = 1
    OBVIOUS
  <2>. HIDE DEF u
  <2>3. w[1] = terminal_write_char(w[0], u[1]) /\ w[2] = terminal_write_char(w[1], u[2])
    BY <2>1, <2>2
  <2>. QED BY <1>1, <1>2, <2>1, <2>3 DEF u
<1>4. ">" \in Shown \ {Newline, Backspace} /\ " " \in Shown \ {Newline, Backspace}
  BY DEF Shown, Newline, Backspace
<1>5. 0 < TERM_COLS /\ 1 < TERM_COLS /\ 0 \in Columns /\ 1 \in Columns
  BY Sizes DEF Columns
<1>6. ASSUME NEW x, Ready(x), NEW c \in Shown \ {Newline, Backspace}, x.col < TERM_COLS
      PROVE  LET p == terminal_write_char(x, c)
             IN /\ Ready(p) /\ p.row = x.row /\ p.col = x.col + 1
                /\ p.buffer[x.row][x.col] = c /\ p.buffer[x.row][x.col + 1] = Nul
                /\ \A j \in Columns : j < x.col => p.buffer[x.row][j] = x.buffer[x.row][j]
  BY <1>6, WriteKeeps
<1>7. /\ Ready(w[1]) /\ w[1].row = t.row /\ w[1].col = 1
      /\ w[1].buffer[t.row][0] = ">"
  <2>. DEFINE c == ">"
  <2>1. c \in Shown \ {Newline, Backspace} /\ w[1] = terminal_write_char(t, c)
    BY <1>3, <1>4
  <2>. HIDE DEF c
  <2>2. /\ Ready(w[1]) /\ w[1].row = t.row /\ w[1].col = 0 + 1
        /\ w[1].buffer[t.row][0] = c
    BY <1>5, <1>6, <2>1
  <2>. QED BY <2>2 DEF c
<1>8. /\ Ready(w[2]) /\ w[2].row = t.row /\ w[2].col = 2
      /\ w[2].buffer[t.row][1] = " " /\ w[2].buffer[t.row][0] = ">" /\ w[2].buffer[t.row][2] = Nul
  <2>. DEFINE c == " "
              x == w[1]
  <2>1. c \in Shown \ {Newline, Backspace} /\ w[2] = terminal_write_char(x, c)
        /\ Ready(x) /\ x.row = t.row /\ x.col = 1 /\ x.col < TERM_COLS
    BY <1>3, <1>4, <1>5, <1>7
  <2>. HIDE DEF c, x
  <2>2. /\ Ready(w[2]) /\ w[2].row = t.row /\ w[2].col = 1 + 1
        /\ w[2].buffer[t.row][1] = c /\ w[2].buffer[t.row][0] = x.buffer[t.row][0]
        /\ w[2].buffer[t.row][1 + 1] = Nul
    BY <1>5, <1>6, <2>1
  <2>3. x.buffer[t.row][0] = ">" /\ 1 + 1 = 2
    BY <1>7 DEF x
  <2>. QED BY <2>2, <2>3 DEF c
<1>. QED BY <1>3, <1>8

-----------------------------------------------------------------------------
(* The terminal between any two statements of the main thread.             *)

\* What the main thread holds in its registers, and where it has been
\* before: unless a handler has printed at the wrong moment, what is stored next
\* lies in its row and does not reach its last column but with a terminator.
ScreenInv ==
  /\ cmd \in Seq(Shown) /\ Len(cmd) < CMD_SIZE
  /\ out \in Seq(Shown) /\ ch \in Shown
  /\ ~torn =>
       /\ Guarded(term)
       /\ term.row = TERM_ROWS => pc \in {"home", "check"}
       /\ pc \in {"row", "col"} => term.col < TERM_COLS
       /\ pc \in {"add", "col", "bump", "put", "col2", "nul"} => r \in Lines
       /\ pc \in {"bump", "put"} => k \in Columns /\ k < TERM_COLS
       /\ pc = "nul" => k \in Columns

\* The cursor stands behind the line, and the row holds the line and what is gone
\* from it.
ShownUpTo(t, line, gone) ==
  LET shown == line \o gone
  IN /\ t.col = Len(line)
     /\ \A i \in 1 .. Len(shown) : t.buffer[t.row][i - 1] = shown[i]
     /\ t.buffer[t.row][Len(shown)] = Nul

PromptInv ==
  alone /\ ~torn =>
    pc = "idle" /\ erased \in Seq(Shown) /\ Fits(cmd) /\ ShownUpTo(term, Prompt \o cmd, erased)

\* Where a handler does no harm the terminal does not wait for a scroll.
LEMMA ReadyForHandler ==
  ScreenInv /\ HandlerPrints /\ ~torn' => Ready(term) /\ pc \notin {"row", "col"} /\ ~torn
<1>. SUFFICES ASSUME ScreenInv, HandlerPrints, ~torn'
              PROVE  Ready(term) /\ pc \notin {"row", "col"} /\ ~torn
  OBVIOUS
<1>1. ~torn /\ pc \notin {"row", "col"} /\ term.row # TERM_ROWS
  BY DEF HandlerPrints
<1>2. Guarded(term)
  BY <1>1 DEF ScreenInv
<1>3. term.row \in 0 .. TERM_ROWS
  BY <1>2 DEF Guarded
<1>4. TERM_ROWS \in Nat
  BY Sizes
<1>5. term.row \in Lines
  BY <1>1, <1>3, <1>4 DEF Lines
<1>. QED BY <1>1, <1>2, <1>5 DEF Ready

\* A handler that prints keeps the screen.
LEMMA HandlerKeeps ==
  ASSUME ScreenInv, HandlerPrints, Ready(term) => Ready(term'),
         cmd' \in Seq(Shown), Len(cmd') < CMD_SIZE
  PROVE  ScreenInv'
<1>1. UNCHANGED <<pc, out, ch, r, k>> /\ out \in Seq(Shown) /\ ch \in Shown
  BY DEF HandlerPrints, ScreenInv
<1>2. ASSUME ~torn'
      PROVE  /\ ~torn /\ pc \notin {"row", "col"} /\ Guarded(term') /\ term'.row # TERM_ROWS
  <2>1. Ready(term) /\ pc \notin {"row", "col"} /\ ~torn
    BY <1>2, ReadyForHandler
  <2>2. Ready(term')
    BY <2>1
  <2>3. term'.row # TERM_ROWS
    <3>1. term'.row \in Lines
      BY <2>2 DEF Ready
    <3>2. term'.row < TERM_ROWS /\ TERM_ROWS \in Nat /\ term'.row \in Nat
      BY <3>1, Sizes
    <3>. QED BY <3>2
  <2>. QED BY <2>1, <2>2, <2>3 DEF Ready
<1>. QED BY <1>1, <1>2 DEF ScreenInv, Guarded

\* A line with one more character.
LEMMA Longer ==
  ASSUME NEW C, NEW s \in Seq(C), NEW a \in C, NEW b \in C, NEW c \in C
  PROVE  LET line == <<a, b>> \o s
             more == <<a, b>> \o Append(s, c)
         IN /\ Len(line) = 2 + Len(s) /\ Len(more) = 3 + Len(s)
            /\ \A i \in 1 .. Len(line) : more[i] = line[i]
            /\ more[3 + Len(s)] = c
OBVIOUS

\* A line with one character less.
LEMMA Shorter ==
  ASSUME NEW C, NEW s \in Seq(C), s # <<>>, NEW a \in C, NEW b \in C
  PROVE  LET line == <<a, b>> \o s
             less == <<a, b>> \o Front(s)
         IN /\ Len(line) = 2 + Len(s) /\ Len(less) = 1 + Len(s)
            /\ \A i \in 1 .. Len(less) : less[i] = line[i]
            /\ Front(s) \in Seq(C) /\ Len(Front(s)) = Len(s) - 1
<1>. DEFINE n == Len(s)
            u == Front(s)
<1>1. n \in Nat /\ n > 0 /\ u = SubSeq(s, 1, n - 1)
  BY DEF Front
<1>2. u \in Seq(C) /\ Len(u) = n - 1 /\ \A i \in 1 .. n - 1 : u[i] = s[i]
  <2>1. \A i \in 1 .. n - 1 : s[i] \in C
    OBVIOUS
  <2>2. /\ SubSeq(s, 1, n - 1) \in Seq(C)
        /\ Len(SubSeq(s, 1, n - 1)) = IF 1 <= n - 1 THEN n - 1 - 1 + 1 ELSE 0
        /\ \A i \in 1 .. n - 1 - 1 + 1 : SubSeq(s, 1, n - 1)[i] = s[1 + i - 1]
    <3>1. 1 \in Int /\ n - 1 \in Int
      BY <1>1
    <3>. HIDE DEF n
    <3>. QED BY <2>1, <3>1, SubSeqProperties
  <2>. HIDE DEF n, u
  <2>3. (IF 1 <= n - 1 THEN n - 1 - 1 + 1 ELSE 0) = n - 1 /\ n - 1 - 1 + 1 = n - 1
    BY <1>1
  <2>4. \A i \in 1 .. n - 1 : 1 + i - 1 = i
    BY <1>1
  <2>. QED BY <1>1, <2>2, <2>3, <2>4
<1>. HIDE DEF u
<1>3. /\ Len(<<a, b>> \o s) = 2 + n /\ Len(<<a, b>> \o u) = 1 + n
      /\ \A i \in 1 .. 1 + n : (<<a, b>> \o u)[i] = (<<a, b>> \o s)[i]
  <2>1. Len(<<a, b>> \o s) = 2 + n
    OBVIOUS
  <2>2. Len(<<a, b>> \o u) = 2 + Len(u)
    BY <1>2
  <2>3. ASSUME NEW i \in 1 .. 1 + n PROVE (<<a, b>> \o u)[i] = (<<a, b>> \o s)[i]
    BY <1>1, <1>2
  <2>. HIDE DEF n
  <2>. QED BY <1>1, <1>2, <2>1, <2>2, <2>3
<1>. QED BY <1>2, <1>3 DEF u

\* What is taken from a line stands in front of what was taken before.
LEMMA Regrouped ==
  ASSUME NEW C, NEW h \in Seq(C), NEW u \in Seq(C), NEW l \in Seq(C), NEW g \in Seq(C)
  PROVE  l \o g \in Seq(C) /\ (h \o u) \o (l \o g) = (h \o (u \o l)) \o g
<1>1. ASSUME NEW x \in Seq(C), NEW y \in Seq(C), NEW w \in Seq(C)
      PROVE  (x \o y) \o w = x \o (y \o w)
  OBVIOUS
<1>2. l \o g \in Seq(C) /\ u \o l \in Seq(C)
  BY ConcatProperties
<1>3. u \o (l \o g) = (u \o l) \o g
  BY <1>1
<1>4. (h \o u) \o (l \o g) = h \o (u \o (l \o g))
  BY <1>1, <1>2
<1>5. h \o ((u \o l) \o g) = (h \o (u \o l)) \o g
  BY <1>1, <1>2
<1>. QED BY <1>2, <1>3, <1>4, <1>5

LEMMA FrontAndLast ==
  ASSUME NEW C, NEW s \in Seq(C), s # <<>>
  PROVE  Front(s) \in Seq(C) /\ <<Last(s)>> \in Seq(C) /\ Front(s) \o <<Last(s)>> = s
<1>1. Len(s) \in Nat /\ Len(s) > 0 /\ Len(s) \in 1 .. Len(s)
  OBVIOUS
<1>2. Front(s) = SubSeq(s, 1, Len(s) - 1)
  BY DEF Front
<1>3. <<Last(s)>> \in Seq(C)
  BY <1>1 DEF Last
<1>4. Front(s) \in Seq(C)
  <2>1. C # {}
    BY <1>1
  <2>. QED BY <2>1, Shorter
<1>. QED BY <1>1, <1>2, <1>3, <1>4 DEF Last

\* Enter: the line is executed, and there is a new prompt.
LEMMA EnterKeeps == ScreenInv /\ HandlerPrints /\ Enter => ScreenInv' /\ PromptInv'
<1>. SUFFICES ASSUME ScreenInv, HandlerPrints, Enter PROVE ScreenInv' /\ PromptInv'
  OBVIOUS
<1>1. cmd \in Seq(Shown) /\ cmd' = <<>> /\ erased' = <<>> /\ Newline \in Shown
  BY DEF ScreenInv, Enter, Shown
<1>2. ASSUME Ready(term)
      PROVE  /\ Ready(term') /\ term'.col = 2
             /\ term'.buffer[term'.row][0] = ">" /\ term'.buffer[term'.row][1] = " "
             /\ term'.buffer[term'.row][2] = Nul
  <2>. DEFINE a == terminal_write_char(term, Newline)
              b == handle_line(a, cmd)
  <2>1. Ready(a) /\ a.col = 0
    BY <1>1, <1>2, WriteKeeps
  <2>. HIDE DEF a
  <2>2. Ready(b) /\ b.col = 0
    BY <1>1, <2>1, LineKeeps
  <2>3. term' = terminal_write_string(b, Prompt)
    BY DEF Enter, a
  <2>. HIDE DEF b
  <2>. QED BY <2>2, <2>3, PromptKeeps
<1>3. ScreenInv'
  <2>1. cmd' \in Seq(Shown) /\ Len(cmd') < CMD_SIZE
    BY <1>1, Sizes
  <2>. QED BY <1>2, <2>1, HandlerKeeps
<1>4. PromptInv'
  <2>. SUFFICES ASSUME alone', ~torn'
           PROVE  /\ pc' = "idle" /\ erased' \in Seq(Shown) /\ Fits(cmd)'
                  /\ ShownUpTo(term, Prompt \o cmd, erased)'
    BY DEF PromptInv
  <2>1. pc' = "idle"
    BY DEF Enter, MainQuiet, HandlerPrints
  <2>2. Ready(term)
    BY ReadyForHandler
  <2>3. /\ Prompt \o cmd' = <<">", " ">> /\ Len(Prompt \o cmd') = 2 /\ Len(Prompt) + Len(cmd') = 2
        /\ (Prompt \o cmd') \o erased' = <<">", " ">> /\ Len((Prompt \o cmd') \o erased') = 2
    BY <1>1 DEF Prompt
  <2>4. Fits(cmd)'
    <3>1. 2 <= TERM_COLS
      BY Sizes
    <3>. QED BY <2>3, <3>1 DEF Fits
  <2>5. ShownUpTo(term', Prompt \o cmd', erased')
    <3>1. \A i \in 1 .. 2 : i = 1 \/ i = 2
      OBVIOUS
    <3>2. <<">", " ">>[1] = ">" /\ <<">", " ">>[2] = " " /\ 1 - 1 = 0 /\ 2 - 1 = 1
      OBVIOUS
    <3>. QED BY <1>2, <2>2, <2>3, <3>1, <3>2 DEF ShownUpTo
  <2>6. erased' \in Seq(Shown)
    BY <1>1
  <2>. QED BY <2>1, <2>4, <2>5, <2>6
<1>. QED BY <1>3, <1>4

\* Backspace takes the last character of the command and the cursor back.
LEMMA EraseKeeps == ScreenInv /\ PromptInv /\ HandlerPrints /\ Erase => ScreenInv' /\ PromptInv'
<1>. SUFFICES ASSUME ScreenInv, PromptInv, HandlerPrints, Erase PROVE ScreenInv' /\ PromptInv'
  OBVIOUS
<1>. DEFINE a == ">"
            b == " "
            line == <<a, b>> \o cmd
            less == <<a, b>> \o cmd'
            z == Len(cmd)
            y == Len(cmd')
<1>1. cmd \in Seq(Shown) /\ z < CMD_SIZE /\ z \in Nat
  BY DEF ScreenInv
<1>2. /\ cmd # <<>> /\ cmd' = Front(cmd) /\ erased' = <<Last(cmd)>> \o erased /\ alone' = alone
      /\ term' = terminal_write_char(term, Backspace)
  BY DEF Erase
<1>3. a \in Shown /\ b \in Shown /\ Backspace \in Shown /\ Backspace # Newline
  <2>1. a \in Shown
    BY DEF Shown
  <2>2. b \in Shown
    BY DEF Shown
  <2>3. Backspace \in Shown
    BY DEF Shown
  <2>. QED BY <2>1, <2>2, <2>3 DEF Backspace, Newline
<1>4. /\ Len(line) = 2 + z /\ Len(less) = 1 + z
      /\ \A i \in 1 .. Len(less) : less[i] = line[i]
      /\ cmd' \in Seq(Shown) /\ y = z - 1 /\ z > 0
  <2>1. z > 0
    BY <1>1, <1>2
  <2>. HIDE DEF a, b
  <2>. QED BY <1>1, <1>2, <1>3, <2>1, Shorter
<1>0. erased \in Seq(Shown) => erased' \in Seq(Shown) /\ less \o erased' = line \o erased
  <2>. HIDE DEF a, b
  <2>1. SUFFICES ASSUME erased \in Seq(Shown)
                 PROVE  erased' \in Seq(Shown) /\ less \o erased' = line \o erased
    OBVIOUS
  <2>2. cmd \in Seq(Shown) /\ cmd # <<>> /\ a \in Shown /\ b \in Shown
    BY <1>1, <1>2, <1>3
  <2>3. /\ <<Last(cmd)>> \o erased \in Seq(Shown)
        /\ (<<a, b>> \o Front(cmd)) \o (<<Last(cmd)>> \o erased) = (<<a, b>> \o cmd) \o erased
    <3>. DEFINE h == <<a, b>>
                u == Front(cmd)
                l == <<Last(cmd)>>
    <3>1. u \in Seq(Shown) /\ l \in Seq(Shown) /\ u \o l = cmd
      BY <2>2, FrontAndLast
    <3>2. h \in Seq(Shown)
      BY <2>2
    <3>. HIDE DEF h, u, l
    <3>3. l \o erased \in Seq(Shown) /\ (h \o u) \o (l \o erased) = (h \o cmd) \o erased
      <4>. DEFINE S == Shown
      <4>1. h \in Seq(S) /\ u \in Seq(S) /\ l \in Seq(S) /\ erased \in Seq(S)
        BY <2>1, <3>1, <3>2
      <4>. HIDE DEF S
      <4>2. l \o erased \in Seq(S) /\ (h \o u) \o (l \o erased) = (h \o (u \o l)) \o erased
        BY <4>1, Regrouped, SMTT(60)
      <4>. QED BY <3>1, <4>2 DEF S
    <3>. QED BY <3>3 DEF h, u, l
  <2>. QED BY <1>2, <2>3
<1>. HIDE DEF line, less, z, y, a, b
<1>5. ScreenInv'
  <2>1. Ready(term) => Ready(term')
    BY <1>2, <1>3, WriteKeeps
  <2>2. y < CMD_SIZE
    <3>1. CMD_SIZE \in Nat
      BY Sizes
    <3>. QED BY <1>1, <1>4, <3>1
  <2>. QED BY <1>4, <2>1, <2>2, HandlerKeeps DEF y
<1>6. PromptInv'
  <2>. SUFFICES ASSUME alone', ~torn'
           PROVE  /\ pc' = "idle" /\ erased' \in Seq(Shown) /\ Fits(cmd)'
                  /\ ShownUpTo(term, Prompt \o cmd, erased)'
    BY DEF PromptInv
  <2>1. Ready(term) /\ ~torn /\ alone /\ pc' = pc
    BY <1>2, ReadyForHandler DEF HandlerPrints
  <2>2. pc = "idle" /\ Fits(cmd) /\ erased \in Seq(Shown) /\ ShownUpTo(term, line, erased)
    BY <2>1 DEF PromptInv, Prompt, line, a, b
  <2>3. Fits(cmd')
    <3>1. Len(Prompt) \in Nat /\ TERM_COLS \in Nat
      BY Sizes DEF Prompt
    <3>2. Len(Prompt) + z <= TERM_COLS
      BY <2>2 DEF Fits, z
    <3>3. Len(Prompt) + y <= TERM_COLS
      BY <1>1, <1>4, <3>1, <3>2
    <3>. QED BY <3>3 DEF Fits, y
  <2>4. term.col = 2 + z
    BY <1>4, <2>2 DEF ShownUpTo
  <2>5. term' = [term EXCEPT !.col = term.col - 1]
    <3>1. term.col > 0
      BY <1>1, <2>4
    <3>. QED BY <1>2, <1>3, <2>1, <3>1, WriteKeeps
  <2>6. term'.col = term.col - 1 /\ term'.buffer = term.buffer /\ term'.row = term.row
    <3>1. Guarded(term)
      BY <2>1 DEF Ready
    <3>. QED BY <2>5, <3>1 DEF Guarded
  <2>7. ShownUpTo(term', less, erased')
    <3>1. term'.col = 1 + z
      BY <1>1, <2>4, <2>6
    <3>2. less \o erased' = line \o erased
      BY <1>0, <2>2
    <3>. QED BY <1>4, <2>2, <2>6, <3>1, <3>2 DEF ShownUpTo
  <2>8. erased' \in Seq(Shown)
    BY <1>0, <2>2
  <2>. QED BY <2>1, <2>2, <2>3, <2>7, <2>8 DEF less, Prompt, a, b
<1>. QED BY <1>5, <1>6

\* A character is added to the command and to the line.
LEMMA TypeKeeps ==
  ASSUME ScreenInv, PromptInv, HandlerPrints, NEW c \in Shown, c \notin {Newline, Backspace}, Type(c)
  PROVE  ScreenInv' /\ PromptInv'
<1>. DEFINE a == ">"
            b == " "
            line == <<a, b>> \o cmd
            more == <<a, b>> \o cmd'
            z == Len(cmd)
            y == Len(cmd')
<1>1. cmd \in Seq(Shown) /\ z \in Nat
  BY DEF ScreenInv
<1>2. /\ z < CMD_SIZE - 1 /\ cmd' = Append(cmd, c) /\ erased' = <<>>
      /\ term' = terminal_write_char(term, c) /\ alone' = (alone /\ Fits(cmd'))
  BY DEF Type
<1>3. a \in Shown /\ b \in Shown
  <2>1. a \in Shown
    BY DEF Shown
  <2>2. b \in Shown
    BY DEF Shown
  <2>. QED BY <2>1, <2>2
<1>4. /\ Len(line) = 2 + z /\ Len(more) = 3 + z
      /\ \A i \in 1 .. Len(line) : more[i] = line[i]
      /\ more[3 + z] = c
  <2>. HIDE DEF a, b
  <2>. QED BY <1>1, <1>2, <1>3, Longer
<1>5. cmd' \in Seq(Shown) /\ y = z + 1 /\ erased' \in Seq(Shown)
  BY <1>1, <1>2
<1>0. line \in Seq(Shown) /\ more \o erased' = more
  <2>. HIDE DEF a, b
  <2>1. <<a, b>> \in Seq(Shown)
    BY <1>3
  <2>2. line \in Seq(Shown) /\ more \in Seq(Shown)
    BY <1>1, <1>5, <2>1, ConcatProperties
  <2>. HIDE DEF line, more
  <2>. QED BY <1>2, <2>2, ConcatEmptySeq
<1>. HIDE DEF line, more, z, y, a, b
<1>6. ScreenInv'
  <2>1. Ready(term) => Ready(term')
    BY <1>2, WriteKeeps
  <2>2. y < CMD_SIZE
    <3>1. CMD_SIZE \in Nat
      BY Sizes
    <3>. QED BY <1>1, <1>2, <1>5, <3>1
  <2>. QED BY <1>5, <2>1, <2>2, HandlerKeeps DEF y
<1>7. PromptInv'
  <2>. SUFFICES ASSUME alone', ~torn'
           PROVE  /\ pc' = "idle" /\ erased' \in Seq(Shown) /\ Fits(cmd)'
                  /\ ShownUpTo(term, Prompt \o cmd, erased)'
    BY DEF PromptInv
  <2>1. Ready(term) /\ ~torn /\ alone /\ pc' = pc /\ Fits(cmd')
    BY <1>2, ReadyForHandler DEF HandlerPrints
  <2>2. pc = "idle" /\ erased \in Seq(Shown) /\ ShownUpTo(term, line, erased)
    BY <2>1 DEF PromptInv, Prompt, line, a, b
  <2>3. 3 + z <= TERM_COLS /\ TERM_COLS \in Nat
    <3>1. Len(Prompt) = 2
      BY DEF Prompt
    <3>2. TERM_COLS \in Nat
      BY Sizes
    <3>3. Len(Prompt) + y <= TERM_COLS
      BY <2>1 DEF Fits, y
    <3>. QED BY <1>1, <1>5, <3>1, <3>2, <3>3
  <2>4. term.col = 2 + z /\ \A i \in 1 .. 2 + z : term.buffer[term.row][i - 1] = line[i]
    <3>1. \A i \in 1 .. Len(line) : i \in 1 .. Len(line \o erased) /\ (line \o erased)[i] = line[i]
      BY <1>0, <2>2
    <3>. QED BY <1>4, <2>2, <3>1 DEF ShownUpTo
  <2>5. term.col < TERM_COLS
    BY <1>1, <2>3, <2>4
  <2>6. /\ term'.row = term.row /\ term'.col = term.col + 1
        /\ term'.buffer[term.row][term.col] = c /\ term'.buffer[term.row][term.col + 1] = Nul
        /\ \A j \in Columns : j < term.col => term'.buffer[term.row][j] = term.buffer[term.row][j]
    BY <1>2, <2>1, <2>5, WriteKeeps
  <2>7. ASSUME NEW i \in 1 .. 3 + z PROVE term'.buffer[term.row][i - 1] = more[i]
    <3>1. CASE i = 3 + z
      <4>1. i - 1 = 2 + z
        BY <1>1, <3>1
      <4>. QED BY <1>4, <2>4, <2>6, <3>1, <4>1
    <3>2. CASE i # 3 + z
      <4>1. i \in 1 .. 2 + z /\ i - 1 < 2 + z /\ i - 1 \in 0 .. TERM_COLS
        BY <1>1, <2>3, <3>2
      <4>2. term.buffer[term.row][i - 1] = line[i] /\ more[i] = line[i]
        BY <1>4, <2>4, <4>1
      <4>. QED BY <2>4, <2>6, <4>1, <4>2 DEF Columns
    <3>. QED BY <3>1, <3>2
  <2>8. term'.col = 3 + z /\ term'.buffer[term.row][3 + z] = Nul
    BY <1>1, <2>4, <2>6
  <2>9. ShownUpTo(term', more, erased')
    BY <1>0, <1>4, <2>6, <2>7, <2>8 DEF ShownUpTo
  <2>. QED BY <1>5, <2>1, <2>2, <2>9 DEF more, Prompt, a, b
<1>. QED BY <1>6, <1>7

\* A handler's message is nobody's command.
LEMMA LogKeeps ==
  ASSUME ScreenInv, NEW s \in Seq(Shown), Log(s)
  PROVE  ScreenInv' /\ PromptInv'
<1>1. HandlerPrints /\ term' = terminal_write_string(term, s) /\ alone' = FALSE /\ cmd' = cmd
  BY DEF Log
<1>2. cmd' \in Seq(Shown) /\ Len(cmd') < CMD_SIZE
  BY <1>1 DEF ScreenInv
<1>3. Ready(term) => Ready(term')
  BY <1>1, StringKeeps
<1>. QED BY <1>1, <1>2, <1>3, HandlerKeeps DEF PromptInv

\* Every key.
LEMMA KeyKeeps ==
  ASSUME ScreenInv, PromptInv, NEW c \in Keys \cup {Return}, terminal_key(c)
  PROVE  ScreenInv' /\ PromptInv'
<1>1. CASE c = Return
  BY <1>1 DEF terminal_key, termVars, ScreenInv, PromptInv, Guarded, Fits, ShownUpTo
<1>2. CASE c # Return
  <2>1. c \in Shown /\ HandlerPrints
    BY <1>2 DEF terminal_key, Shown
  <2>2. CASE c = Newline
    <3>1. Enter
      BY <1>2, <2>2 DEF terminal_key, Newline, Backspace
    <3>. QED BY <2>1, <3>1, EnterKeeps
  <2>3. CASE c = Backspace
    <3>1. Erase
      BY <1>2, <2>3 DEF terminal_key, Newline, Backspace
    <3>. QED BY <2>1, <3>1, EraseKeeps
  <2>4. CASE c \notin {Newline, Backspace}
    <3>1. Type(c)
      BY <1>2, <2>4 DEF terminal_key, Newline, Backspace
    <3>. QED BY <2>1, <2>4, <3>1, TypeKeeps
  <2>. QED BY <2>2, <2>3, <2>4
<1>. QED BY <1>1, <1>2

\* So a stored character leaves the rows terminated and the place where it is.
LEMMA PutStays ==
  ASSUME NEW t, Guarded(t), NEW i \in Lines, NEW j \in Columns, NEW c \in Shown,
         j = TERM_COLS => c = Nul
  PROVE  Guarded(Put(t, i, j, c)) /\ Put(t, i, j, c).row = t.row
<1>1. /\ Guarded(Put(t, i, j, c))
      /\ Put(t, i, j, c).row = t.row /\ Put(t, i, j, c).col = t.col
      /\ Put(t, i, j, c).buffer = [t.buffer EXCEPT ![i] = [t.buffer[i] EXCEPT ![j] = c]]
  BY PutKeeps
<1>. QED BY <1>1

\* The main thread keeps the screen at every statement.
LEMMA MainKeeps == ScreenInv /\ ~torn /\ Main => ScreenInv'
<1>. SUFFICES ASSUME ScreenInv, ~torn, Main PROVE ScreenInv'
  OBVIOUS
<1>1. /\ cmd \in Seq(Shown) /\ Len(cmd) < CMD_SIZE
      /\ out \in Seq(Shown) /\ ch \in Shown
      /\ Guarded(term)
      /\ term.row = TERM_ROWS => pc \in {"home", "check"}
      /\ pc \in {"row", "col"} => term.col < TERM_COLS
      /\ pc \in {"add", "col", "bump", "put", "col2", "nul"} => r \in Lines
      /\ pc \in {"bump", "put"} => k \in Columns /\ k < TERM_COLS
      /\ pc = "nul" => k \in Columns
  BY DEF ScreenInv
<1>2. /\ term.row \in 0 .. TERM_ROWS /\ term.col \in Columns
      /\ pc \notin {"home", "check"} => term.row \in Lines
  <2>1. term.row \in 0 .. TERM_ROWS /\ term.col \in Columns
    BY <1>1 DEF Guarded
  <2>2. TERM_ROWS \in Nat
    BY Sizes
  <2>. QED BY <1>1, <2>1, <2>2 DEF Lines
<1>3. UNCHANGED <<cmd, torn>>
  BY DEF Main, Say, Next_char, LoadLine, AddLine, Home, Test, LoadRow, LoadCol, Bump, PutChar,
         LoadRow2, LoadCol2, PutNul, Check, At, KeepKeys
<1>4. CASE Say
  <2>1. pc' = "putc" /\ out' = Text.main /\ UNCHANGED <<term, ch, r, k>> /\ pc = "idle"
    BY <1>4 DEF Say, At
  <2>2. out' \in Seq(Shown)
    BY <2>1, TextShown
  <2>. QED BY <1>1, <1>3, <2>1, <2>2 DEF ScreenInv, Guarded
<1>5. CASE Next_char
  <2>1. /\ pc = "putc" /\ UNCHANGED <<term, r, k>>
        /\ \/ out' = out /\ ch' = ch /\ pc' = "idle"
           \/ out # <<>> /\ ch' = Head(out) /\ out' = Tail(out) /\ pc' \in {"line", "test"}
    BY <1>5 DEF Next_char
  <2>2. out' \in Seq(Shown) /\ ch' \in Shown
    BY <1>1, <2>1, HeadTailProperties
  <2>. QED BY <1>1, <1>3, <2>1, <2>2 DEF ScreenInv, Guarded
<1>6. CASE LoadLine \/ LoadRow2
  <2>1. pc \in {"line", "row2"} /\ pc' \in {"add", "col2"} /\ r' = term.row /\ UNCHANGED <<term, out, ch>>
    BY <1>6 DEF LoadLine, LoadRow2, At, KeepText
  <2>. QED BY <1>1, <1>2, <1>3, <2>1 DEF ScreenInv, Guarded
<1>7. CASE AddLine
  <2>1. pc = "add" /\ pc' = "home" /\ term' = [term EXCEPT !.row = r + 1] /\ UNCHANGED <<out, ch>>
    BY <1>7 DEF AddLine, At, KeepText
  <2>2. r + 1 \in 0 .. TERM_ROWS
    BY <1>1, <2>1, Sizes
  <2>3. Guarded(term')
    BY <1>1, <2>1, <2>2 DEF Guarded
  <2>. QED BY <1>1, <1>3, <2>1, <2>3 DEF ScreenInv
<1>8. CASE Home
  <2>1. pc = "home" /\ pc' = "check" /\ term' = [term EXCEPT !.col = 0] /\ UNCHANGED <<out, ch>>
    BY <1>8 DEF Home, At, KeepText
  <2>2. 0 \in Columns
    BY Sizes
  <2>3. Guarded(term')
    BY <1>1, <2>1, <2>2 DEF Guarded
  <2>. QED BY <1>1, <1>3, <2>1, <2>3 DEF ScreenInv
<1>9. CASE Test
  <2>1. /\ pc = "test" /\ UNCHANGED <<term, out, ch>>
        /\ pc' = IF term.col < TERM_COLS THEN "row" ELSE "check"
    BY <1>9 DEF Test, KeepText
  <2>. QED BY <1>1, <1>2, <1>3, <2>1 DEF ScreenInv, Guarded
<1>10. CASE LoadRow
  <2>1. pc = "row" /\ pc' = "col" /\ r' = term.row /\ UNCHANGED <<term, out, ch>>
    BY <1>10 DEF LoadRow, At, KeepText
  <2>. QED BY <1>1, <1>2, <1>3, <2>1 DEF ScreenInv, Guarded
<1>11. CASE LoadCol
  <2>1. pc = "col" /\ pc' = "bump" /\ k' = term.col /\ UNCHANGED <<term, r, out, ch>>
    BY <1>11 DEF LoadCol, At, KeepText
  <2>. QED BY <1>1, <1>2, <1>3, <2>1 DEF ScreenInv, Guarded
<1>12. CASE Bump
  <2>1. pc = "bump" /\ pc' = "put" /\ term' = [term EXCEPT !.col = k + 1] /\ UNCHANGED <<r, k, out, ch>>
    BY <1>12 DEF Bump, At, KeepText
  <2>2. k + 1 \in Columns
    <3>1. k \in Columns /\ k < TERM_COLS
      BY <1>1, <2>1
    <3>. QED BY <3>1, Sizes
  <2>3. Guarded(term') /\ term'.row = term.row
    BY <1>1, <2>1, <2>2 DEF Guarded
  <2>. QED BY <1>1, <1>3, <2>1, <2>3 DEF ScreenInv
<1>13. CASE PutChar
  <2>1. pc = "put" /\ pc' = "row2" /\ term' = Put(term, r, k, ch) /\ UNCHANGED <<out, ch>>
    BY <1>13 DEF PutChar, At, KeepText
  <2>2. r \in Lines /\ k \in Columns /\ k # TERM_COLS
    <3>1. r \in Lines /\ k \in Columns /\ k < TERM_COLS
      BY <1>1, <2>1
    <3>2. k \in Nat /\ TERM_COLS \in Nat
      BY <3>1, Sizes
    <3>. QED BY <3>1, <3>2
  <2>3. Guarded(term') /\ term'.row = term.row
    <3>1. Guarded(term) /\ r \in Lines /\ k \in Columns /\ ch \in Shown /\ (k = TERM_COLS => ch = Nul)
      BY <1>1, <2>2
    <3>2. Guarded(Put(term, r, k, ch)) /\ Put(term, r, k, ch).row = term.row
      BY <3>1, PutStays, Zenon
    <3>. QED BY <2>1, <3>2
  <2>. QED BY <1>1, <1>3, <2>1, <2>3 DEF ScreenInv
<1>14. CASE LoadCol2
  <2>1. pc = "col2" /\ pc' = "nul" /\ k' = term.col /\ UNCHANGED <<term, r, out, ch>>
    BY <1>14 DEF LoadCol2, At, KeepText
  <2>. QED BY <1>1, <1>2, <1>3, <2>1 DEF ScreenInv, Guarded
<1>15. CASE PutNul
  <2>1. pc = "nul" /\ pc' = "check" /\ term' = Put(term, r, k, Nul) /\ UNCHANGED <<out, ch>>
    BY <1>15 DEF PutNul, At, KeepText
  <2>2. r \in Lines /\ k \in Columns /\ Nul \in Shown
    <3>1. Nul \in Shown
      BY DEF Shown
    <3>. QED BY <1>1, <2>1, <3>1
  <2>3. Guarded(term') /\ term'.row = term.row
    <3>1. Guarded(term) /\ r \in Lines /\ k \in Columns /\ Nul \in Shown /\ (k = TERM_COLS => Nul = Nul)
      BY <1>1, <2>2
    <3>2. Guarded(Put(term, r, k, Nul)) /\ Put(term, r, k, Nul).row = term.row
      BY <3>1, PutStays, Zenon
    <3>. QED BY <2>1, <3>2
  <2>. QED BY <1>1, <1>3, <2>1, <2>3 DEF ScreenInv
<1>16. CASE Check
  <2>1. pc = "check" /\ pc' = "putc" /\ term' = Scrolled(term) /\ ch' = Nul /\ out' = out
    BY <1>16 DEF Check, At
  <2>2. Nul \in Shown
    BY DEF Shown
  <2>3. Guarded(term') /\ term'.row \in Lines
    BY <1>1, <2>1, ScrollKeeps DEF Ready
  <2>4. term'.row # TERM_ROWS
    <3>1. term'.row < TERM_ROWS /\ TERM_ROWS \in Nat /\ term'.row \in Nat
      BY <2>3, Sizes
    <3>. QED BY <3>1
  <2>. QED BY <1>1, <1>3, <2>1, <2>2, <2>3, <2>4 DEF ScreenInv
<1>. QED BY <1>4, <1>5, <1>6, <1>7, <1>8, <1>9, <1>10, <1>11, <1>12, <1>13, <1>14, <1>15, <1>16 DEF Main

\* While only keys come, the main thread has nothing to do.
LEMMA MainAlone == PromptInv /\ ~torn /\ Main => PromptInv'
<1>. SUFFICES ASSUME PromptInv, ~torn, Main PROVE PromptInv'
  OBVIOUS
<1>1. CASE alone
  <2>1. pc = "idle"
    BY <1>1 DEF PromptInv
  <2>2. alone' = FALSE
    BY <2>1 DEF Main, Say, Next_char, LoadLine, AddLine, Home, Test, LoadRow, LoadCol, Bump, PutChar,
                LoadRow2, LoadCol2, PutNul, Check, At
  <2>. QED BY <2>2 DEF PromptInv
<1>2. CASE ~alone
  <2>1. ~alone'
    BY <1>2 DEF Main, Say, Next_char, LoadLine, AddLine, Home, Test, LoadRow, LoadCol, Bump, PutChar,
                LoadRow2, LoadCol2, PutNul, Check, At, KeepText
  <2>. QED BY <2>1 DEF PromptInv
<1>. QED BY <1>1, <1>2

\* The terminal as it is set up.
LEMMA TerminalBegins == TerminalInit => ScreenInv /\ PromptInv
<1>. SUFFICES ASSUME TerminalInit PROVE ScreenInv /\ PromptInv
  OBVIOUS
<1>1. /\ term = [buffer |-> [i \in Lines |-> Blank], row |-> 0, col |-> 0, outside |-> FALSE]
      /\ cmd = <<>> /\ pc = "putc" /\ out = Text.banner \o Prompt /\ ch = Nul /\ alone = FALSE
  BY DEF TerminalInit, Lines
<1>2. Nul \in Shown
  BY DEF Shown
<1>3. Blank \in [Columns -> Shown] /\ Blank[TERM_COLS] = Nul
  BY <1>2, Sizes DEF Blank, Columns
<1>4. [i \in Lines |-> Blank] \in [Lines -> [Columns -> Shown]]
      /\ \A i \in Lines : [j \in Lines |-> Blank][i] = Blank
  BY <1>3
<1>5. 0 \in 0 .. TERM_ROWS /\ 0 \in Columns /\ 0 # TERM_ROWS
  <2>1. 0 \in Columns /\ TERM_ROWS \in Nat \ {0}
    BY Sizes
  <2>. QED BY <2>1
<1>6. Guarded(term)
  <2>. DEFINE b == [i \in Lines |-> Blank]
  <2>1. b \in [Lines -> [Columns -> Shown]] /\ \A i \in Lines : b[i][TERM_COLS] = Nul
    BY <1>3, <1>4
  <2>2. term = [buffer |-> b, row |-> 0, col |-> 0, outside |-> FALSE]
    BY <1>1
  <2>. HIDE DEF b
  <2>. QED BY <1>5, <2>1, <2>2 DEF Guarded
<1>7. out \in Seq(Shown)
  <2>. DEFINE x == Text.banner
  <2>1. x \in Seq(Shown) /\ Prompt \in Seq(Shown)
    BY TextShown
  <2>. HIDE DEF x
  <2>2. x \o Prompt \in Seq(Shown)
    BY <2>1
  <2>. QED BY <1>1, <2>2 DEF x
<1>8. cmd \in Seq(Shown) /\ Len(cmd) < CMD_SIZE /\ term.row # TERM_ROWS
  BY <1>1, <1>5, Sizes
<1>. QED BY <1>1, <1>2, <1>6, <1>7, <1>8 DEF ScreenInv, PromptInv

\* Every step keeps both.
LEMMA TerminalStep ==
  ScreenInv /\ PromptInv /\ [Next]_appsVars => ScreenInv' /\ PromptInv'
<1>. SUFFICES ASSUME ScreenInv, PromptInv, [Next]_appsVars PROVE ScreenInv' /\ PromptInv'
  OBVIOUS
<1>1. CASE \E c \in Keys \cup {Return} : terminal_key(c)
  BY <1>1, KeyKeeps
<1>2. CASE Log(Text.click) \/ Log(Text.click \o Text.click)
  <2>. DEFINE x == Text.click
  <2>1. x \in Seq(Shown)
    BY TextShown
  <2>2. Log(x) \/ Log(x \o x)
    BY <1>2
  <2>. HIDE DEF x
  <2>3. x \o x \in Seq(Shown)
    BY <2>1
  <2>. QED BY <2>1, <2>2, <2>3, LogKeeps
<1>3. CASE ~torn /\ Main
  BY <1>3, MainKeeps, MainAlone
<1>4. CASE UNCHANGED termVars
  BY <1>4 DEF termVars, ScreenInv, PromptInv, Guarded, Fits, ShownUpTo
<1>. QED
  BY <1>1, <1>2, <1>3, <1>4
     DEF Next, TerminalKey, NotepadKey, timer, CalcClick, Minimize, MainThread, Formatting, KeepApps,
         appsVars

\* ScreenIntact: whatever handlers print while the main thread does, no store of
\* terminal_write_char leaves its row and every row keeps its terminator, for a
\* screen of any size, unless a handler comes at one of the moments that torn
\* records.
THEOREM ScreenIntactCorrect == AppsSpec => []ScreenIntact
<1>1. Init => ScreenInv /\ PromptInv
  BY TerminalBegins DEF Init
<1>2. ScreenInv => ScreenIntact
  <2>. SUFFICES ASSUME ScreenInv PROVE ScreenIntact
    OBVIOUS
  <2>1. ASSUME ~torn PROVE ~term.outside /\ \A i \in 0 .. TERM_ROWS - 1 : Terminated(term.buffer[i])
    <3>1. Guarded(term) /\ TERM_COLS \in Columns
      BY <2>1, Sizes DEF ScreenInv
    <3>. QED BY <3>1 DEF Guarded, Terminated, Lines, Columns
  <2>. QED BY <2>1 DEF ScreenInv, ScreenIntact
<1>. QED BY <1>1, <1>2, TerminalStep, PTL DEF AppsSpec

\* PromptShown: as long as only keys come and the command fits into its row, the
\* cursor stands behind the prompt and the command, and the row holds these and the
\* characters erased since the last one typed, for a screen of any size.
THEOREM PromptShownCorrect == AppsSpec => []PromptShown
<1>1. Init => ScreenInv /\ PromptInv
  BY TerminalBegins DEF Init
<1>2. PromptInv => PromptShown
  BY DEF PromptInv, PromptShown, ShownUpTo
<1>. QED BY <1>1, <1>2, TerminalStep, PTL DEF AppsSpec

-----------------------------------------------------------------------------
(* The calculator: numbers and their digits.                               *)

Figures == 0 .. 9
Signs == Figures \cup {Minus}

\* What the first n digits come to, one by one.
Counts(w, s, n) == w[0] = 0 /\ \A i \in 1 .. n : w[i] = WithDigit(w[i - 1], s[i])

\* Two counts of the same digits agree.
LEMMA CountsAgree ==
  ASSUME NEW n \in Nat, NEW s, NEW v, NEW w, Counts(v, s, n), Counts(w, s, n)
  PROVE  \A i \in 0 .. n : v[i] = w[i]
<1>. DEFINE Bad == {i \in 0 .. n : v[i] # w[i]}
<1>1. SUFFICES ASSUME Bad # {} PROVE FALSE
  OBVIOUS
<1>2. PICK a \in Bad : \A b \in Bad : a <= b
  <2>1. Bad \subseteq Nat
    OBVIOUS
  <2>. QED BY <1>1, <2>1, LeastOf
<1>3. a # 0
  BY DEF Counts
<1>4. a \in 1 .. n /\ a - 1 \in 0 .. n /\ ~(a <= a - 1)
  BY <1>3
<1>5. v[a - 1] = w[a - 1]
  BY <1>2, <1>4
<1>. QED BY <1>4, <1>5 DEF Counts

\* A count is a natural number.
LEMMA CountsNat ==
  ASSUME NEW n \in Nat, NEW s, NEW w, w[0] = 0, \A i \in 1 .. n : s[i] \in Signs,
         \A i \in 1 .. n : w[i] = WithDigit(w[i - 1], s[i])
  PROVE  \A i \in 0 .. n : w[i] \in Nat
<1>. DEFINE Bad == {i \in 0 .. n : w[i] \notin Nat}
<1>1. SUFFICES ASSUME Bad # {} PROVE FALSE
  OBVIOUS
<1>2. PICK a \in Bad : \A b \in Bad : a <= b
  <2>1. Bad \subseteq Nat
    OBVIOUS
  <2>. QED BY <1>1, <2>1, LeastOf
<1>3. a # 0
  OBVIOUS
<1>4. a \in 1 .. n /\ a - 1 \in 0 .. n /\ ~(a <= a - 1)
  BY <1>3
<1>5. w[a - 1] \in Nat
  BY <1>2, <1>4
<1>6. s[a] \in Signs /\ w[a] = WithDigit(w[a - 1], s[a])
  BY <1>4
<1>7. w[a] \in Nat
  BY <1>5, <1>6 DEF WithDigit, Signs, Figures, Minus
<1>. QED BY <1>7

\* A digit behind a number makes it ten times as large.
LEMMA ValueSteps ==
  ASSUME NEW s \in Seq(Signs)
  PROVE  /\ Value(s) \in Nat /\ Value(<<>>) = 0
         /\ \A d \in Figures : Value(Append(s, d)) = 10 * Value(s) + d
<1>1. Len(s) \in Nat /\ \A i \in 1 .. Len(s) : s[i] \in Signs
  OBVIOUS
<1>2. PICK w : /\ w[0] = 0 /\ Value(s) = w[Len(s)]
               /\ \A i \in 1 .. Len(s) : w[i] = WithDigit(w[i - 1], s[i])
  BY Counted
<1>3. Value(s) \in Nat
  <2>1. \A i \in 0 .. Len(s) : w[i] \in Nat
    BY <1>1, <1>2, CountsNat
  <2>. QED BY <1>1, <1>2, <2>1
<1>4. Value(<<>>) = 0
  <2>1. <<>> \in Seq(Signs) /\ Len(<<>>) = 0
    OBVIOUS
  <2>2. PICK v : v[0] = 0 /\ Value(<<>>) = v[Len(<<>>)]
    BY <2>1, Counted
  <2>. QED BY <2>1, <2>2
<1>5. ASSUME NEW d \in Figures PROVE Value(Append(s, d)) = 10 * Value(s) + d
  <2>. DEFINE t == Append(s, d)
  <2>1. /\ t \in Seq(Signs) /\ Len(t) = Len(s) + 1 /\ t[Len(s) + 1] = d
        /\ \A i \in 1 .. Len(s) : t[i] = s[i]
    BY DEF Signs
  <2>. HIDE DEF t
  <2>2. PICK v : /\ v[0] = 0 /\ Value(t) = v[Len(t)]
                 /\ \A i \in 1 .. Len(t) : v[i] = WithDigit(v[i - 1], t[i])
    BY <2>1, Counted
  <2>3. \A i \in 1 .. Len(s) : v[i] = WithDigit(v[i - 1], s[i])
    BY <1>1, <2>1, <2>2
  <2>4. \A i \in 0 .. Len(s) : v[i] = w[i]
    <3>1. Counts(v, s, Len(s)) /\ Counts(w, s, Len(s))
      BY <1>2, <2>2, <2>3 DEF Counts
    <3>. QED BY <1>1, <3>1, CountsAgree
  <2>5. v[Len(s)] = Value(s)
    BY <1>1, <1>2, <2>4
  <2>6. v[Len(s) + 1] = WithDigit(v[Len(s)], d)
    <3>1. Len(s) + 1 \in 1 .. Len(t) /\ (Len(s) + 1) - 1 = Len(s)
      BY <1>1, <2>1
    <3>. QED BY <2>1, <2>2, <3>1
  <2>7. WithDigit(Value(s), d) = Value(s) * 10 + d
    BY DEF WithDigit, Figures, Minus
  <2>8. Value(t) = Value(s) * 10 + d
    BY <2>1, <2>2, <2>5, <2>6, <2>7
  <2>9. Value(s) * 10 + d = 10 * Value(s) + d
    BY <1>3
  <2>. QED BY <2>8, <2>9 DEF t
<1>. QED BY <1>3, <1>4, <1>5

\* A sign in front changes nothing of the digits' value.
LEMMA ValueSigned ==
  ASSUME NEW s \in Seq(Figures)
  PROVE  Value(<<Minus>> \o s) = Value(s)
<1>. DEFINE t == <<Minus>> \o s
<1>1. Len(s) \in Nat /\ s \in Seq(Signs) /\ \A i \in 1 .. Len(s) : s[i] \in Signs
  BY DEF Signs
<1>2. /\ t \in Seq(Signs) /\ Len(t) = Len(s) + 1 /\ t[1] = Minus
      /\ \A i \in 1 .. Len(s) : t[i + 1] = s[i]
  <2>1. <<Minus>> \in Seq(Signs) /\ Len(<<Minus>>) = 1 /\ <<Minus>>[1] = Minus
    BY DEF Signs
  <2>. QED BY <1>1, <2>1
<1>. HIDE DEF t
<1>3. PICK w : /\ w[0] = 0 /\ Value(s) = w[Len(s)]
               /\ \A i \in 1 .. Len(s) : w[i] = WithDigit(w[i - 1], s[i])
  BY Counted
<1>4. PICK v : /\ v[0] = 0 /\ Value(t) = v[Len(t)]
               /\ \A i \in 1 .. Len(t) : v[i] = WithDigit(v[i - 1], t[i])
  BY <1>2, Counted
<1>. DEFINE u == [i \in 0 .. Len(s) |-> v[i + 1]]
<1>5. u[0] = 0
  <2>1. v[1] = WithDigit(v[0], t[1])
    BY <1>1, <1>2, <1>4
  <2>. QED BY <1>1, <1>2, <1>4, <2>1 DEF WithDigit
<1>6. ASSUME NEW i \in 1 .. Len(s) PROVE u[i] = WithDigit(u[i - 1], s[i])
  <2>1. i + 1 \in 1 .. Len(t) /\ (i + 1) - 1 = i /\ (i - 1) + 1 = i
        /\ i \in 0 .. Len(s) /\ i - 1 \in 0 .. Len(s)
    BY <1>1, <1>2
  <2>2. v[i + 1] = WithDigit(v[i], t[i + 1])
    BY <1>4, <2>1
  <2>. QED BY <1>2, <2>1, <2>2
<1>7. u[Len(s)] = Value(t)
  BY <1>1, <1>2, <1>4
<1>. HIDE DEF u
<1>8. \A i \in 0 .. Len(s) : u[i] = w[i]
  <2>1. Counts(u, s, Len(s)) /\ Counts(w, s, Len(s))
    BY <1>3, <1>5, <1>6 DEF Counts
  <2>. QED BY <1>1, <2>1, CountsAgree
<1>. QED BY <1>1, <1>3, <1>7, <1>8 DEF t

\* The last digit and the others.
LEMMA Quotient ==
  ASSUME NEW n \in Nat, n >= 10
  PROVE  \E q \in 0 .. n - 1, d \in Figures :
           n \div 10 = q /\ n % 10 = d /\ q \in Nat /\ n = 10 * q + d
<1>1. n \div 10 \in Nat
  OBVIOUS
<1>2. n % 10 \in Nat /\ n % 10 <= 9
  OBVIOUS
<1>3. (n \div 10) * 10 + (n % 10) = n
  OBVIOUS
<1>. DEFINE q == n \div 10
            d == n % 10
<1>. HIDE DEF q, d
<1>4. q \in Nat /\ d \in Nat /\ d <= 9 /\ q * 10 + d = n
  BY <1>1, <1>2, <1>3 DEF q, d
<1>5. q \in Nat /\ q \in 0 .. n - 1 /\ d \in Figures /\ n = 10 * q + d
  BY <1>4 DEF Figures
<1>6. n \div 10 = q /\ n % 10 = d
  BY Zenon DEF q, d
<1>. QED BY <1>5, <1>6, Zenon

\* One digit and the others.
LEMMA DigitsSteps ==
  \A n \in Nat : Digits[n] = IF n < 10 THEN <<n>> ELSE Append(Digits[n \div 10], n % 10)
<1>. DEFINE Is(f) == f = [n \in Nat |-> IF n < 10 THEN <<n>> ELSE Append(f[n \div 10], n % 10)]
<1>1. Figuring!LooksBack("")
  <2>. SUFFICES ASSUME NEW n \in Nat, NEW f, NEW g, \A i \in 0 .. n - 1 : f[i] = g[i], n >= 10
                PROVE  f[n \div 10] = g[n \div 10]
    BY DEF Figuring!LooksBack
  <2>1. PICK q \in 0 .. n - 1 : n \div 10 = q
    BY Quotient
  <2>. QED BY <2>1
<1>2. \E f : Is(f)
  BY <1>1, Figuring!Unfolds
<1>3. Digits = CHOOSE f : Is(f)
  BY DEF Digits
<1>4. Is(Digits)
  <2>. HIDE DEF Is
  <2>. QED BY <1>2, <1>3
<1>. QED BY <1>4

\* A power is the base times the power before.
LEMMA PowersStep ==
  ASSUME NEW b
  PROVE  \A n \in Nat : Powers(b)[n] = IF n = 0 THEN 1 ELSE b * Powers(b)[n - 1]
<1>. DEFINE Is(f) == f = [n \in Nat |-> IF n = 0 THEN 1 ELSE b * f[n - 1]]
<1>1. Raising!LooksBack(b)
  <2>. SUFFICES ASSUME NEW n \in Nat, NEW f, NEW g, \A i \in 0 .. n - 1 : f[i] = g[i], n # 0
                PROVE  f[n - 1] = g[n - 1]
    BY DEF Raising!LooksBack
  <2>1. n - 1 \in 0 .. n - 1
    OBVIOUS
  <2>. QED BY <2>1
<1>2. \E f : Is(f)
  BY <1>1, Raising!Unfolds
<1>3. Powers(b) = CHOOSE f : Is(f)
  BY DEF Powers
<1>4. Is(Powers(b))
  <2>. HIDE DEF Is
  <2>. QED BY <1>2, <1>3
<1>. QED BY <1>4

\* Tens likewise.
LEMMA TensSteps == \A n \in Nat : Tens[n] = IF n = 0 THEN 1 ELSE 10 * Tens[n - 1]
BY PowersStep DEF Tens

\* A digit by itself.
LEMMA OneFigure ==
  ASSUME NEW d \in Figures
  PROVE  <<d>> \in Seq(Figures) /\ <<d>> # <<>> /\ Len(<<d>>) = 1 /\ Value(<<d>>) = d
<1>1. <<>> \in Seq(Signs) /\ Append(<<>>, d) = <<d>>
  OBVIOUS
<1>2. Value(<<>>) = 0 /\ Value(Append(<<>>, d)) = 10 * Value(<<>>) + d
  BY <1>1, ValueSteps
<1>3. d \in Int
  BY DEF Figures
<1>. QED BY <1>1, <1>2, <1>3

\* The digits of a number count it again: there is no least number for which not.
LEMMA DigitsRead ==
  \A n \in Nat : /\ Digits[n] \in Seq(Figures) /\ Digits[n] # <<>>
                 /\ Value(Digits[n]) = n
<1>. DEFINE Good(n) == Digits[n] \in Seq(Figures) /\ Digits[n] # <<>> /\ Value(Digits[n]) = n
            Bad == {n \in Nat : ~Good(n)}
<1>1. SUFFICES ASSUME Bad # {} PROVE FALSE
  OBVIOUS
<1>2. PICK a \in Bad : \A b \in Bad : a <= b
  BY <1>1, LeastOf
<1>3. a \in Nat /\ ~Good(a) /\ \A n \in Nat : n < a => Good(n)
  BY <1>2
<1>. HIDE DEF Good
<1>4. CASE a < 10
  <2>0. a \in Figures
    BY <1>3, <1>4 DEF Figures
  <2>1. Digits[a] = <<a>>
    BY <1>3, <1>4, DigitsSteps
  <2>2. Good(a)
    BY <2>0, <2>1, OneFigure DEF Good
  <2>. QED BY <1>3, <2>2
<1>5. CASE ~(a < 10)
  <2>1. a >= 10
    BY <1>3, <1>5
  <2>2. PICK q \in 0 .. a - 1, d \in Figures :
          a \div 10 = q /\ a % 10 = d /\ q \in Nat /\ a = 10 * q + d
    BY <1>3, <2>1, Quotient
  <2>3. Digits[a] = Append(Digits[q], d)
    BY <1>3, <1>5, <2>2, DigitsSteps
  <2>4. Good(q)
    BY <1>3, <2>2
  <2>5. /\ Digits[q] \in Seq(Figures) /\ Digits[q] \in Seq(Signs)
        /\ Append(Digits[q], d) \in Seq(Figures) /\ Append(Digits[q], d) # <<>>
    <3>. DEFINE t == Digits[q]
    <3>1. t \in Seq(Figures)
      BY <2>4 DEF Good
    <3>. HIDE DEF t
    <3>2. t \in Seq(Signs) /\ Append(t, d) \in Seq(Figures) /\ Append(t, d) # <<>>
      BY <3>1 DEF Signs
    <3>. QED BY <3>1, <3>2 DEF t
  <2>6. Value(Append(Digits[q], d)) = 10 * Value(Digits[q]) + d
    BY <2>5, ValueSteps
  <2>7. Good(a)
    BY <2>2, <2>3, <2>4, <2>5, <2>6 DEF Good
  <2>. QED BY <1>3, <2>7
<1>. QED BY <1>4, <1>5

\* What int_to_str writes, str_to_int reads.
LEMMA RoundTrip ==
  ASSUME NEW n \in Int
  PROVE  /\ int_to_str(n) \in Seq(Signs) /\ int_to_str(n) # <<>>
         /\ str_to_int(int_to_str(n)) = n
<1>1. CASE n >= 0
  <2>. DEFINE s == Digits[n]
  <2>1. n \in Nat /\ int_to_str(n) = s
    BY <1>1 DEF int_to_str
  <2>2. s \in Seq(Figures) /\ s # <<>> /\ Value(s) = n
    BY <2>1, DigitsRead
  <2>. HIDE DEF s
  <2>3. s \in Seq(Signs) /\ s[1] \in Figures
    BY <2>2 DEF Signs
  <2>4. s[1] # Minus
    BY <2>3 DEF Figures, Minus
  <2>. QED BY <2>1, <2>2, <2>3, <2>4 DEF str_to_int
<1>2. CASE n < 0
  <2>. DEFINE s == Digits[-n]
  <2>1. -n \in Nat /\ int_to_str(n) = <<Minus>> \o s
    BY <1>2 DEF int_to_str
  <2>2. s \in Seq(Figures) /\ Value(s) = -n
    BY <2>1, DigitsRead
  <2>. HIDE DEF s
  <2>3. <<Minus>> \o s \in Seq(Signs) /\ <<Minus>> \o s # <<>> /\ (<<Minus>> \o s)[1] = Minus
    <3>1. <<Minus>> \in Seq(Signs) /\ s \in Seq(Signs) /\ Len(<<Minus>>) = 1 /\ <<Minus>>[1] = Minus
      BY <2>2 DEF Signs
    <3>2. Len(<<Minus>> \o s) = 1 + Len(s) /\ Len(s) \in Nat
      BY <3>1
    <3>. QED BY <3>1, <3>2
  <2>4. Value(<<Minus>> \o s) = -n
    BY <2>2, ValueSigned
  <2>5. str_to_int(<<Minus>> \o s) = -(-n)
    BY <2>3, <2>4 DEF str_to_int
  <2>. QED BY <2>1, <2>3, <2>5
<1>. QED BY <1>1, <1>2

\* Powers of ten grow.
LEMMA TensGrow ==
  /\ \A n \in Nat : Tens[n] \in Nat /\ Tens[n] >= 1 /\ Tens[n + 1] = 10 * Tens[n]
  /\ \A m, n \in Nat : m <= n => Tens[m] <= Tens[n]
<1>1. \A n \in Nat : Tens[n] \in Nat /\ Tens[n] >= 1
  <2>. DEFINE Bad == {n \in Nat : ~(Tens[n] \in Nat /\ Tens[n] >= 1)}
  <2>1. SUFFICES ASSUME Bad # {} PROVE FALSE
    OBVIOUS
  <2>2. PICK a \in Bad : \A b \in Bad : a <= b
    BY <2>1, LeastOf
  <2>3. Tens[0] = 1
    BY TensSteps
  <2>4. a # 0
    BY <2>3
  <2>5. a - 1 \in Nat /\ ~(a <= a - 1)
    BY <2>4
  <2>6. Tens[a - 1] \in Nat /\ Tens[a - 1] >= 1
    BY <2>2, <2>5
  <2>7. Tens[a] = 10 * Tens[a - 1]
    BY <2>4, TensSteps
  <2>. QED BY <2>6, <2>7
<1>2. ASSUME NEW n \in Nat PROVE Tens[n + 1] = 10 * Tens[n]
  <2>1. n + 1 \in Nat /\ n + 1 # 0 /\ (n + 1) - 1 = n
    OBVIOUS
  <2>. QED BY <2>1, TensSteps
<1>3. ASSUME NEW m \in Nat PROVE \A n \in Nat : m <= n => Tens[m] <= Tens[n]
  <2>. DEFINE Bad == {n \in Nat : m <= n /\ ~(Tens[m] <= Tens[n])}
  <2>1. SUFFICES ASSUME Bad # {} PROVE FALSE
    OBVIOUS
  <2>2. PICK a \in Bad : \A b \in Bad : a <= b
    <3>1. Bad \subseteq Nat
      OBVIOUS
    <3>. QED BY <2>1, <3>1, LeastOf
  <2>3. a # m
    BY <1>1
  <2>4. a - 1 \in Nat /\ m <= a - 1 /\ ~(a <= a - 1)
    BY <2>3
  <2>5. Tens[m] <= Tens[a - 1]
    BY <2>2, <2>4
  <2>6. Tens[a] = 10 * Tens[a - 1]
    <3>1. (a - 1) + 1 = a
      OBVIOUS
    <3>. QED BY <1>2, <2>4, <3>1
  <2>7. Tens[m] \in Nat /\ Tens[a - 1] \in Nat
    BY <1>1, <2>4
  <2>8. Tens[m] <= Tens[a]
    BY <2>5, <2>6, <2>7
  <2>. QED BY <2>8
<1>. QED BY <1>1, <1>2, <1>3

\* While a number is entered it has its digits and no zero before them, so that
\* its length says how large it is.
CalcInv ==
  /\ calc_display \in Seq(Signs) /\ calc_display # <<>>
  /\ pending_val \in Int /\ new_entry \in BOOLEAN
  /\ ~new_entry => /\ calc_display \in Seq(Figures)
                   /\ \/ calc_display = <<0>>
                      \/ /\ Tens[Len(calc_display) - 1] <= Value(calc_display)
                         /\ Value(calc_display) < Tens[Len(calc_display)]

\* Digits without a sign are read as their value.
LEMMA Reads ==
  ASSUME NEW s \in Seq(Signs), s # <<>>
  PROVE  str_to_int(s) \in Int /\ (s \in Seq(Figures) => str_to_int(s) = Value(s))
<1>1. Value(s) \in Nat
  BY ValueSteps
<1>2. s \in Seq(Figures) => s[1] # Minus
  <2>1. s \in Seq(Figures) => s[1] \in Figures
    OBVIOUS
  <2>. QED BY <2>1 DEF Figures, Minus
<1>. QED BY <1>1, <1>2 DEF str_to_int

\* A digit, whether it begins a number, continues it or finds it full.
LEMMA DigitAdds ==
  ASSUME CalcInv, NEW d \in Figures, DigitButton(d)
  PROVE  CalcInv' /\ A!Digit(d)
<1>. DEFINE s == calc_display
            v == Value(s)
            L == Tens[MaxDigits - 1]
<1>1. /\ s \in Seq(Signs) /\ s # <<>> /\ pending_val \in Int /\ new_entry \in BOOLEAN
      /\ ~new_entry => /\ s \in Seq(Figures)
                       /\ s = <<0>> \/ (Tens[Len(s) - 1] <= v /\ v < Tens[Len(s)])
      /\ new_entry' = FALSE /\ UNCHANGED <<pending_val, pending_op>>
  BY DEF CalcInv, DigitButton
<1>2. str_to_int(s) \in Int /\ (s \in Seq(Figures) => str_to_int(s) = v) /\ v \in Nat
  BY <1>1, Reads, ValueSteps
<1>3. MaxDigits \in Nat /\ MaxDigits - 1 \in Nat /\ L \in Nat /\ L >= 1 /\ Len(s) \in Nat /\ Len(s) - 1 \in Nat
  <2>1. MaxDigits \in Nat /\ MaxDigits - 1 \in Nat
    BY CalculatorAssumption DEF CalculatorAssumption
  <2>2. Len(s) \in Nat /\ Len(s) - 1 \in Nat
    BY <1>1
  <2>. QED BY <2>1, <2>2, TensGrow
<1>4. Figures \subseteq Signs /\ d \in Nat /\ d < 10
  BY DEF Figures, Signs
<1>5. CASE new_entry \/ s = <<0>>
  <2>1. s' = <<d>>
    BY <1>5 DEF DigitButton
  <2>2. <<d>> \in Seq(Figures) /\ <<d>> \in Seq(Signs) /\ <<d>> # <<>> /\ Len(<<d>>) = 1 /\ Value(<<d>>) = d
    BY <1>4, OneFigure
  <2>3. str_to_int(<<d>>) = d
    BY <2>2, Reads
  <2>4. Tens[0] = 1 /\ Tens[1] = 10
    BY TensSteps
  <2>5. CalcInv'
    <3>1. <<d>> = <<0>> \/ (Tens[1 - 1] <= d /\ d < Tens[1])
      BY <1>4, <2>4
    <3>2. <<d>> = <<0>> \/ (Tens[Len(<<d>>) - 1] <= Value(<<d>>) /\ Value(<<d>>) < Tens[Len(<<d>>)])
      BY <2>2, <3>1
    <3>. HIDE DEF s
    <3>3. (s # <<>>)' /\ s' \in Seq(Signs) /\ s' \in Seq(Figures)
      BY <2>1, <2>2
    <3>. QED BY <1>1, <2>1, <3>2, <3>3 DEF CalcInv, s
  <2>6. ~new_entry => str_to_int(s) = 0 /\ ~(str_to_int(s) >= L)
    <3>1. CASE s = <<0>>
      <4>1. 0 \in Figures
        BY DEF Figures
      <4>2. <<0>> \in Seq(Figures) /\ Value(<<0>>) = 0
        BY <4>1, OneFigure
      <4>3. str_to_int(s) = 0
        BY <1>2, <3>1, <4>2
      <4>. QED BY <1>3, <4>3
    <3>. QED BY <1>5, <3>1
  <2>7. str_to_int(s)' = d
    BY <2>1, <2>3
  <2>8. A!Digit(d)
    <3>. DEFINE n == str_to_int(s)
    <3>. HIDE DEF n, L
    <3>1. ~new_entry => n = 0 /\ ~(n >= L)
      BY <2>6 DEF n
    <3>2. n' = CASE new_entry -> d [] ~new_entry /\ n >= L -> n [] OTHER -> 10 * n + d
      BY <1>4, <2>7, <3>1 DEF n
    <3>. QED BY <1>1, <3>2 DEF A!Digit, n, L
  <2>. QED BY <2>5, <2>8
<1>6. CASE ~(new_entry \/ s = <<0>>)
  <2>1. /\ ~new_entry /\ s # <<0>> /\ s \in Seq(Figures) /\ str_to_int(s) = v
        /\ Tens[Len(s) - 1] <= v /\ v < Tens[Len(s)]
    BY <1>1, <1>2, <1>6
  <2>2. CASE Len(s) < MaxDigits
    <3>. DEFINE t == Append(s, d)
    <3>1. s' = t
      BY <1>6, <2>2 DEF DigitButton
    <3>2. t \in Seq(Figures) /\ t \in Seq(Signs) /\ t # <<>> /\ Len(t) = Len(s) + 1
      BY <1>1, <1>4, <2>1
    <3>3. Value(t) = 10 * v + d
      BY <1>1, ValueSteps
    <3>. HIDE DEF t
    <3>4. str_to_int(t) = 10 * v + d
      BY <3>2, <3>3, Reads
    <3>5. ~(v >= L)
      <4>1. Len(s) <= MaxDigits - 1
        BY <1>3, <2>2
      <4>2. Tens[Len(s)] <= L /\ Tens[Len(s)] \in Nat
        BY <1>3, <4>1, TensGrow
      <4>. QED BY <1>2, <1>3, <2>1, <4>2
    <3>6. Tens[Len(t) - 1] <= Value(t) /\ Value(t) < Tens[Len(t)]
      <4>1. /\ Tens[Len(s)] = 10 * Tens[Len(s) - 1] /\ Tens[Len(s) + 1] = 10 * Tens[Len(s)]
            /\ Tens[Len(s)] \in Nat /\ Tens[Len(s) - 1] \in Nat
        <5>1. (Len(s) - 1) + 1 = Len(s)
          BY <1>3
        <5>. QED BY <1>3, <5>1, TensGrow
      <4>2. Len(t) - 1 = Len(s)
        BY <1>3, <3>2
      <4>. DEFINE a == Tens[Len(s) - 1]
                  b == Tens[Len(s)]
                  c == Tens[Len(s) + 1]
      <4>3. b = 10 * a /\ c = 10 * b /\ b \in Nat /\ a \in Nat /\ a <= v /\ v < b
        BY <2>1, <4>1
      <4>. HIDE DEF a, b, c, v
      <4>4. b <= 10 * v + d /\ 10 * v + d < c
        BY <1>2, <1>4, <4>3
      <4>. QED BY <3>2, <3>3, <4>2, <4>4 DEF a, b, c
    <3>7. CalcInv'
      BY <1>1, <3>1, <3>2, <3>6 DEF CalcInv
    <3>8. A!Digit(d)
      <4>. DEFINE n == str_to_int(s)
      <4>1. n' = 10 * n + d /\ ~new_entry /\ ~(n >= L)
        BY <2>1, <3>1, <3>4, <3>5
      <4>. HIDE DEF n, L
      <4>2. n' = CASE new_entry -> d [] ~new_entry /\ n >= L -> n [] OTHER -> 10 * n + d
        BY <4>1
      <4>. QED BY <1>1, <4>2 DEF A!Digit, n, L
    <3>. QED BY <3>7, <3>8
  <2>3. CASE ~(Len(s) < MaxDigits)
    <3>1. s' = s
      BY <1>6, <2>3 DEF DigitButton
    <3>2. v >= L
      <4>1. MaxDigits - 1 <= Len(s) - 1
        BY <1>3, <2>3
      <4>2. L <= Tens[Len(s) - 1] /\ Tens[Len(s) - 1] \in Nat
        BY <1>3, <4>1, TensGrow
      <4>. QED BY <1>2, <1>3, <2>1, <4>2
    <3>3. CalcInv'
      BY <1>1, <2>1, <3>1 DEF CalcInv
    <3>4. A!Digit(d)
      <4>. DEFINE n == str_to_int(s)
      <4>1. n' = n /\ ~new_entry /\ n >= L
        BY <2>1, <3>1, <3>2
      <4>. HIDE DEF n, L
      <4>2. n' = CASE new_entry -> d [] ~new_entry /\ n >= L -> n [] OTHER -> 10 * n + d
        BY <4>1
      <4>. QED BY <1>1, <4>2 DEF A!Digit, n, L
    <3>. QED BY <3>3, <3>4
  <2>. QED BY <2>2, <2>3
<1>. QED BY <1>5, <1>6

\* A result is read as it was computed.
LEMMA ResultAgrees ==
  ASSUME CalcInv
  PROVE  Computed \in Int /\ Computed = A!Result
<1>1. pending_val \in Int /\ str_to_int(calc_display) \in Int
  BY Reads DEF CalcInv
<1>2. Computed = A!Result
  BY DEF Computed, A!Result
<1>. QED BY <1>1, <1>2 DEF Computed

\* An operator computes what is pending, if a number has been entered for it.
LEMMA OperatorComputes ==
  ASSUME CalcInv, NEW o, OperatorButton(o)
  PROVE  CalcInv' /\ A!Operator(o)
<1>1. /\ calc_display \in Seq(Signs) /\ calc_display # <<>> /\ pending_val \in Int
      /\ str_to_int(calc_display) \in Int /\ new_entry \in BOOLEAN
      /\ new_entry' = TRUE /\ pending_op' = o
  BY Reads DEF CalcInv, OperatorButton
<1>. DEFINE m == Computed
<1>2. m \in Int /\ m = A!Result
  BY ResultAgrees
<1>3. int_to_str(m) \in Seq(Signs) /\ int_to_str(m) # <<>> /\ str_to_int(int_to_str(m)) = m
  BY <1>2, RoundTrip
<1>4. CASE pending_op # "none" /\ ~new_entry
  <2>1. pending_val' = m /\ calc_display' = int_to_str(m)
    BY <1>4 DEF OperatorButton
  <2>. HIDE DEF m
  <2>2. CalcInv'
    BY <1>1, <1>2, <1>3, <2>1 DEF CalcInv
  <2>3. str_to_int(calc_display)' = m
    BY <1>3, <2>1
  <2>. QED BY <1>1, <1>2, <1>4, <2>1, <2>2, <2>3 DEF A!Operator
<1>5. CASE ~(pending_op # "none" /\ ~new_entry)
  <2>1. pending_val' = str_to_int(calc_display) /\ calc_display' = calc_display
    BY <1>5 DEF OperatorButton
  <2>2. CalcInv'
    BY <1>1, <2>1 DEF CalcInv
  <2>3. ~new_entry => A!Result = str_to_int(calc_display)
    BY <1>5 DEF A!Result
  <2>. QED BY <1>1, <2>1, <2>2, <2>3 DEF A!Operator
<1>. QED BY <1>4, <1>5

\* So does =.
LEMMA EqualsComputes == CalcInv /\ EqualsButton => CalcInv' /\ A!Equals
<1>. SUFFICES ASSUME CalcInv, EqualsButton PROVE CalcInv' /\ A!Equals
  OBVIOUS
<1>. DEFINE m == Computed
<1>1. m \in Int /\ m = A!Result
  BY ResultAgrees
<1>2. int_to_str(m) \in Seq(Signs) /\ int_to_str(m) # <<>> /\ str_to_int(int_to_str(m)) = m
  BY <1>1, RoundTrip
<1>3. calc_display' = int_to_str(m) /\ pending_val' = 0 /\ pending_op' = "none" /\ new_entry' = TRUE
  BY DEF EqualsButton
<1>. HIDE DEF m
<1>4. CalcInv'
  BY <1>2, <1>3 DEF CalcInv
<1>5. str_to_int(calc_display)' = m
  BY <1>2, <1>3
<1>. QED BY <1>1, <1>3, <1>4, <1>5 DEF A!Equals

\* What the display shows at first and after C.
LEMMA Cleared ==
  /\ <<0>> \in Seq(Signs) /\ <<0>> # <<>> /\ str_to_int(<<0>>) = 0
<1>1. 0 \in Figures /\ Figures \subseteq Signs
  BY DEF Figures, Signs
<1>2. <<0>> \in Seq(Figures) /\ <<0>> \in Seq(Signs) /\ <<0>> # <<>> /\ Value(<<0>>) = 0
  BY <1>1, OneFigure
<1>. QED BY <1>2, Reads

\* C begins anew.
LEMMA ClearClears == ClearButton => CalcInv' /\ A!Clear
<1>. SUFFICES ASSUME ClearButton PROVE CalcInv' /\ A!Clear
  OBVIOUS
<1>1. calc_display' = <<0>> /\ pending_val' = 0 /\ pending_op' = "none" /\ new_entry' = TRUE
  BY DEF ClearButton
<1>2. CalcInv'
  BY <1>1, Cleared DEF CalcInv
<1>3. str_to_int(calc_display)' = 0
  BY <1>1, Cleared
<1>. QED BY <1>1, <1>2, <1>3 DEF A!Clear

\* CalcImplements: the calculator shows the sums and differences of the numbers
\* entered, whatever the number of digits it takes and whatever was clicked: what
\* goes through digits and back is the same number (calc_mouse).  The numbers are
\* integers: long long is one as long as no sum reaches 2^63.
THEOREM CalcImplementsCorrect == AppsSpec => CalcImplements
<1>1. Init => CalcInv /\ A!Init
  <2>. SUFFICES ASSUME Init PROVE CalcInv /\ A!Init
    OBVIOUS
  <2>1. calc_display = <<0>> /\ pending_val = 0 /\ pending_op = "none" /\ new_entry = TRUE
    BY DEF Init, CalcInit
  <2>. QED BY <2>1, Cleared DEF CalcInv, A!Init
<1>2. CalcInv /\ [Next]_appsVars =>
        CalcInv' /\ [A!Next]_<<str_to_int(calc_display), pending_val, pending_op, new_entry>>
  <2>. SUFFICES ASSUME CalcInv, [Next]_appsVars
                PROVE  CalcInv' /\ [A!Next]_<<str_to_int(calc_display), pending_val, pending_op, new_entry>>
    OBVIOUS
  <2>1. CASE \E d \in DigitKeys : DigitButton(d)
    <3>1. PICK d \in 0 .. 9 : DigitButton(d)
      BY <2>1, AppsAssumption DEF AppsAssumption
    <3>2. CalcInv' /\ A!Digit(d)
      BY <3>1, DigitAdds DEF Figures
    <3>. QED BY <3>2 DEF A!Next
  <2>2. CASE EqualsButton
    BY <2>2, EqualsComputes DEF A!Next
  <2>3. CASE ClearButton
    BY <2>3, ClearClears DEF A!Next
  <2>4. CASE \E o \in {"+", "-"} : OperatorButton(o)
    <3>1. PICK o \in {"+", "-"} : OperatorButton(o)
      BY <2>4
    <3>2. CalcInv' /\ A!Operator(o)
      BY <3>1, OperatorComputes
    <3>. QED BY <3>2 DEF A!Next
  <2>5. CASE UNCHANGED calcVars
    BY <2>5 DEF calcVars, CalcInv
  <2>. QED
    BY <2>1, <2>2, <2>3, <2>4, <2>5
       DEF Next, TerminalKey, NotepadKey, timer, CalcClick, Minimize, MainThread, Formatting, KeepApps,
           appsVars, calc_mouse
<1>. QED BY <1>1, <1>2, PTL DEF AppsSpec, CalcImplements, A!Spec

-----------------------------------------------------------------------------
(* Numbers, printed and read off.                                          *)

\* Division by a number of which nothing but its sign is known.
LEMMA Division ==
  ASSUME NEW n \in Int, NEW b \in Nat \ {0}
  PROVE  n \div b \in Int /\ n % b \in 0 .. b - 1 /\ n = b * (n \div b) + (n % b)
<1>1. n \div b \in Int
  OBVIOUS
<1>2. n % b \in 0 .. b - 1
  OBVIOUS
<1>3. n = b * (n \div b) + (n % b)
  OBVIOUS
<1>. QED BY <1>1, <1>2, <1>3

\* A multiple grows with its factor.
LEMMA Multiple ==
  ASSUME NEW b \in Nat, NEW p \in Int, NEW q \in Int, p < q
  PROVE  b * p \in Int /\ b * q \in Int /\ b * q >= b * p + b
<1>. DEFINE z == q - p - 1
<1>1. z \in Nat /\ q = p + (1 + z)
  OBVIOUS
<1>. HIDE DEF z
<1>2. b * q = b * p + b * (1 + z)
  BY <1>1
<1>3. b * (1 + z) = b + b * z /\ b * z \in Nat /\ b * p \in Int /\ b * q \in Int
  BY <1>1
<1>. DEFINE bp == b * p
            bq == b * q
            bz == b * z
            c == b * (1 + z)
<1>. HIDE DEF bp, bq, bz, c
<1>4. bq = bp + c /\ c = b + bz /\ bz \in Nat /\ bp \in Int /\ bq \in Int
  BY <1>2, <1>3 DEF bp, bq, bz, c
<1>5. bq >= bp + b
  BY <1>4
<1>. QED BY <1>3, <1>5 DEF bp, bq

\* There is one quotient and one remainder.
LEMMA DivisionIs ==
  ASSUME NEW n \in Int, NEW b \in Nat \ {0}, NEW q \in Int, NEW d \in 0 .. b - 1, n = b * q + d
  PROVE  n \div b = q /\ n % b = d
<1>. DEFINE p == n \div b
            e == n % b
<1>1. p \in Int /\ e \in 0 .. b - 1 /\ n = b * p + e
  BY Division
<1>. HIDE DEF p, e
<1>2. b * p \in Int /\ b * q \in Int
  BY <1>1
<1>3. ~(p < q)
  <2>. SUFFICES ASSUME p < q PROVE FALSE
    OBVIOUS
  <2>1. b * q >= b * p + b
    BY <1>1, Multiple
  <2>. DEFINE x == b * p
              y == b * q
  <2>. HIDE DEF x, y
  <2>2. x \in Int /\ y \in Int /\ y >= x + b /\ n = x + e /\ n = y + d
    BY <1>1, <1>2, <2>1 DEF x, y
  <2>. QED BY <1>1, <2>2
<1>4. ~(q < p)
  <2>. SUFFICES ASSUME q < p PROVE FALSE
    OBVIOUS
  <2>1. b * p >= b * q + b
    BY <1>1, Multiple
  <2>. DEFINE x == b * p
              y == b * q
  <2>. HIDE DEF x, y
  <2>2. x \in Int /\ y \in Int /\ x >= y + b /\ n = x + e /\ n = y + d
    BY <1>1, <1>2, <2>1 DEF x, y
  <2>. QED BY <1>1, <2>2
<1>5. p = q
  BY <1>1, <1>3, <1>4
<1>6. e = d
  BY <1>1, <1>2, <1>5
<1>. QED BY <1>5, <1>6 DEF p, e

\* Two divisions are one.
LEMMA DivisionTwice ==
  ASSUME NEW n \in Int, NEW radix \in Nat \ {0}, NEW p \in Nat \ {0}
  PROVE  radix * p \in Nat \ {0} /\ (n \div radix) \div p = n \div (radix * p)
<1>0. radix * p \in Nat \ {0}
  <2>1. radix * p \in Nat /\ radix * p >= radix * 0 + radix
    BY Multiple
  <2>. DEFINE x == radix * p
  <2>. HIDE DEF x
  <2>2. x \in Nat /\ x >= radix
    BY <2>1 DEF x
  <2>3. x \in Nat \ {0}
    BY <2>2
  <2>. QED BY <2>3 DEF x
<1>1. PICK q \in Int, d \in 0 .. radix - 1 : n \div radix = q /\ n = radix * q + d
  BY Division
<1>2. PICK z \in Int, e \in 0 .. p - 1 : q \div p = z /\ q = p * z + e
  BY Division
<1>3. radix * e + d \in 0 .. (radix * p) - 1
  <2>1. radix * e \in Nat
    OBVIOUS
  <2>2. radix * p >= radix * e + radix
    BY Multiple
  <2>. DEFINE x == radix * p
              y == radix * e
  <2>. HIDE DEF x, y
  <2>3. x \in Nat /\ y \in Nat /\ x >= y + radix
    BY <1>0, <2>1, <2>2 DEF x, y
  <2>4. y + d \in 0 .. x - 1
    BY <2>3
  <2>. QED BY <2>4 DEF x, y
<1>4. n = (radix * p) * z + (radix * e + d)
  <2>1. n = radix * (p * z + e) + d
    BY <1>1, <1>2
  <2>. DEFINE pz == p * z
  <2>2. pz \in Int /\ radix * pz = (radix * p) * z
    OBVIOUS
  <2>. HIDE DEF pz
  <2>3. radix * (pz + e) = radix * pz + radix * e
    BY <2>2
  <2>. DEFINE x == radix * pz
              y == radix * e
              w == radix * (pz + e)
  <2>4. x \in Int /\ y \in Int /\ w \in Int
    BY <2>2
  <2>. HIDE DEF x, y, w
  <2>5. n = w + d /\ w = x + y
    BY <2>1, <2>3 DEF x, y, w, pz
  <2>6. n = x + (y + d)
    BY <2>4, <2>5
  <2>. QED BY <2>2, <2>6 DEF x, y
<1>5. n \div (radix * p) = z
  <2>. DEFINE x == radix * p
              y == radix * e + d
  <2>. HIDE DEF x, y
  <2>1. x \in Nat \ {0} /\ y \in 0 .. x - 1 /\ n = x * z + y
    BY <1>0, <1>3, <1>4 DEF x, y
  <2>2. n \div x = z
    BY <2>1, DivisionIs
  <2>. QED BY <2>2 DEF x
<1>. QED BY <1>0, <1>1, <1>2, <1>5

\* Powers grow.
LEMMA PowersPositive ==
  ASSUME NEW b \in Nat \ {0}
  PROVE  \A n \in Nat : Powers(b)[n] \in Nat \ {0} /\ Powers(b)[n + 1] = b * Powers(b)[n]
<1>. DEFINE P(n) == Powers(b)[n]
            Bad == {n \in Nat : P(n) \notin Nat \ {0}}
<1>1. \A n \in Nat : P(n) = IF n = 0 THEN 1 ELSE b * P(n - 1)
  BY PowersStep
<1>. HIDE DEF P
<1>2. Bad = {}
  <2>. SUFFICES ASSUME Bad # {} PROVE FALSE
    OBVIOUS
  <2>1. PICK a \in Bad : \A n \in Bad : a <= n
    BY LeastOf
  <2>2. a # 0
    BY <1>1
  <2>3. a - 1 \in Nat /\ ~(a <= a - 1)
    BY <2>2
  <2>4. P(a - 1) \in Nat \ {0} /\ P(a) = b * P(a - 1)
    BY <1>1, <2>1, <2>2, <2>3
  <2>5. P(a) \in Nat \ {0}
    BY <2>4, DivisionTwice
  <2>. QED BY <2>1, <2>5
<1>3. ASSUME NEW n \in Nat PROVE P(n) \in Nat \ {0} /\ P(n + 1) = b * P(n)
  <2>1. n + 1 \in Nat /\ n + 1 # 0 /\ (n + 1) - 1 = n
    OBVIOUS
  <2>2. P(n + 1) = b * P((n + 1) - 1)
    BY <1>1, <2>1
  <2>. QED BY <1>2, <2>1, <2>2
<1>. QED BY <1>3 DEF P

\* They exceed their exponents, and grow with them.
LEMMA PowersGrow ==
  ASSUME NEW b \in Nat, b >= 2
  PROVE  /\ \A n \in Nat : Powers(b)[n] > n
         /\ \A m, n \in Nat : m < n => Powers(b)[m] < Powers(b)[n]
<1>. DEFINE P(n) == Powers(b)[n]
<1>0. Powers(b)[0] = 1
  BY PowersStep
<1>1. \A n \in Nat : P(n) \in Nat \ {0} /\ P(n + 1) = b * P(n)
  BY PowersPositive
<1>a. P(0) = 1
  BY <1>0
<1>. HIDE DEF P
<1>2. ASSUME NEW n \in Nat PROVE P(n + 1) > P(n)
  <2>1. P(n) \in Nat \ {0} /\ P(n + 1) = b * P(n)
    BY <1>1
  <2>. DEFINE p == P(n)
  <2>. HIDE DEF p
  <2>2. p * b >= p * 1 + p
    BY <2>1, Multiple DEF p
  <2>3. p * b = b * p /\ p * 1 = p
    BY <2>1 DEF p
  <2>4. P(n + 1) >= p + p
    BY <2>1, <2>2, <2>3 DEF p
  <2>5. p \in Nat \ {0} /\ P(n + 1) \in Nat
    BY <1>1 DEF p
  <2>6. P(n + 1) > p
    BY <2>4, <2>5
  <2>. QED BY <2>6 DEF p
<1>3. \A n \in Nat : P(n) > n
  <2>. DEFINE Bad == {n \in Nat : ~(P(n) > n)}
  <2>. SUFFICES ASSUME Bad # {} PROVE FALSE
    OBVIOUS
  <2>1. PICK a \in Bad : \A n \in Bad : a <= n
    BY LeastOf
  <2>2. a # 0
    BY <1>a
  <2>3. a - 1 \in Nat /\ ~(a <= a - 1) /\ (a - 1) + 1 = a
    BY <2>2
  <2>4. P(a - 1) > a - 1
    BY <2>1, <2>3
  <2>5. P((a - 1) + 1) > P(a - 1)
    BY <1>2, <2>3
  <2>6. P(a - 1) \in Nat /\ P(a) \in Nat
    BY <1>1, <2>3
  <2>. QED BY <2>3, <2>4, <2>5, <2>6
<1>4. ASSUME NEW m \in Nat PROVE \A n \in Nat : m < n => P(m) < P(n)
  <2>. DEFINE Bad == {n \in Nat : m < n /\ ~(P(m) < P(n))}
  <2>. SUFFICES ASSUME Bad # {} PROVE FALSE
    OBVIOUS
  <2>1. PICK a \in Bad : \A n \in Bad : a <= n
    BY LeastOf
  <2>2. a - 1 \in Nat /\ ~(a <= a - 1) /\ (a - 1) + 1 = a /\ m < a
    OBVIOUS
  <2>3. P((a - 1) + 1) > P(a - 1)
    BY <1>2, <2>2
  <2>4. m = a - 1 \/ P(m) < P(a - 1)
    <3>1. m < a - 1 => a - 1 \notin Bad
      BY <2>1, <2>2
    <3>. QED BY <2>2, <3>1
  <2>5. P(a - 1) \in Nat /\ P(a) \in Nat /\ P(m) \in Nat
    BY <1>1, <2>2
  <2>. QED BY <2>2, <2>3, <2>4, <2>5
<1>. QED BY <1>3, <1>4 DEF P

Dividing == INSTANCE Recursion
  WITH Op <- LAMBDA radix, f, n : <<g_HexChars[(n % radix) + 1]>> \o
                              IF n \div radix = 0 THEN <<>> ELSE f[n \div radix]

\* A quotient is smaller.
LEMMA Smaller ==
  ASSUME NEW n \in Nat, NEW radix \in Nat, radix >= 2, n \div radix # 0
  PROVE  n \div radix \in 0 .. n - 1 /\ n \div radix \in Nat \ {0}
<1>0. n \in Int /\ radix \in Nat \ {0}
  OBVIOUS
<1>1. PICK q \in Int, d \in 0 .. radix - 1 : n \div radix = q /\ n = radix * q + d
  BY <1>0, Division
<1>2. q >= 0
  <2>. SUFFICES ASSUME q < 0 PROVE FALSE
    BY <1>1
  <2>1. radix * 0 >= radix * q + radix /\ radix * q \in Int
    BY Multiple
  <2>. DEFINE x == radix * q
  <2>. HIDE DEF x
  <2>2. 0 >= x + radix /\ x \in Int /\ n = x + d
    BY <1>1, <2>1 DEF x
  <2>. QED BY <2>2
<1>3. radix * q >= q + q
  <2>1. q * 2 = q + q /\ q * radix = radix * q /\ q \in Nat
    BY <1>2
  <2>2. radix = 2 \/ q * radix >= q * 2 + q
    BY <1>2, Multiple
  <2>3. radix * q \in Nat
    BY <1>2
  <2>. DEFINE x == q * radix
              y == q * 2
  <2>. HIDE DEF x, y
  <2>4. x \in Nat /\ y = q + q /\ (x = y \/ x >= y + q)
    BY <2>1, <2>2, <2>3 DEF x, y
  <2>5. x >= q + q
    BY <1>2, <2>4
  <2>. QED BY <2>1, <2>5 DEF x
<1>4. q \in 0 .. n - 1 /\ q \in Nat \ {0}
  <2>. DEFINE x == radix * q
  <2>1. x \in Int
    OBVIOUS
  <2>. HIDE DEF x
  <2>2. n = x + d /\ x >= q + q /\ q # 0
    BY <1>1, <1>3 DEF x
  <2>. QED BY <1>2, <2>1, <2>2
<1>. QED BY <1>1, <1>4

\* The equation of Remainders: the recursive function exists.
LEMMA RemaindersStep ==
  ASSUME NEW radix \in Nat, radix >= 2
  PROVE  \A n \in Nat : Remainders(radix)[n] =
           <<g_HexChars[(n % radix) + 1]>> \o
           IF n \div radix = 0 THEN <<>> ELSE Remainders(radix)[n \div radix]
<1>. DEFINE Is(f) == f = [n \in Nat |-> <<g_HexChars[(n % radix) + 1]>> \o
                                        IF n \div radix = 0 THEN <<>> ELSE f[n \div radix]]
<1>1. Dividing!LooksBack(radix)
  <2>. SUFFICES ASSUME NEW n \in Nat, NEW f, NEW g, \A i \in 0 .. n - 1 : f[i] = g[i],
                       n \div radix # 0
                PROVE  f[n \div radix] = g[n \div radix]
    BY Zenon DEF Dividing!LooksBack
  <2>1. n \div radix \in 0 .. n - 1
    BY Smaller
  <2>. QED BY <2>1
<1>2. \E f : Is(f)
  BY <1>1, Dividing!Unfolds
<1>3. Remainders(radix) = CHOOSE f : Is(f)
  BY DEF Remainders
<1>4. Is(Remainders(radix))
  <2>. HIDE DEF Is
  <2>. QED BY <1>2, <1>3
<1>. QED BY <1>4

\* The characters there are: the provers do not know that those of the code are strings.
Glyphs == STRING \cup {"%", "-"} \cup {"h", "l", "c", "s", "d", "i"} \cup Unsigned
          \cup {g_HexChars[i] : i \in 1 .. 16}

\* The digits are characters.
LEMMA Hexadecimal == \A d \in 0 .. 15 : g_HexChars[d + 1] \in Glyphs
<1>1. \A d \in 0 .. 15 : d + 1 \in 1 .. 16
  OBVIOUS
<1>. QED BY <1>1 DEF Glyphs

\* What printf_unsigned fills its buffer with.
Spelt(radix, n, s) ==
  /\ s \in Seq(Glyphs) /\ Len(s) >= 1
  /\ n < Powers(radix)[Len(s)] /\ (Len(s) = 1 \/ n >= Powers(radix)[Len(s) - 1])
  /\ \A j \in 1 .. Len(s) : s[j] = g_HexChars[((n \div Powers(radix)[j - 1]) % radix) + 1]

\* By the least number for which it is not so.
LEMMA RemaindersSpell ==
  ASSUME NEW radix \in 2 .. 16
  PROVE  \A n \in Nat : Spelt(radix, n, Remainders(radix)[n])
<1>. DEFINE R(n) == Remainders(radix)[n]
            P(n) == Powers(radix)[n]
            H(d) == g_HexChars[d + 1]
            Bad == {n \in Nat : ~Spelt(radix, n, R(n))}
<1>2. radix \in Nat \ {0} /\ radix >= 2 /\ radix <= 16
  OBVIOUS
<1>0. \A n \in Nat : R(n) = <<H(n % radix)>> \o IF n \div radix = 0 THEN <<>> ELSE R(n \div radix)
  BY <1>2, RemaindersStep
<1>1. \A d \in 0 .. 15 : H(d) \in Glyphs
  BY Hexadecimal
<1>3. \A n \in Nat : P(n) \in Nat \ {0} /\ P(n + 1) = radix * P(n)
  BY <1>2, PowersPositive
<1>4. P(0) = 1
  BY PowersStep
<1>5. \A n, s : Spelt(radix, n, s) <=>
        /\ s \in Seq(Glyphs) /\ Len(s) >= 1
        /\ n < P(Len(s)) /\ (Len(s) = 1 \/ n >= P(Len(s) - 1))
        /\ \A j \in 1 .. Len(s) : s[j] = H((n \div P(j - 1)) % radix)
  BY DEF Spelt
<1>. HIDE DEF R, P, H
<1>6. SUFFICES ASSUME Bad # {} PROVE FALSE
  BY DEF R
<1>7. PICK n \in Bad : \A b \in Bad : n <= b
  BY <1>6, LeastOf
<1>8. PICK q \in Int, d \in 0 .. radix - 1 : n \div radix = q /\ n % radix = d /\ n = radix * q + d
  <2>1. n \in Int
    OBVIOUS
  <2>2. n \div radix \in Int /\ n % radix \in 0 .. radix - 1 /\ n = radix * (n \div radix) + (n % radix)
    BY <1>2, <2>1, Division
  <2>. QED BY <2>2
<1>9. H(d) \in Glyphs /\ d \in Nat
  BY <1>1, <1>2
<1>10. n \div 1 = n
  OBVIOUS
<1>11. P(1) = radix /\ P(1 - 1) = 1
  <2>1. P(0 + 1) = radix * P(0) /\ 0 + 1 = 1 /\ radix * 1 = radix
    BY <1>2, <1>3
  <2>. QED BY <1>4, <2>1
<1>12. CASE q = 0
  <2>. DEFINE s == <<H(d)>>
  <2>1. R(n) = s
    <3>1. R(n) = <<H(d)>> \o <<>>
      BY <1>0, <1>8, <1>12
    <3>2. <<H(d)>> \o <<>> = <<H(d)>>
      BY <1>9
    <3>. QED BY <3>1, <3>2
  <2>2. s \in Seq(Glyphs) /\ Len(s) = 1 /\ s[1] = H(d)
    BY <1>9
  <2>3. n < radix /\ n = d
    <3>1. radix * 0 = 0
      BY <1>2
    <3>. QED BY <1>2, <1>8, <1>12, <3>1
  <2>. HIDE DEF s
  <2>4. (n \div P(1 - 1)) % radix = d
    BY <1>8, <1>10, <1>11
  <2>5. \A j \in 1 .. Len(s) : s[j] = H((n \div P(j - 1)) % radix)
    <3>1. \A j \in 1 .. Len(s) : j = 1
      BY <2>2
    <3>. QED BY <2>2, <2>4, <3>1
  <2>6. Spelt(radix, n, s)
    <3>1. Len(s) >= 1 /\ n < P(Len(s)) /\ s \in Seq(Glyphs)
      BY <1>11, <2>2, <2>3
    <3>. QED BY <1>5, <2>2, <2>5, <3>1
  <2>. QED BY <1>7, <2>1, <2>6
<1>13. CASE q # 0
  <2>1. q \in Nat \ {0} /\ q < n
    <3>1. n \div radix \in 0 .. n - 1 /\ n \div radix \in Nat \ {0}
      BY <1>2, <1>8, <1>13, Smaller
    <3>. QED BY <1>8, <3>1
  <2>2. Spelt(radix, q, R(q))
    BY <1>7, <2>1
  <2>. DEFINE t == R(q)
              l == Len(t)
              s == <<H(d)>> \o t
  <2>3. R(n) = s
    BY <1>0, <1>8, <1>13
  <2>4. /\ t \in Seq(Glyphs) /\ l >= 1 /\ l \in Nat
        /\ q < P(l) /\ (l = 1 \/ q >= P(l - 1))
        /\ \A j \in 1 .. l : t[j] = H((q \div P(j - 1)) % radix)
    BY <1>5, <2>2
  <2>5. s \in Seq(Glyphs) /\ Len(s) = l + 1 /\ s[1] = H(d) /\ \A j \in 1 .. l : s[j + 1] = t[j]
    <3>1. <<H(d)>> \in Seq(Glyphs) /\ Len(<<H(d)>>) = 1
      BY <1>9
    <3>. HIDE DEF t
    <3>. QED BY <2>4, <3>1
  <2>. HIDE DEF s, t, l
  <2>6. n < P(l + 1)
    <3>1. P(l) \in Nat /\ P(l + 1) = radix * P(l)
      BY <1>3, <2>4
    <3>a. q < P(l) /\ q \in Int /\ P(l) \in Int /\ radix \in Nat
      BY <1>2, <2>4, <3>1
    <3>2. radix * P(l) >= radix * q + radix /\ radix * q \in Int /\ radix * P(l) \in Int
      BY <3>a, Multiple
    <3>. DEFINE x == radix * q
                y == radix * P(l)
    <3>. HIDE DEF x, y
    <3>3. x \in Int /\ y \in Int /\ y >= x + radix /\ n = x + d /\ P(l + 1) = y
      BY <1>8, <3>1, <3>2 DEF x, y
    <3>. QED BY <1>2, <3>3
  <2>7. n >= P(l)
    <3>. DEFINE p == P(l - 1)
    <3>1. p \in Nat \ {0} /\ P(l) = radix * p
      <4>1. l - 1 \in Nat /\ (l - 1) + 1 = l
        BY <2>4
      <4>. QED BY <1>3, <4>1
    <3>2. q >= p
      BY <1>4, <2>1, <2>4
    <3>. HIDE DEF p
    <3>3. q = p \/ radix * q >= radix * p + radix
      BY <1>2, <2>1, <3>1, <3>2, Multiple
    <3>. DEFINE x == radix * q
                y == radix * p
    <3>4. x \in Int /\ y \in Int
      BY <1>2, <3>1
    <3>5. q = p => x = y
      OBVIOUS
    <3>. HIDE DEF x, y
    <3>6. (x = y \/ x >= y + radix) /\ n = x + d /\ P(l) = y
      BY <1>8, <3>1, <3>3, <3>5 DEF x, y
    <3>. QED BY <1>2, <3>4, <3>6
  <2>8. ASSUME NEW j \in 1 .. l + 1 PROVE s[j] = H((n \div P(j - 1)) % radix)
    <3>1. CASE j = 1
      BY <1>8, <1>10, <1>11, <2>5, <3>1
    <3>2. CASE j # 1
      <4>. DEFINE i == j - 1
      <4>1. i \in 1 .. l /\ j = i + 1 /\ i - 1 \in Nat /\ (i - 1) + 1 = i
        BY <2>4, <3>2
      <4>. HIDE DEF i
      <4>2. P(i - 1) \in Nat \ {0} /\ P(i) = radix * P(i - 1)
        BY <1>3, <4>1
      <4>3. (n \div radix) \div P(i - 1) = n \div (radix * P(i - 1))
        BY <1>2, <4>2, DivisionTwice
      <4>4. q \div P(i - 1) = n \div P(i)
        BY <1>8, <4>2, <4>3
      <4>5. s[j] = H((q \div P(i - 1)) % radix)
        BY <2>4, <2>5, <4>1
      <4>6. P(j - 1) = P(i)
        BY <4>1 DEF i
      <4>. QED BY <4>4, <4>5, <4>6
    <3>. QED BY <3>1, <3>2
  <2>9. Spelt(radix, n, s)
    <3>1. (l + 1) - 1 = l /\ l + 1 >= 1
      BY <2>4
    <3>. QED BY <1>5, <2>5, <2>6, <2>7, <2>8, <3>1
  <2>. QED BY <1>7, <2>3, <2>9
<1>. QED BY <1>8, <1>12, <1>13

\* printf_unsigned writes the numeral of its argument.
LEMMA NumeralPrinted ==
  ASSUME NEW n \in Nat, NEW radix \in 2 .. 16
  PROVE  /\ printf_unsigned(n, radix) = Numeral(n, radix)
         /\ printf_unsigned(n, radix) \in Seq(Glyphs)
<1>. DEFINE s == Remainders(radix)[n]
            l == Len(s)
            P(d) == Powers(radix)[d]
            Right(d) == n < P(d) /\ (d = 1 \/ n >= P(d - 1))
            Digit(j) == g_HexChars[((n \div P(j)) % radix) + 1]
<1>0. radix \in Nat /\ radix >= 2 /\ radix \in Nat \ {0}
  OBVIOUS
<1>1. /\ s \in Seq(Glyphs) /\ l \in Nat /\ l >= 1 /\ Right(l)
      /\ \A j \in 1 .. l : s[j] = Digit(j - 1)
  <2>1. Spelt(radix, n, s)
    BY RemaindersSpell
  <2>. HIDE DEF s
  <2>. QED BY <2>1 DEF Spelt
<1>2. /\ \A d \in Nat : P(d) > d /\ P(d) \in Nat
      /\ \A a, b \in Nat : a < b => P(a) < P(b)
  BY <1>0, PowersGrow, PowersPositive
<1>a. printf_unsigned(n, radix) = [i \in 1 .. l |-> s[(l - i) + 1]]
  BY DEF printf_unsigned, Reverse
<1>b. Numeral(n, radix) = LET places == CHOOSE d \in 1 .. n + 1 : Right(d)
                      IN [i \in 1 .. places |-> Digit(places - i)]
  BY DEF Numeral
<1>. HIDE DEF s, l, P, Digit
<1>3. l \in 1 .. n + 1
  <2>1. l = 1 \/ P(l - 1) > l - 1
    BY <1>1, <1>2
  <2>2. l = 1 \/ n > l - 1
    <3>. SUFFICES ASSUME l # 1 PROVE n > l - 1
      OBVIOUS
    <3>1. n >= P(l - 1) /\ P(l - 1) > l - 1 /\ P(l - 1) \in Nat
      BY <1>1, <1>2, <2>1
    <3>. QED BY <1>1, <3>1
  <2>. QED BY <1>1, <2>2
<1>4. \A d, e \in Nat \ {0} : Right(d) /\ Right(e) => ~(d < e)
  <2>. SUFFICES ASSUME NEW d \in Nat \ {0}, NEW e \in Nat \ {0}, Right(d), Right(e), d < e
                PROVE  FALSE
    OBVIOUS
  <2>1. e - 1 \in Nat /\ n >= P(e - 1) /\ n < P(d)
    OBVIOUS
  <2>2. d = e - 1 \/ d < e - 1
    OBVIOUS
  <2>3. P(d) <= P(e - 1) /\ P(d) \in Nat /\ P(e - 1) \in Nat
    BY <1>2, <2>1, <2>2
  <2>. QED BY <2>1, <2>3
<1>5. (CHOOSE d \in 1 .. n + 1 : Right(d)) = l
  <2>. DEFINE c == CHOOSE d \in 1 .. n + 1 : Right(d)
  <2>1. c \in 1 .. n + 1 /\ Right(c)
    BY <1>1, <1>3
  <2>. HIDE DEF c, Right
  <2>2. c \in Nat \ {0} /\ l \in Nat \ {0} /\ Right(l)
    BY <1>1, <2>1
  <2>3. ~(c < l) /\ ~(l < c)
    BY <1>4, <2>1, <2>2
  <2>4. c = l
    BY <2>2, <2>3
  <2>. QED BY <2>4 DEF c
<1>. HIDE DEF Right
<1>6. Numeral(n, radix) = [i \in 1 .. l |-> Digit(l - i)]
  BY <1>b, <1>5
<1>7. \A i \in 1 .. l : (l - i) + 1 \in 1 .. l /\ ((l - i) + 1) - 1 = l - i
  BY <1>1
<1>8. \A i \in 1 .. l : s[(l - i) + 1] = Digit(l - i) /\ s[(l - i) + 1] \in Glyphs
  <2>1. \A i \in 1 .. l : s[i] \in Glyphs
    BY <1>1 DEF l
  <2>. QED BY <1>1, <1>7, <2>1
<1>9. [i \in 1 .. l |-> s[(l - i) + 1]] \in Seq(Glyphs)
  BY <1>1, <1>8
<1>. QED BY <1>6, <1>8, <1>9, <1>a

-----------------------------------------------------------------------------
(* Words and what they mean.                                               *)

\* There are as many negative words as others.
LEMMA BaseEven ==
  /\ Base \in Nat \ {0} /\ \E h \in Nat \ {0} : Base = 2 * h
  /\ Base * Base \in Nat \ {0} /\ \E h \in Nat \ {0} : Base * Base = 2 * h
<1>1. IntBits \in Nat \ {0}
  BY PrintfAssumption DEF PrintfAssumption
<1>2. IntBits - 1 \in Nat /\ (IntBits - 1) + 1 = IntBits
  BY <1>1
<1>3. Powers(2)[IntBits - 1] \in Nat \ {0} /\ Powers(2)[(IntBits - 1) + 1] = 2 * Powers(2)[IntBits - 1]
  BY <1>2, PowersPositive
<1>4. PICK h \in Nat \ {0} : Base = 2 * h
  BY <1>2, <1>3 DEF Base
<1>5. Base \in Nat \ {0}
  BY <1>4
<1>6. h * Base \in Nat \ {0} /\ Base * Base \in Nat \ {0}
  BY <1>5, DivisionTwice
<1>7. Base * Base = 2 * (h * Base)
  BY <1>4, <1>5
<1>. QED BY <1>4, <1>5, <1>6, <1>7

\* A number that fits into a word is that word.
LEMMA UnsignedKept ==
  ASSUME NEW S \in Nat \ {0}, NEW v \in 0 .. S - 1
  PROVE  v % S = v
<1>1. v \in Int /\ v = S * 0 + v
  OBVIOUS
<1>. QED BY <1>1, DivisionIs

\* Two's complement.
LEMMA SignedKept ==
  ASSUME NEW S \in Nat \ {0}, NEW h \in Nat \ {0}, S = 2 * h, NEW v \in Int, 2 * v \in -S .. S - 1
  PROVE  Signed(v % S, S) = v
<1>1. S \div 2 = h
  <2>1. 2 \in Nat \ {0} /\ 0 \in 0 .. 2 - 1 /\ S \in Int /\ S = 2 * h + 0
    OBVIOUS
  <2>. QED BY <2>1, DivisionIs
<1>2. CASE v >= 0
  <2>1. v \in 0 .. S - 1 /\ ~(v >= h)
    BY <1>2
  <2>2. v % S = v
    BY <2>1, UnsignedKept
  <2>. QED BY <1>1, <2>1, <2>2 DEF Signed
<1>3. CASE v < 0
  <2>1. v + S \in 0 .. S - 1 /\ v + S >= h
    BY <1>3
  <2>2. v = S * (-1) + (v + S)
    OBVIOUS
  <2>3. v % S = v + S
    BY <2>1, <2>2, DivisionIs
  <2>4. (v + S) - S = v
    OBVIOUS
  <2>. QED BY <1>1, <2>1, <2>3, <2>4 DEF Signed
<1>. QED BY <1>2, <1>3

\* A long long is put together from its two words.
LEMMA TwoWords ==
  ASSUME NEW v \in Int, NEW B \in Nat \ {0}
  PROVE  (v % B) + B * ((v \div B) % B) = v % (B * B)
<1>0. B * B \in Nat \ {0}
  BY DivisionTwice
<1>1. PICK q \in Int, d \in 0 .. B - 1 : v \div B = q /\ v % B = d /\ v = B * q + d
  BY Division
<1>2. PICK z \in Int, e \in 0 .. B - 1 : q \div B = z /\ q % B = e /\ q = B * z + e
  BY Division
<1>3. B * e + d \in 0 .. (B * B) - 1
  <2>1. B * e \in Nat
    OBVIOUS
  <2>2. B * B >= B * e + B
    BY Multiple
  <2>. DEFINE x == B * B
              y == B * e
  <2>. HIDE DEF x, y
  <2>3. x \in Nat /\ y \in Nat /\ x >= y + B
    BY <1>0, <2>1, <2>2 DEF x, y
  <2>4. y + d \in 0 .. x - 1
    BY <2>3
  <2>. QED BY <2>4 DEF x, y
<1>4. v = (B * B) * z + (B * e + d)
  <2>1. v = B * (B * z + e) + d
    BY <1>1, <1>2
  <2>. DEFINE bz == B * z
  <2>2. bz \in Int /\ B * bz = (B * B) * z
    OBVIOUS
  <2>. HIDE DEF bz
  <2>3. B * (bz + e) = B * bz + B * e
    BY <2>2
  <2>. DEFINE x == B * bz
              y == B * e
              w == B * (bz + e)
  <2>4. x \in Int /\ y \in Int /\ w \in Int
    BY <2>2
  <2>. HIDE DEF x, y, w
  <2>5. v = w + d /\ w = x + y
    BY <2>1, <2>3 DEF x, y, w, bz
  <2>6. v = x + (y + d)
    BY <2>4, <2>5
  <2>. QED BY <2>2, <2>6 DEF x, y
<1>5. v % (B * B) = B * e + d
  <2>. DEFINE x == B * B
              y == B * e + d
  <2>. HIDE DEF x, y
  <2>1. x \in Nat \ {0} /\ y \in 0 .. x - 1 /\ v = x * z + y
    BY <1>0, <1>3, <1>4 DEF x, y
  <2>2. v % x = y
    BY <2>1, DivisionIs
  <2>. QED BY <2>2 DEF x, y
<1>6. B * e \in Int /\ B * e + d = d + B * e
  OBVIOUS
<1>. QED BY <1>1, <1>2, <1>5, <1>6

\* printf_signed writes a sign before the numeral.
LEMMA SignedPrinted ==
  ASSUME NEW v \in Int, NEW radix \in 2 .. 16
  PROVE  /\ printf_signed(v, radix) \in Seq(Glyphs)
         /\ printf_signed(v, radix) = IF v < 0 THEN <<"-">> \o Numeral(-v, radix) ELSE Numeral(v, radix)
<1>1. CASE v < 0
  <2>1. -v \in Nat
    BY <1>1
  <2>2. printf_unsigned(-v, radix) = Numeral(-v, radix) /\ printf_unsigned(-v, radix) \in Seq(Glyphs)
    BY <2>1, NumeralPrinted
  <2>3. <<"-">> \in Seq(Glyphs)
    BY DEF Glyphs
  <2>. QED BY <1>1, <2>2, <2>3 DEF printf_signed
<1>2. CASE ~(v < 0)
  <2>1. v \in Nat
    BY <1>2
  <2>2. printf_unsigned(v, radix) = Numeral(v, radix) /\ printf_unsigned(v, radix) \in Seq(Glyphs)
    BY <2>1, NumeralPrinted
  <2>. QED BY <1>2, <2>2 DEF printf_signed
<1>. QED BY <1>1, <1>2

-----------------------------------------------------------------------------
(* The automaton, character by character.                                  *)

Feeding == INSTANCE Recursion
  WITH Op <- LAMBDA which, a, c : IF which = "loader" THEN printf_stage2(a, c) ELSE printf(a, c)

Word == [word : Nat, text : Seq(Glyphs)]
Autos ==
  [state : {"NORMAL", "LENGTH", "LENGTH_SHORT", "LENGTH_LONG", "SPEC", "DONE"},
   length : {"DEFAULT", "SHORT", "SHORT_SHORT", "LONG", "LONG_LONG"}, radix : 2 .. 16,
   sign : BOOLEAN, number : BOOLEAN, args : Seq(Word), printed : Seq(Glyphs), over : BOOLEAN]

\* The automaton keeps its type: taking an argument,
LEMMA TakeKeeps ==
  ASSUME NEW a \in Autos, NEW n \in {1, 2}, NEW shown,
         Len(a.args) >= n => shown \in Seq(Glyphs)
  PROVE  Take(a, n, shown) \in Autos
<1>1. CASE Len(a.args) < n
  <2>1. [a EXCEPT !.over = TRUE, !.args = <<>>] \in Autos
    <3>1. <<>> \in Seq(Word)
      OBVIOUS
    <3>. QED BY <3>1 DEF Autos
  <2>. QED BY <1>1, <2>1 DEF Take
<1>2. CASE ~(Len(a.args) < n)
  <2>1. a.args \in Seq(Word) /\ a.printed \in Seq(Glyphs)
    BY DEF Autos
  <2>2. shown \in Seq(Glyphs)
    BY <1>2, <2>1
  <2>3. SubSeq(a.args, n + 1, Len(a.args)) \in Seq(Word) /\ a.printed \o shown \in Seq(Glyphs)
    BY <2>1, <2>2
  <2>4. Take(a, n, shown) = [a EXCEPT !.printed = a.printed \o shown,
                                      !.args = SubSeq(a.args, n + 1, Len(a.args))]
    BY <1>2 DEF Take
  <2>. QED BY <2>3, <2>4 DEF Autos
<1>. QED BY <1>1, <1>2

\* reading the letter of a directive,
LEMMA DirectiveKeeps ==
  ASSUME NEW a \in Autos, NEW c
  PROVE  Directive(a, c) \in Autos
<1>1. CASE c \in {"c", "s"}
  <2>1. Len(a.args) >= 1 => a.args[1].text \in Seq(Glyphs)
    <3>1. a.args \in Seq(Word)
      BY DEF Autos
    <3>2. Len(a.args) >= 1 => a.args[1] \in Word
      BY <3>1
    <3>. QED BY <3>2 DEF Word
  <2>2. Take(a, 1, a.args[1].text) \in Autos
    BY <2>1, TakeKeeps
  <2>. QED BY <1>1, <2>2 DEF Directive
<1>2. CASE c = "%"
  <2>1. Append(a.printed, "%") \in Seq(Glyphs)
    BY DEF Autos, Glyphs
  <2>2. [a EXCEPT !.printed = Append(a.printed, "%")] \in Autos
    BY <2>1 DEF Autos
  <2>. QED BY <1>2, <2>2 DEF Directive
<1>0. \A radix \in {8, 10, 16}, b \in BOOLEAN :
        [a EXCEPT !.number = TRUE, !.radix = radix, !.sign = b] \in Autos
  <2>1. \A radix \in {8, 10, 16} : radix \in 2 .. 16
    OBVIOUS
  <2>. QED BY <2>1 DEF Autos
<1>3. CASE c \in {"d", "i"}
  <2>1. Directive(a, c) = [[a EXCEPT !.number = TRUE] EXCEPT !.radix = 10, !.sign = TRUE]
    BY <1>3 DEF Directive, Number
  <2>. QED BY <1>0, <2>1 DEF Autos
<1>4. CASE c \in {"u", "x", "X", "p", "o"}
  <2>. DEFINE radix == IF c = "u" THEN 10 ELSE IF c = "o" THEN 8 ELSE 16
  <2>1. Directive(a, c) = [[a EXCEPT !.number = TRUE] EXCEPT !.radix = radix, !.sign = FALSE]
    BY <1>4 DEF Directive, Number
  <2>2. radix \in {8, 10, 16}
    OBVIOUS
  <2>. HIDE DEF radix
  <2>. QED BY <1>0, <2>1, <2>2 DEF Autos
<1>7. CASE c \notin {"c", "s", "%", "d", "i", "u", "x", "X", "p", "o"}
  BY <1>7 DEF Directive
<1>. QED BY <1>1, <1>2, <1>3, <1>4, <1>7

\* What Convert shows of a word.
Displayed(a, n, size) == IF a.sign THEN printf_signed(Signed(n, size), a.radix)
                      ELSE printf_unsigned(n, a.radix)

\* converting a number,
LEMMA ConvertKeeps ==
  ASSUME NEW a \in Autos
  PROVE  Convert(a) \in Autos
<1>1. ASSUME NEW n \in Nat, NEW size \in Nat \ {0} PROVE Displayed(a, n, size) \in Seq(Glyphs)
  <2>1. a.radix \in 2 .. 16
    BY DEF Autos
  <2>2. Signed(n, size) \in Int
    BY DEF Signed
  <2>3. printf_signed(Signed(n, size), a.radix) \in Seq(Glyphs)
    BY <2>1, <2>2, SignedPrinted
  <2>4. printf_unsigned(n, a.radix) \in Seq(Glyphs)
    BY <2>1, NumeralPrinted
  <2>. QED BY <2>3, <2>4 DEF Displayed
<1>2. a.args \in Seq(Word)
  BY DEF Autos
<1>3. /\ Len(a.args) >= 1 => a.args[1].word \in Nat
      /\ Len(a.args) >= 2 => a.args[2].word \in Nat
  <2>1. Len(a.args) >= 1 => a.args[1] \in Word
    BY <1>2
  <2>2. Len(a.args) >= 2 => a.args[2] \in Word
    BY <1>2
  <2>. QED BY <2>1, <2>2 DEF Word
<1>4. CASE ~a.number
  BY <1>4 DEF Convert
<1>5. CASE a.number /\ a.length = "LONG_LONG"
  <2>. DEFINE n == a.args[1].word + Base * a.args[2].word
  <2>1. Len(a.args) >= 2 => n \in Nat
    <3>. SUFFICES ASSUME Len(a.args) >= 2 PROVE n \in Nat
      OBVIOUS
    <3>1. a.args[1].word \in Nat /\ a.args[2].word \in Nat
      BY <1>2, <1>3
    <3>2. Base * a.args[2].word \in Nat
      BY <3>1, BaseEven
    <3>. QED BY <3>1, <3>2
  <2>. HIDE DEF n
  <2>2. Len(a.args) >= 2 => Displayed(a, n, Base * Base) \in Seq(Glyphs)
    BY <1>1, <2>1, BaseEven
  <2>3. Take(a, 2, Displayed(a, n, Base * Base)) \in Autos
    BY <2>2, TakeKeeps
  <2>. QED BY <1>5, <2>3 DEF Convert, Displayed, n
<1>6. CASE a.number /\ a.length # "LONG_LONG"
  <2>2. Len(a.args) >= 1 => Displayed(a, a.args[1].word, Base) \in Seq(Glyphs)
    BY <1>1, <1>3, BaseEven
  <2>3. Take(a, 1, Displayed(a, a.args[1].word, Base)) \in Autos
    BY <2>2, TakeKeeps
  <2>. QED BY <1>6, <2>3 DEF Convert, Displayed
<1>. QED BY <1>4, <1>5, <1>6

\* and with every character.
LEMMA StepKeeps ==
  ASSUME NEW a \in Autos, NEW c \in Glyphs
  PROVE  printf(a, c) \in Autos /\ printf_stage2(a, c) \in Autos
<1>1. Feed(a, c) \in Autos
  <2>1. CASE a.state = "NORMAL" /\ c # "%"
    <3>1. Append(a.printed, c) \in Seq(Glyphs)
      BY DEF Autos
    <3>2. [a EXCEPT !.printed = Append(a.printed, c)] \in Autos
      BY <3>1 DEF Autos
    <3>. QED BY <2>1, <3>2 DEF Feed
  <2>2. [Convert(Directive(a, c)) EXCEPT !.state = "DONE"] \in Autos
    <3>1. Convert(Directive(a, c)) \in Autos
      BY DirectiveKeeps, ConvertKeeps
    <3>. DEFINE b == Convert(Directive(a, c))
    <3>. HIDE DEF b
    <3>2. [b EXCEPT !.state = "DONE"] \in Autos
      BY <3>1 DEF b, Autos
    <3>. QED BY <3>2 DEF b
  <2>3. CASE ~(a.state = "NORMAL" /\ c # "%")
    BY <2>2, <2>3 DEF Feed, Autos
  <2>. QED BY <2>1, <2>3
<1>. DEFINE b == Feed(a, c)
<1>2. Reset(b) \in Autos /\ ResetStage2(b) \in Autos
  <2>. HIDE DEF b
  <2>1. b \in Autos /\ 10 \in 2 .. 16
    BY <1>1 DEF b
  <2>2. Reset(b) \in Autos
    BY <2>1 DEF Autos, Reset
  <2>3. ResetStage2(b) \in Autos
    BY <2>1 DEF Autos, ResetStage2
  <2>. QED BY <2>2, <2>3
<1>. QED BY <1>1, <1>2 DEF printf, printf_stage2

-----------------------------------------------------------------------------
(* A format, piece by piece.                                               *)

Good == {p \in Piece : WellFormed(p)}

Chars == INSTANCE Recursion WITH Op <- LAMBDA which, s, p : s \o CharsOf(p)
Asked == INSTANCE Recursion WITH Op <- LAMBDA which, s, p : s \o WordsOf(p)
Meant == INSTANCE Recursion WITH Op <- LAMBDA which, s, p : s \o Meaning(p)

\* What Concat puts together is a fold.
LEMMA ConcatFolds ==
  \A f : /\ Concat(CharsOf, f) = Chars!Fold(0, <<>>, f)
         /\ Concat(WordsOf, f) = Asked!Fold(0, <<>>, f)
         /\ Concat(Meaning, f) = Meant!Fold(0, <<>>, f)
<1>. TAKE f
<1>1. Concat(CharsOf, f) = Chars!Fold(0, <<>>, f)
  BY DEF Concat, FoldLeft, MapThenFoldSet, Max, Chars!Fold, Chars!FoldLeft,
         Chars!MapThenFoldSet, Chars!Max
<1>2. Concat(WordsOf, f) = Asked!Fold(0, <<>>, f)
  BY DEF Concat, FoldLeft, MapThenFoldSet, Max, Asked!Fold, Asked!FoldLeft,
         Asked!MapThenFoldSet, Asked!Max
<1>3. Concat(Meaning, f) = Meant!Fold(0, <<>>, f)
  BY DEF Concat, FoldLeft, MapThenFoldSet, Max, Meant!Fold, Meant!FoldLeft,
         Meant!MapThenFoldSet, Meant!Max
<1>. QED BY <1>1, <1>2, <1>3

\* What a piece is made of, asks for and means.
LEMMA PieceTyped ==
  ASSUME NEW p \in Good
  PROVE  CharsOf(p) \in Seq(Glyphs) /\ WordsOf(p) \in Seq(Word) /\ Meaning(p) \in Seq(Glyphs)
<1>1. /\ p \in Piece /\ WellFormed(p) /\ p.text \in Seq(STRING) /\ p.value \in Int
      /\ p.length \in Lengths /\ p.spec \in {"text", "c", "s", "%", "d", "i"} \cup Unsigned
  BY DEF Good, Piece
<1>2. p.text \in Seq(Glyphs)
  <2>1. STRING \subseteq Glyphs
    BY DEF Glyphs
  <2>. DEFINE S == STRING
  <2>2. p.text \in Seq(S) /\ S \subseteq Glyphs
    BY <1>1, <2>1
  <2>. HIDE DEF S
  <2>. QED BY <2>2
<1>a. p.spec # "text" => p.spec \in Glyphs
  BY <1>1 DEF Glyphs
<1>b. p.length \in Seq(Glyphs)
  <2>. DEFINE h == "h"
              l == "l"
  <2>1. p.length \in {<<>>, <<h>>, <<h, h>>, <<l>>, <<l, l>>} /\ h \in Glyphs /\ l \in Glyphs
    BY <1>1 DEF Lengths, Glyphs
  <2>. HIDE DEF h, l
  <2>2. <<h>> \in Seq(Glyphs) /\ <<l>> \in Seq(Glyphs)
    BY <2>1
  <2>3. <<h, h>> \in Seq(Glyphs) /\ <<l, l>> \in Seq(Glyphs)
    BY <2>1
  <2>4. <<>> \in Seq(Glyphs)
    OBVIOUS
  <2>. QED BY <2>1, <2>2, <2>3, <2>4, Zenon
<1>c. ASSUME NEW c \in Glyphs PROVE <<"%">> \o p.length \o <<c>> \in Seq(Glyphs)
  <2>. DEFINE per == "%"
              l == p.length
  <2>1. per \in Glyphs /\ l \in Seq(Glyphs)
    BY <1>b DEF Glyphs
  <2>. HIDE DEF per, l
  <2>2. <<per>> \in Seq(Glyphs) /\ <<c>> \in Seq(Glyphs)
    BY <2>1
  <2>3. <<per>> \o l \o <<c>> \in Seq(Glyphs)
    BY <2>1, <2>2
  <2>. QED BY <2>3 DEF per, l
<1>3. CharsOf(p) \in Seq(Glyphs)
  <2>1. CASE p.spec = "text"
    BY <1>2, <2>1 DEF CharsOf
  <2>2. CASE p.spec # "text"
    BY <1>a, <1>c, <2>2, Zenon DEF CharsOf
  <2>. QED BY <2>1, <2>2, Zenon
<1>4. WordsOf(p) \in Seq(Word)
  <2>1. \A n \in Int : n % Base \in Nat
    BY BaseEven, Division
  <2>2. p.value \div Base \in Int
    BY <1>1, BaseEven, Division
  <2>. DEFINE lo == [word |-> p.value % Base, text |-> p.text]
              hi == [word |-> (p.value \div Base) % Base, text |-> p.text]
  <2>3. lo \in Word /\ hi \in Word
    BY <1>1, <1>2, <2>1, <2>2 DEF Word
  <2>4. WordsOf(p) \in {<<>>, <<lo, hi>>, <<lo>>}
    BY DEF WordsOf
  <2>. HIDE DEF lo, hi
  <2>5. <<>> \in Seq(Word) /\ <<lo, hi>> \in Seq(Word) /\ <<lo>> \in Seq(Word)
    BY <2>3
  <2>. QED BY <2>4, <2>5
<1>5. Meaning(p) \in Seq(Glyphs)
  <2>1. RadixOf(p) \in 2 .. 16
    BY DEF RadixOf
  <2>2. printf_signed(p.value, RadixOf(p)) \in Seq(Glyphs)
    BY <1>1, <2>1, SignedPrinted
  <2>3. CASE Numeric(p)
    <3>1. Meaning(p) = printf_signed(p.value, RadixOf(p))
      <4>1. p.spec # "%"
        BY <2>3 DEF Numeric, Unsigned
      <4>2. Meaning(p) = IF p.value < 0 THEN <<"-">> \o Numeral(-p.value, RadixOf(p))
                         ELSE Numeral(p.value, RadixOf(p))
        BY <2>3, <4>1 DEF Meaning
      <4>. QED BY <1>1, <2>1, <4>2, SignedPrinted
    <3>. QED BY <2>2, <3>1
  <2>4. CASE ~Numeric(p)
    <3>1. <<"%">> \in Seq(Glyphs)
      BY DEF Glyphs
    <3>. QED BY <1>2, <2>4, <3>1 DEF Meaning
  <2>. QED BY <2>3, <2>4
<1>. QED BY <1>3, <1>4, <1>5

\* What a format is made of.
LEMMA FormatTyped ==
  ASSUME NEW s \in Seq(Good)
  PROVE  /\ Concat(CharsOf, s) \in Seq(Glyphs)
         /\ Concat(WordsOf, s) \in Seq(Word)
         /\ Concat(Meaning, s) \in Seq(Glyphs)
<1>. DEFINE e == <<>>
<1>0. e \in Seq(Glyphs) /\ e \in Seq(Word)
  OBVIOUS
<1>. HIDE DEF e
<1>1. \A x \in Seq(Glyphs), c \in Good : x \o CharsOf(c) \in Seq(Glyphs)
  BY PieceTyped
<1>2. \A x \in Seq(Word), c \in Good : x \o WordsOf(c) \in Seq(Word)
  BY PieceTyped
<1>3. \A x \in Seq(Glyphs), c \in Good : x \o Meaning(c) \in Seq(Glyphs)
  BY PieceTyped
<1>4. Chars!Fold(0, e, s) \in Seq(Glyphs)
  BY <1>0, <1>1, Chars!FoldStays
<1>5. Asked!Fold(0, e, s) \in Seq(Word)
  BY <1>0, <1>2, Asked!FoldStays
<1>6. Meant!Fold(0, e, s) \in Seq(Glyphs)
  BY <1>0, <1>3, Meant!FoldStays
<1>. QED BY <1>4, <1>5, <1>6, ConcatFolds DEF e

\* The empty format.
LEMMA FormatEmpty ==
  Concat(CharsOf, <<>>) = <<>> /\ Concat(WordsOf, <<>>) = <<>> /\ Concat(Meaning, <<>>) = <<>>
BY ConcatFolds, Chars!FoldEmpty, Asked!FoldEmpty, Meant!FoldEmpty

\* A format is its first piece, and the others.
LEMMA FormatFirst ==
  ASSUME NEW p \in Good, NEW s \in Seq(Good)
  PROVE  /\ Concat(CharsOf, <<p>> \o s) = CharsOf(p) \o Concat(CharsOf, s)
         /\ Concat(WordsOf, <<p>> \o s) = WordsOf(p) \o Concat(WordsOf, s)
         /\ Concat(Meaning, <<p>> \o s) = Meaning(p) \o Concat(Meaning, s)
<1>0. \A c \in Good : CharsOf(c) \in Seq(Glyphs) /\ WordsOf(c) \in Seq(Word) /\ Meaning(c) \in Seq(Glyphs)
  BY PieceTyped
<1>a. \A T : \A x \in Seq(T) : <<>> \o x = x
  BY ConcatEmptySeq
<1>1. /\ \A c \in Good : <<>> \o CharsOf(c) = CharsOf(c)
      /\ \A c \in Good : <<>> \o WordsOf(c) = WordsOf(c)
      /\ \A c \in Good : <<>> \o Meaning(c) = Meaning(c)
  BY <1>0, <1>a
<1>2. Chars!Adds(0, Good, Glyphs)
  BY <1>0, <1>1 DEF Chars!Adds
<1>3. Asked!Adds(0, Good, Word)
  BY <1>0, <1>1 DEF Asked!Adds
<1>4. Meant!Adds(0, Good, Glyphs)
  BY <1>0, <1>1 DEF Meant!Adds
<1>5. Chars!Fold(0, <<>>, <<p>> \o s) = (<<>> \o CharsOf(p)) \o Chars!Fold(0, <<>>, s)
  BY <1>2, Chars!FoldFirst
<1>6. Asked!Fold(0, <<>>, <<p>> \o s) = (<<>> \o WordsOf(p)) \o Asked!Fold(0, <<>>, s)
  BY <1>3, Asked!FoldFirst
<1>7. Meant!Fold(0, <<>>, <<p>> \o s) = (<<>> \o Meaning(p)) \o Meant!Fold(0, <<>>, s)
  BY <1>4, Meant!FoldFirst
<1>8. /\ Concat(CharsOf, <<p>> \o s) = (<<>> \o CharsOf(p)) \o Concat(CharsOf, s)
      /\ Concat(WordsOf, <<p>> \o s) = (<<>> \o WordsOf(p)) \o Concat(WordsOf, s)
      /\ Concat(Meaning, <<p>> \o s) = (<<>> \o Meaning(p)) \o Concat(Meaning, s)
  BY <1>5, <1>6, <1>7, ConcatFolds, Zenon
<1>. QED BY <1>1, <1>8

-----------------------------------------------------------------------------
(* A piece, fed to the automaton.                                          *)

\* Between two pieces.
Between(a) == /\ a \in Autos /\ a.state = "NORMAL" /\ a.length = "DEFAULT"
            /\ a.radix = 10 /\ a.sign = FALSE

\* With a text printed.
Adding(a, t) == [a EXCEPT !.printed = a.printed \o t]

\* A text is printed as it stands.
LEMMA TextFed ==
  ASSUME NEW which, NEW a \in Autos, a.state = "NORMAL", NEW t \in Seq(Glyphs),
         \A i \in DOMAIN t : t[i] # "%"
  PROVE  Feeding!Fold(which, a, t) = Adding(a, t)
<1>. DEFINE n == Len(t)
            with(s) == [a EXCEPT !.printed = s]
            v == [i \in 0 .. n |-> with(a.printed \o SubSeq(t, 1, i))]
<1>0. n \in Nat /\ DOMAIN t = 1 .. n /\ a.printed \in Seq(Glyphs)
  BY DEF Autos
<1>1. ASSUME NEW s, NEW c, c # "%"
      PROVE  /\ printf(with(s), c) = with(Append(s, c))
             /\ printf_stage2(with(s), c) = with(Append(s, c))
  <2>1. with(s).state = "NORMAL" /\ with(s).printed = s
    BY DEF Autos
  <2>2. Feed(with(s), c) = [with(s) EXCEPT !.printed = Append(s, c)]
    BY <1>1, <2>1 DEF Feed
  <2>3. [with(s) EXCEPT !.printed = Append(s, c)] = with(Append(s, c))
    BY DEF Autos
  <2>4. with(Append(s, c)).state # "DONE"
    BY DEF Autos
  <2>. HIDE DEF with
  <2>. QED BY <2>2, <2>3, <2>4 DEF printf, printf_stage2
<1>. HIDE DEF with
<1>2. v[0] = a
  <2>1. SubSeq(t, 1, 0) = <<>>
    OBVIOUS
  <2>2. a.printed \o <<>> = a.printed
    BY <1>0, ConcatEmptySeq
  <2>3. with(a.printed) = a
    BY DEF with, Autos
  <2>4. 0 \in 0 .. n
    BY <1>0
  <2>5. v[0] = with(a.printed \o SubSeq(t, 1, 0))
    BY <2>4
  <2>. HIDE DEF v
  <2>. QED BY <2>1, <2>2, <2>3, <2>5
<1>3. ASSUME NEW i \in 1 .. n
      PROVE  v[i] = IF which = "loader" THEN printf_stage2(v[i - 1], t[i]) ELSE printf(v[i - 1], t[i])
  <2>. DEFINE s == a.printed \o SubSeq(t, 1, i - 1)
  <2>1. i \in 0 .. n /\ i - 1 \in 0 .. n
    BY <1>0
  <2>2. v[i] = with(a.printed \o SubSeq(t, 1, i)) /\ v[i - 1] = with(s)
    BY <2>1
  <2>3. a.printed \o SubSeq(t, 1, i) = Append(s, t[i])
    <3>1. SubSeq(t, 1, i) = Append(SubSeq(t, 1, i - 1), t[i]) /\ t[i] \in Glyphs
      BY <1>0
    <3>. DEFINE u == SubSeq(t, 1, i - 1)
    <3>2. u \in Seq(Glyphs)
      BY <1>0
    <3>. DEFINE p == a.printed
                c == t[i]
    <3>3. p \in Seq(Glyphs) /\ c \in Glyphs
      BY <1>0, <3>1
    <3>. HIDE DEF u, p, c
    <3>4. Append(p \o u, c) = p \o Append(u, c)
      BY <3>2, <3>3
    <3>. QED BY <3>1, <3>4 DEF u, p, c
  <2>4. t[i] # "%"
    BY <1>0
  <2>. HIDE DEF s, v
  <2>. QED BY <1>1, <2>2, <2>3, <2>4
<1>4. Feeding!Follows(which, a, t, v)
  <2>. HIDE DEF v
  <2>. QED BY <1>2, <1>3 DEF Feeding!Follows
<1>5. v[Len(t)] = Feeding!Fold(which, a, t)
  <2>. HIDE DEF v
  <2>. QED BY <1>4, Feeding!FoldIs
<1>6. v[n] = with(a.printed \o t)
  <2>1. SubSeq(t, 1, n) = t /\ n \in 0 .. n
    BY <1>0
  <2>. QED BY <2>1
<1>. QED BY <1>5, <1>6 DEF with, Adding

\* A step within a directive.
LEMMA WithinFed ==
  ASSUME NEW which, NEW a, NEW c, Feed(a, c).state # "DONE"
  PROVE  Feeding!Fold(which, a, <<c>>) = Feed(a, c)
<1>1. Feeding!Fold(which, a, <<c>>) = IF which = "loader" THEN printf_stage2(a, c) ELSE printf(a, c)
  BY Feeding!FoldOne
<1>2. printf_stage2(a, c) = Feed(a, c) /\ printf(a, c) = Feed(a, c)
  BY DEF printf, printf_stage2
<1>. QED BY <1>1, <1>2

\* In the middle of one.
Halfway(a, st, ln) == [a EXCEPT !.state = st, !.length = ln]

\* The percent sign and the length set the state and the length.
LEMMA LengthFed ==
  ASSUME NEW which, NEW a, Between(a), NEW len \in Lengths
  PROVE  \E st \in {"LENGTH", "LENGTH_SHORT", "LENGTH_LONG", "SPEC"},
            ln \in {"DEFAULT", "SHORT", "SHORT_SHORT", "LONG", "LONG_LONG"} :
           /\ ln = "LONG_LONG" <=> len = <<"l", "l">>
           /\ Feeding!Fold(which, a, <<"%">> \o len) = Halfway(a, st, ln)
<1>. DEFINE Going(st, ln) == Halfway(a, st, ln)
            per == <<"%">>
            h == <<"h">>
            l == <<"l">>
<1>0. a \in Autos /\ a.state = "NORMAL" /\ a.length = "DEFAULT"
  BY DEF Between
<1>a. \A st, ln : Going(st, ln).state = st /\ Going(st, ln).length = ln
  BY <1>0 DEF Halfway, Autos
<1>b. per \in Seq(Glyphs) /\ h \in Seq(Glyphs) /\ l \in Seq(Glyphs)
  BY DEF Glyphs
<1>c. <<"h", "h">> = h \o h /\ <<"l", "l">> = l \o l
  OBVIOUS
<1>1. Feeding!Fold(which, a, per) = Going("LENGTH", "DEFAULT")
  <2>1. Feed(a, "%") = [a EXCEPT !.state = "LENGTH"]
    BY <1>0 DEF Feed
  <2>2. [a EXCEPT !.state = "LENGTH"] = Going("LENGTH", "DEFAULT")
    BY <1>0 DEF Halfway, Autos
  <2>. HIDE DEF Going
  <2>3. Feed(a, "%").state # "DONE"
    BY <1>a, <2>1, <2>2
  <2>. QED BY <2>1, <2>2, <2>3, WithinFed
<1>2. ASSUME NEW q, NEW c, NEW x \in {"LENGTH_SHORT", "LENGTH_LONG", "SPEC"}, NEW y,
             Feed(q, c) = Going(x, y)
      PROVE  Feeding!Fold(which, q, <<c>>) = Going(x, y)
  <2>. HIDE DEF Going
  <2>1. Feed(q, c).state # "DONE"
    BY <1>2, <1>a
  <2>2. Feeding!Fold(which, q, <<c>>) = Feed(q, c)
    BY <2>1, WithinFed
  <2>. QED BY <1>2, <2>2
<1>. HIDE DEF Going
<1>3. Feeding!Fold(which, Going("LENGTH", "DEFAULT"), h) = Going("LENGTH_SHORT", "SHORT")
  <2>1. Feed(Going("LENGTH", "DEFAULT"), "h")
          = [Going("LENGTH", "DEFAULT") EXCEPT !.length = "SHORT", !.state = "LENGTH_SHORT"]
    BY <1>a DEF Feed
  <2>2. [Going("LENGTH", "DEFAULT") EXCEPT !.length = "SHORT", !.state = "LENGTH_SHORT"] = Going("LENGTH_SHORT", "SHORT")
    BY <1>0 DEF Going, Halfway, Autos
  <2>3. Feed(Going("LENGTH", "DEFAULT"), "h") = Going("LENGTH_SHORT", "SHORT")
    BY <2>1, <2>2, Zenon
  <2>. QED BY <1>2, <2>3
<1>4. Feeding!Fold(which, Going("LENGTH", "DEFAULT"), l) = Going("LENGTH_LONG", "LONG")
  <2>1. Feed(Going("LENGTH", "DEFAULT"), "l")
          = [Going("LENGTH", "DEFAULT") EXCEPT !.length = "LONG", !.state = "LENGTH_LONG"]
    BY <1>a DEF Feed
  <2>2. [Going("LENGTH", "DEFAULT") EXCEPT !.length = "LONG", !.state = "LENGTH_LONG"] = Going("LENGTH_LONG", "LONG")
    BY <1>0 DEF Going, Halfway, Autos
  <2>3. Feed(Going("LENGTH", "DEFAULT"), "l") = Going("LENGTH_LONG", "LONG")
    BY <2>1, <2>2, Zenon
  <2>. QED BY <1>2, <2>3
<1>5. Feeding!Fold(which, Going("LENGTH_SHORT", "SHORT"), h) = Going("SPEC", "SHORT_SHORT")
  <2>1. Feed(Going("LENGTH_SHORT", "SHORT"), "h")
          = [Going("LENGTH_SHORT", "SHORT") EXCEPT !.length = "SHORT_SHORT", !.state = "SPEC"]
    BY <1>a DEF Feed
  <2>2. [Going("LENGTH_SHORT", "SHORT") EXCEPT !.length = "SHORT_SHORT", !.state = "SPEC"] = Going("SPEC", "SHORT_SHORT")
    BY <1>0 DEF Going, Halfway, Autos
  <2>3. Feed(Going("LENGTH_SHORT", "SHORT"), "h") = Going("SPEC", "SHORT_SHORT")
    BY <2>1, <2>2, Zenon
  <2>. QED BY <1>2, <2>3
<1>6. Feeding!Fold(which, Going("LENGTH_LONG", "LONG"), l) = Going("SPEC", "LONG_LONG")
  <2>1. Feed(Going("LENGTH_LONG", "LONG"), "l")
          = [Going("LENGTH_LONG", "LONG") EXCEPT !.length = "LONG_LONG", !.state = "SPEC"]
    BY <1>a DEF Feed
  <2>2. [Going("LENGTH_LONG", "LONG") EXCEPT !.length = "LONG_LONG", !.state = "SPEC"] = Going("SPEC", "LONG_LONG")
    BY <1>0 DEF Going, Halfway, Autos
  <2>3. Feed(Going("LENGTH_LONG", "LONG"), "l") = Going("SPEC", "LONG_LONG")
    BY <2>1, <2>2, Zenon
  <2>. QED BY <1>2, <2>3
<1>7. ASSUME NEW s \in Seq(Glyphs)
      PROVE  Feeding!Fold(which, a, per \o s) = Feeding!Fold(which, Going("LENGTH", "DEFAULT"), s)
  <2>. HIDE DEF per
  <2>. QED BY <1>1, <1>b, Feeding!FoldConcat
<1>8. ASSUME NEW m, NEW s \in Seq(Glyphs), NEW u \in Seq(Glyphs)
      PROVE  Feeding!Fold(which, m, s \o u) = Feeding!Fold(which, Feeding!Fold(which, m, s), u)
  BY Feeding!FoldConcat
<1>9. len \in {<<>>, h, h \o h, l, l \o l}
  BY <1>c DEF Lengths
<1>. DEFINE none == <<>>
<1>10. none \in Seq(Glyphs) /\ h \o h \in Seq(Glyphs) /\ l \o l \in Seq(Glyphs)
  <2>. HIDE DEF h, l
  <2>. QED BY <1>b
<1>11. Feeding!Fold(which, Going("LENGTH", "DEFAULT"), none) = Going("LENGTH", "DEFAULT")
  BY Feeding!FoldEmpty
<1>12. none # l \o l /\ h # l \o l /\ h \o h # l \o l /\ l # l \o l
  OBVIOUS
<1>. HIDE DEF per, h, l, none
<1>13. /\ Feeding!Fold(which, Going("LENGTH", "DEFAULT"), h \o h) = Going("SPEC", "SHORT_SHORT")
       /\ Feeding!Fold(which, Going("LENGTH", "DEFAULT"), l \o l) = Going("SPEC", "LONG_LONG")
  BY <1>3, <1>4, <1>5, <1>6, <1>8, <1>b
<1>14. \E st \in {"LENGTH", "LENGTH_SHORT", "LENGTH_LONG", "SPEC"},
          ln \in {"DEFAULT", "SHORT", "SHORT_SHORT", "LONG", "LONG_LONG"} :
         (ln = "LONG_LONG" <=> len = l \o l) /\ Feeding!Fold(which, a, per \o len) = Going(st, ln)
  <2>1. CASE len = none
    BY <1>7, <1>10, <1>11, <1>12, <2>1
  <2>2. CASE len = h
    BY <1>b, <1>3, <1>7, <1>12, <2>2
  <2>3. CASE len = h \o h
    BY <1>7, <1>10, <1>12, <1>13, <2>3
  <2>4. CASE len = l
    BY <1>b, <1>4, <1>7, <1>12, <2>4
  <2>5. CASE len = l \o l
    BY <1>7, <1>10, <1>13, <2>5
  <2>. QED BY <1>9, <2>1, <2>2, <2>3, <2>4, <2>5 DEF none
<1>15. per = <<"%">> /\ <<"l", "l">> = l \o l
  BY <1>c DEF per
<1>. QED BY <1>14, <1>15 DEF Going

\* What comes of it at the letter.
Ended(which, m, c) ==
  LET done == [Convert(Directive(m, c)) EXCEPT !.state = "DONE"]
  IN IF which = "loader" THEN ResetStage2(done) ELSE Reset(done)

\* The letter's conclusion, of the result b.
LetterDone(which, a, len, c, b) ==
  \E m \in Autos, st \in {"LENGTH", "LENGTH_SHORT", "LENGTH_LONG", "SPEC"},
     ln \in {"DEFAULT", "SHORT", "SHORT_SHORT", "LONG", "LONG_LONG"} :
    /\ m = Halfway(a, st, ln)
    /\ ln = "LONG_LONG" <=> len = <<"l", "l">>
    /\ b = Ended(which, m, c)

\* The letter makes the directive take effect, and resets the flags.
LEMMA LetterFed ==
  ASSUME NEW which, NEW a, Between(a), NEW len \in Lengths,
         NEW c \in {"c", "s", "%", "d", "i"} \cup Unsigned
  PROVE  LetterDone(which, a, len, c, Feeding!Fold(which, a, <<"%">> \o len \o <<c>>))
<1>. DEFINE States == {"LENGTH", "LENGTH_SHORT", "LENGTH_LONG", "SPEC"}
            Kinds == {"DEFAULT", "SHORT", "SHORT_SHORT", "LONG", "LONG_LONG"}
            s == <<"%">> \o len
            t == <<c>>
<1>a. \E st \in {"LENGTH", "LENGTH_SHORT", "LENGTH_LONG", "SPEC"},
         ln \in {"DEFAULT", "SHORT", "SHORT_SHORT", "LONG", "LONG_LONG"} :
        /\ ln = "LONG_LONG" <=> len = <<"l", "l">>
        /\ Feeding!Fold(which, a, <<"%">> \o len) = Halfway(a, st, ln)
  BY LengthFed
<1>1. PICK st \in States, ln \in Kinds :
        /\ ln = "LONG_LONG" <=> len = <<"l", "l">>
        /\ Feeding!Fold(which, a, s) = Halfway(a, st, ln)
  BY <1>a, Zenon
<1>. DEFINE m == Halfway(a, st, ln)
            done == [Convert(Directive(m, c)) EXCEPT !.state = "DONE"]
<1>2. m \in Autos /\ m.state = st
  BY DEF Between, Halfway, Autos
<1>3. s \in Seq(Glyphs) /\ t \in Seq(Glyphs)
  <2>1. "%" \in Glyphs /\ "h" \in Glyphs /\ "l" \in Glyphs /\ c \in Glyphs
    BY DEF Glyphs
  <2>. DEFINE h == "h"
              l == "l"
              per == "%"
  <2>2. len = <<>> \/ len = <<h>> \/ len = <<h, h>> \/ len = <<l>> \/ len = <<l, l>>
    BY DEF Lengths
  <2>3. per \in Glyphs /\ h \in Glyphs /\ l \in Glyphs
    BY <2>1
  <2>. HIDE DEF per, h, l
  <2>4. <<>> \in Seq(Glyphs) /\ <<per>> \in Seq(Glyphs)
    BY <2>3
  <2>5. <<h>> \in Seq(Glyphs) /\ <<l>> \in Seq(Glyphs)
    BY <2>3
  <2>6. <<h, h>> \in Seq(Glyphs) /\ <<l, l>> \in Seq(Glyphs)
    BY <2>3
  <2>7. len \in Seq(Glyphs)
    BY <2>2, <2>4, <2>5, <2>6, Zenon
  <2>8. <<per>> \o len \in Seq(Glyphs)
    BY <2>4, <2>7
  <2>9. t \in Seq(Glyphs)
    BY <2>1
  <2>. QED BY <2>8, <2>9 DEF per
<1>. HIDE DEF s, t, m
<1>4. Feeding!Fold(which, a, s \o t) = Feeding!Fold(which, m, t)
  BY <1>1, <1>3, Feeding!FoldConcat DEF m
<1>5. Feeding!Fold(which, m, t) = IF which = "loader" THEN printf_stage2(m, c) ELSE printf(m, c)
  BY Feeding!FoldOne DEF t
<1>6. Feed(m, c) = done
  BY <1>2 DEF Feed, Unsigned
<1>7. done.state = "DONE"
  <2>1. Convert(Directive(m, c)) \in Autos
    BY <1>2, DirectiveKeeps, ConvertKeeps
  <2>. QED BY <2>1 DEF Autos
<1>. HIDE DEF done
<1>8. Feeding!Fold(which, a, s \o t) = IF which = "loader" THEN ResetStage2(done) ELSE Reset(done)
  BY <1>4, <1>5, <1>6, <1>7 DEF printf, printf_stage2
<1>9. Feeding!Fold(which, a, s \o t) = Ended(which, m, c)
  BY <1>8 DEF Ended, done
<1>. QED BY <1>1, <1>2, <1>9 DEF LetterDone, s, t, m

\* What stands first in a concatenation.
LEMMA ConcatFirst ==
  ASSUME NEW S, NEW u \in Seq(S), NEW w \in Seq(S), NEW i \in 1 .. Len(u)
  PROVE  (u \o w)[i] = u[i]
OBVIOUS

\* With something printed, and these arguments left.
Printing(a, shown, rem) == [a EXCEPT !.printed = a.printed \o shown, !.args = rem]

\* An argument is taken off, and what is shown of it is printed.
LEMMA TakeDone ==
  ASSUME NEW a \in Autos, NEW w \in Seq(Word), NEW rem \in Seq(Word), Len(w) \in {1, 2},
         a.args = w \o rem, NEW shown
  PROVE  Take(a, Len(w), shown) = Printing(a, shown, rem)
<1>1. Len(a.args) = Len(w) + Len(rem) /\ ~(Len(a.args) < Len(w))
  OBVIOUS
<1>2. SubSeq(a.args, Len(w) + 1, Len(a.args)) = rem
  <2>. DEFINE n == Len(w)
  <2>1. n \in Nat /\ SubSeq(w \o rem, n + 1, n + Len(rem)) = rem
    OBVIOUS
  <2>. QED BY <1>1, <2>1
<1>3. Take(a, Len(w), shown) = [a EXCEPT !.printed = a.printed \o shown,
                                         !.args = SubSeq(a.args, Len(w) + 1, Len(a.args))]
  BY <1>1 DEF Take
<1>. QED BY <1>2, <1>3 DEF Printing

\* What is shown of a number is what it means, whatever its size.
LEMMA NumberShown ==
  ASSUME NEW p \in Good, Numeric(p), NEW e, e.radix = RadixOf(p),
         e.sign = (p.spec \in {"d", "i"}),
         NEW size \in {Base, Base * Base}, size = IF Long(p) THEN Base * Base ELSE Base
  PROVE  Displayed(e, p.value % size, size) = Meaning(p)
<1>. DEFINE v == p.value
            base == RadixOf(p)
<1>1. v \in Int /\ WellFormed(p) /\ base \in 2 .. 16
  <2>1. p.value \in Int /\ WellFormed(p)
    BY DEF Good, Piece
  <2>2. RadixOf(p) \in 2 .. 16
    BY DEF RadixOf
  <2>. QED BY <2>1, <2>2
<1>2. size \in Nat \ {0} /\ \E h \in Nat \ {0} : size = 2 * h
  BY BaseEven
<1>3. Meaning(p) = IF v < 0 THEN <<"-">> \o Numeral(-v, base) ELSE Numeral(v, base)
  BY DEF Meaning, Numeric, Unsigned
<1>4. CASE p.spec \in {"d", "i"}
  <2>1. 2 * v \in -size .. size - 1
    BY <1>1, <1>4 DEF WellFormed
  <2>. HIDE DEF v, base
  <2>2. Signed(v % size, size) = v
    BY <1>1, <1>2, <2>1, SignedKept
  <2>3. Displayed(e, v % size, size) = printf_signed(v, e.radix)
    BY <1>4, <2>2 DEF Displayed
  <2>4. printf_signed(v, base) = Meaning(p)
    BY <1>1, <1>3, SignedPrinted
  <2>. QED BY <2>3, <2>4 DEF v, base
<1>5. CASE p.spec \notin {"d", "i"}
  <2>0. p.spec \in Unsigned
    BY <1>5 DEF Numeric
  <2>1. v \in 0 .. size - 1
    BY <1>1, <2>0 DEF WellFormed
  <2>. HIDE DEF v, base
  <2>2. v % size = v /\ v \in Nat /\ ~(v < 0)
    BY <1>2, <2>1, UnsignedKept
  <2>3. Displayed(e, v % size, size) = printf_unsigned(v, e.radix)
    BY <1>5, <2>2 DEF Displayed
  <2>4. printf_unsigned(v, base) = Meaning(p)
    BY <1>1, <1>3, <2>2, NumeralPrinted
  <2>. QED BY <2>3, <2>4 DEF v, base
<1>. QED BY <1>4, <1>5

\* A directive, its letter read, prints what it means and takes its words.
LEMMA DirectiveDone ==
  ASSUME NEW m \in Autos, NEW p \in Good, NEW rem \in Seq(Word),
         p.spec \in {"c", "s", "%", "d", "i"} \cup Unsigned,
         m.length = "LONG_LONG" <=> Long(p), m.args = WordsOf(p) \o rem,
         m.number => Numeric(p)
  PROVE  LET d == Convert(Directive(m, p.spec))
         IN /\ d \in Autos /\ d.printed = m.printed \o Meaning(p) /\ d.args = rem
            /\ d.over = m.over /\ d.number = (m.number \/ Numeric(p))
<1>. DEFINE e == Directive(m, p.spec)
            d == Convert(e)
            After(a) == /\ a.printed = m.printed \o Meaning(p) /\ a.args = rem
                        /\ a.over = m.over /\ a.number = (m.number \/ Numeric(p))
<1>1. e \in Autos /\ d \in Autos
  BY DirectiveKeeps, ConvertKeeps
<1>2. p.value \in Int
  BY DEF Good, Piece
<1>a. WordsOf(p) \in Seq(Word)
  BY PieceTyped
<1>3. CASE p.spec \in {"c", "s"}
  <2>. DEFINE w == WordsOf(p)
              word == [word |-> p.value % Base, text |-> p.text]
  <2>0. ~Numeric(p)
    BY <1>3 DEF Numeric, Unsigned
  <2>1. w = <<word>>
    BY <1>3, <2>0 DEF WordsOf
  <2>a. word.text = p.text
    OBVIOUS
  <2>. HIDE DEF w, word
  <2>b. Len(w) = 1 /\ w[1] = word
    BY <2>1
  <2>c. Len(w) \in {1, 2} /\ 1 \in 1 .. Len(w)
    BY <2>b
  <2>2. w[1].text = p.text
    BY <2>a, <2>b
  <2>3. m.args = w \o rem /\ w \in Seq(Word)
    BY <1>a DEF w
  <2>d. (w \o rem)[1] = w[1]
    BY <2>c, <2>3, ConcatFirst
  <2>4. m.args[1] = w[1]
    BY <2>3, <2>d
  <2>5. Take(m, Len(w), p.text) = Printing(m, p.text, rem)
    BY <2>c, <2>3, TakeDone
  <2>6. e = Printing(m, p.text, rem)
    BY <1>3, <2>b, <2>2, <2>4, <2>5 DEF Directive
  <2>7. Meaning(p) = p.text
    BY <1>3, <2>0 DEF Meaning
  <2>. HIDE DEF e
  <2>8. e.number = FALSE
    BY <2>0, <2>6 DEF Autos, Printing
  <2>9. d = e
    BY <2>8 DEF Convert
  <2>10. After(e)
    BY <2>0, <2>6, <2>7, <2>8 DEF Autos, Printing
  <2>. QED BY <1>1, <2>9, <2>10 DEF e
<1>4. CASE p.spec = "%"
  <2>0. ~Numeric(p)
    BY <1>4 DEF Numeric, Unsigned
  <2>1. WordsOf(p) = <<>>
    BY <1>4, <2>0 DEF WordsOf
  <2>2. m.args = rem
    BY <2>1, ConcatEmptySeq
  <2>3. e = [m EXCEPT !.printed = Append(m.printed, "%")]
    BY <1>4 DEF Directive
  <2>4. Append(m.printed, "%") = m.printed \o Meaning(p)
    <3>. DEFINE per == "%"
                q == m.printed
    <3>0. Meaning(p) = <<per>>
      BY <1>4, <2>0 DEF Meaning
    <3>1. q \in Seq(Glyphs) /\ per \in Glyphs
      BY DEF Autos, Glyphs
    <3>. HIDE DEF per, q
    <3>2. Append(q, per) = q \o <<per>>
      BY <3>1, AppendIsConcat
    <3>. QED BY <3>0, <3>2 DEF per, q
  <2>. HIDE DEF e
  <2>5. e.number = FALSE
    BY <2>0, <2>3 DEF Autos
  <2>6. d = e
    BY <2>5 DEF Convert
  <2>7. After(e)
    BY <2>0, <2>2, <2>3, <2>4, <2>5 DEF Autos
  <2>. QED BY <1>1, <2>6, <2>7 DEF e
<1>5. CASE Numeric(p)
  <2>. DEFINE w == WordsOf(p)
              lo == [word |-> p.value % Base, text |-> p.text]
              hi == [word |-> (p.value \div Base) % Base, text |-> p.text]
  <2>0. p.spec \in {"d", "i"} \cup Unsigned
    BY <1>5 DEF Numeric
  <2>1. e = [[m EXCEPT !.number = TRUE] EXCEPT !.radix = RadixOf(p), !.sign = (p.spec \in {"d", "i"})]
    <3>1. CASE p.spec \in {"d", "i"}
      BY <3>1 DEF Directive, Number, RadixOf
    <3>2. CASE p.spec = "u"
      <4>1. (p.spec \in {"d", "i"}) = FALSE
        BY <3>2
      <4>. QED BY <3>2, <4>1 DEF Directive, Number, RadixOf
    <3>3. CASE p.spec \in {"x", "X", "p"}
      <4>1. (p.spec \in {"d", "i"}) = FALSE
        BY <3>3
      <4>. QED BY <3>3, <4>1 DEF Directive, Number, RadixOf
    <3>4. CASE p.spec = "o"
      <4>1. (p.spec \in {"d", "i"}) = FALSE
        BY <3>4
      <4>. QED BY <3>4, <4>1 DEF Directive, Number, RadixOf
    <3>. QED BY <2>0, <3>1, <3>2, <3>3, <3>4 DEF Unsigned
  <2>2. /\ e.number = TRUE /\ e.radix = RadixOf(p) /\ e.sign = (p.spec \in {"d", "i"})
        /\ e.args = m.args /\ e.printed = m.printed /\ e.over = m.over /\ e.length = m.length
    BY <2>1 DEF Autos
  <2>a. w = IF Long(p) THEN <<lo, hi>> ELSE <<lo>>
    BY <2>0 DEF WordsOf, Unsigned, Numeric
  <2>. HIDE DEF e, w
  <2>3. e \in Autos /\ w \in Seq(Word) /\ e.args = w \o rem
    BY <1>1, <1>a, <2>2 DEF e, w
  <2>5. ASSUME d = Printing(e, Meaning(p), rem)
        PROVE  After(d)
    <3>1. d.printed = e.printed \o Meaning(p) /\ d.args = rem /\ d.over = e.over /\ d.number = e.number
      BY <2>3, <2>5 DEF Autos, Printing
    <3>. HIDE DEF d
    <3>. QED BY <1>5, <2>2, <3>1
  <2>6. CASE Long(p)
    <3>. DEFINE n == e.args[1].word + Base * e.args[2].word
    <3>1. Len(w) = 2 /\ w[1].word = p.value % Base /\ w[2].word = (p.value \div Base) % Base
      BY <2>6, <2>a
    <3>a. Len(w) \in {1, 2} /\ 1 \in 1 .. Len(w) /\ 2 \in 1 .. Len(w)
      BY <3>1
    <3>b. (w \o rem)[1] = w[1] /\ (w \o rem)[2] = w[2]
      BY <2>3, <3>a, ConcatFirst
    <3>2. e.args[1] = w[1] /\ e.args[2] = w[2]
      BY <2>3, <3>b
    <3>3. n = p.value % (Base * Base)
      BY <1>2, <3>1, <3>2, BaseEven, TwoWords
    <3>. HIDE DEF n
    <3>4. d = Take(e, 2, Displayed(e, n, Base * Base))
      BY <2>2, <2>6 DEF Convert, Displayed, n
    <3>5. Displayed(e, n, Base * Base) = Meaning(p)
      BY <1>5, <2>2, <2>6, <3>3, NumberShown
    <3>6. Take(e, Len(w), Meaning(p)) = Printing(e, Meaning(p), rem)
      BY <2>3, <3>a, TakeDone
    <3>7. d = Printing(e, Meaning(p), rem)
      BY <3>1, <3>4, <3>5, <3>6
    <3>. QED BY <1>1, <2>5, <3>7 DEF e
  <2>7. CASE ~Long(p)
    <3>. DEFINE n == e.args[1].word
    <3>1. Len(w) = 1 /\ w[1].word = p.value % Base
      BY <2>7, <2>a
    <3>a. Len(w) \in {1, 2} /\ 1 \in 1 .. Len(w)
      BY <3>1
    <3>b. (w \o rem)[1] = w[1]
      BY <2>3, <3>a, ConcatFirst
    <3>2. e.args[1] = w[1]
      BY <2>3, <3>b
    <3>3. n = p.value % Base
      BY <3>1, <3>2
    <3>. HIDE DEF n
    <3>4. d = Take(e, 1, Displayed(e, n, Base))
      BY <2>2, <2>7 DEF Convert, Displayed, n
    <3>5. Displayed(e, n, Base) = Meaning(p)
      BY <1>5, <2>2, <2>7, <3>3, NumberShown
    <3>6. Take(e, Len(w), Meaning(p)) = Printing(e, Meaning(p), rem)
      BY <2>3, <3>a, TakeDone
    <3>7. d = Printing(e, Meaning(p), rem)
      BY <3>1, <3>4, <3>5, <3>6
    <3>. QED BY <1>1, <2>5, <3>7 DEF e
  <2>. QED BY <2>6, <2>7
<1>. QED BY <1>3, <1>4, <1>5 DEF Numeric

\* A piece is printed as what it means, and takes its words: the automaton is
\* ready for the next piece, but the loader's remembers that there was a number.
PieceDone(which, a, p, rem, b) ==
  /\ Between(b) /\ b.printed = a.printed \o Meaning(p) /\ b.args = rem /\ b.over = a.over
  /\ b.number => a.number \/ (which = "loader" /\ Numeric(p))

\* By its letter, or without one.
LEMMA PieceFed ==
  ASSUME NEW which, NEW a, Between(a), NEW p \in Good, NEW rem \in Seq(Word),
         a.args = WordsOf(p) \o rem, a.number => Numeric(p) \/ p.spec = "text"
  PROVE  PieceDone(which, a, p, rem, Feeding!Fold(which, a, CharsOf(p)))
<1>. DEFINE b == Feeding!Fold(which, a, CharsOf(p))
<1>1. /\ a \in Autos /\ a.state = "NORMAL" /\ a.printed \in Seq(Glyphs)
      /\ a.length = "DEFAULT" /\ a.radix = 10 /\ a.sign = FALSE
  BY DEF Between, Autos
<1>2. /\ p.spec \in {"text", "c", "s", "%", "d", "i"} \cup Unsigned
      /\ p.length \in Lengths /\ WellFormed(p)
  BY DEF Good, Piece
<1>3. CASE p.spec = "text"
  <2>0. ~Numeric(p)
    BY <1>3 DEF Numeric, Unsigned
  <2>1. CharsOf(p) = p.text /\ WordsOf(p) = <<>> /\ Meaning(p) = p.text
    BY <1>3, <2>0 DEF CharsOf, WordsOf, Meaning
  <2>2. p.text \in Seq(Glyphs)
    BY <2>1, PieceTyped
  <2>3. \A i \in DOMAIN p.text : p.text[i] # "%"
    BY <1>2, <1>3 DEF WellFormed
  <2>4. b = Adding(a, p.text)
    BY <1>1, <2>1, <2>2, <2>3, TextFed
  <2>5. a.printed \o p.text \in Seq(Glyphs)
    BY <1>1, <2>2
  <2>6. a.args = rem
    BY <2>1, ConcatEmptySeq
  <2>. HIDE DEF b
  <2>7. b \in Autos
    BY <1>1, <2>4, <2>5 DEF Autos, Adding
  <2>8. Between(b)
    BY <1>1, <2>4, <2>7 DEF Between, Autos, Adding
  <2>9. b.printed = a.printed \o Meaning(p) /\ b.args = rem /\ b.over = a.over /\ b.number = a.number
    BY <1>1, <2>1, <2>4, <2>6 DEF Autos, Adding
  <2>10. PieceDone(which, a, p, rem, b)
    BY <2>8, <2>9 DEF PieceDone
  <2>. QED BY <2>10 DEF b
<1>4. CASE p.spec # "text"
  <2>1. p.spec \in {"c", "s", "%", "d", "i"} \cup Unsigned
    BY <1>2, <1>4
  <2>2. CharsOf(p) = <<"%">> \o p.length \o <<p.spec>>
    BY <1>4 DEF CharsOf
  <2>b. LetterDone(which, a, p.length, p.spec, Feeding!Fold(which, a, CharsOf(p)))
    BY <1>2, <2>1, <2>2, LetterFed
  <2>3. PICK m \in Autos, st \in {"LENGTH", "LENGTH_SHORT", "LENGTH_LONG", "SPEC"},
             ln \in {"DEFAULT", "SHORT", "SHORT_SHORT", "LONG", "LONG_LONG"} :
          /\ m = Halfway(a, st, ln)
          /\ ln = "LONG_LONG" <=> p.length = <<"l", "l">>
          /\ b = Ended(which, m, p.spec)
    BY <2>b DEF LetterDone
  <2>. DEFINE d == Convert(Directive(m, p.spec))
              done == [d EXCEPT !.state = "DONE"]
  <2>4. /\ m.length = ln /\ m.args = a.args /\ m.printed = a.printed /\ m.over = a.over
        /\ m.number = a.number
    BY <1>1, <2>3 DEF Halfway, Autos
  <2>5. m.length = "LONG_LONG" <=> Long(p)
    BY <2>3, <2>4 DEF Long
  <2>6. m.number => Numeric(p)
    BY <1>4, <2>4
  <2>7. /\ d \in Autos /\ d.printed = a.printed \o Meaning(p) /\ d.args = rem /\ d.over = a.over
        /\ d.number = (a.number \/ Numeric(p))
    BY <2>1, <2>4, <2>5, <2>6, DirectiveDone
  <2>8. b = IF which = "loader" THEN ResetStage2(done) ELSE Reset(done)
    BY <2>3 DEF Ended
  <2>a. 10 \in 2 .. 16
    OBVIOUS
  <2>. HIDE DEF b, d
  <2>9. /\ done \in Autos /\ done.printed = d.printed /\ done.args = d.args
        /\ done.over = d.over /\ done.number = d.number
    BY <2>7 DEF Autos
  <2>. HIDE DEF done
  <2>10. CASE which = "loader"
    <3>1. b = ResetStage2(done)
      BY <2>8, <2>10
    <3>2. b \in Autos
      BY <2>9, <2>a, <3>1 DEF ResetStage2, Autos
    <3>3. /\ b.state = "NORMAL" /\ b.length = "DEFAULT" /\ b.radix = 10 /\ b.sign = FALSE
          /\ b.printed = done.printed /\ b.args = done.args /\ b.over = done.over
          /\ b.number = done.number
      BY <2>9, <3>1 DEF ResetStage2, Autos
    <3>. QED BY <2>7, <2>9, <2>10, <3>2, <3>3 DEF PieceDone, Between, b
  <2>11. CASE which # "loader"
    <3>1. b = Reset(done)
      BY <2>8, <2>11
    <3>2. b \in Autos
      BY <2>9, <2>a, <3>1 DEF Reset, Autos
    <3>3. /\ b.state = "NORMAL" /\ b.length = "DEFAULT" /\ b.radix = 10 /\ b.sign = FALSE
          /\ b.printed = done.printed /\ b.args = done.args /\ b.over = done.over
          /\ b.number = FALSE
      BY <2>9, <3>1 DEF Reset, Autos
    <3>. QED BY <2>7, <2>9, <2>11, <3>2, <3>3 DEF PieceDone, Between, b
  <2>. QED BY <2>10, <2>11
<1>. QED BY <1>3, <1>4

-----------------------------------------------------------------------------
(* A whole format.                                                         *)

\* The pieces that the loader must not see after a number.
Others(s) == {i \in 1 .. Len(s) : s[i].spec \in {"c", "s", "%"}}

FormatDone(a, s, b) ==
  b.printed = a.printed \o Concat(Meaning, s) /\ b.args = <<>> /\ b.over = a.over

\* By induction on the number of pieces.
LEMMA FormatFed ==
  ASSUME NEW which \in {"kernel", "loader"}
  PROVE  \A s \in Seq(Good) : \A a :
           /\ Between(a) /\ a.args = Concat(WordsOf, s)
           /\ a.number => which = "loader" /\ Others(s) = {}
           /\ which = "loader" => ~Mixed(s)
           => FormatDone(a, s, Feeding!Fold(which, a, Concat(CharsOf, s)))
<1>. DEFINE Fine(a, s) == /\ Between(a) /\ a.args = Concat(WordsOf, s)
                          /\ a.number => which = "loader" /\ Others(s) = {}
                          /\ which = "loader" => ~Mixed(s)
            Fed(a, s) == Feeding!Fold(which, a, Concat(CharsOf, s))
            Bad == {n \in Nat : \E s \in Seq(Good) : Len(s) = n /\
                      \E a : Fine(a, s) /\ ~FormatDone(a, s, Fed(a, s))}
<1>. HIDE DEF Fine, Fed
<1>1. SUFFICES ASSUME Bad # {} PROVE FALSE
  BY DEF Fine, Fed
<1>2. PICK n \in Bad : \A m \in Bad : n <= m
  BY <1>1, LeastOf
<1>3. PICK s \in Seq(Good) : Len(s) = n /\ \E a : Fine(a, s) /\ ~FormatDone(a, s, Fed(a, s))
  OBVIOUS
<1>4. PICK a : Fine(a, s) /\ ~FormatDone(a, s, Fed(a, s))
  BY <1>3
<1>5. Between(a) /\ a.args = Concat(WordsOf, s) /\ a.printed \in Seq(Glyphs)
  BY <1>4 DEF Fine, Between, Autos
<1>6. n # 0
  <2>. SUFFICES ASSUME n = 0 PROVE FALSE
    OBVIOUS
  <2>1. s = <<>>
    BY <1>3
  <2>2. Fed(a, s) = a
    BY <2>1, FormatEmpty, Feeding!FoldEmpty DEF Fed
  <2>3. a.printed = a.printed \o <<>>
    BY <1>5, ConcatEmptySeq
  <2>4. FormatDone(a, s, a)
    BY <1>5, <2>1, <2>3, FormatEmpty DEF FormatDone
  <2>. QED BY <1>4, <2>2, <2>4
<1>. DEFINE p == Head(s)
            t == Tail(s)
            rem == Concat(WordsOf, t)
            b == Feeding!Fold(which, a, CharsOf(p))
<1>7. p \in Good /\ t \in Seq(Good) /\ Len(t) = n - 1 /\ s = <<p>> \o t
  <2>1. s # <<>>
    BY <1>3, <1>6
  <2>. QED BY <1>3, <2>1
<1>8. p = s[1] /\ \A i \in 1 .. Len(t) : i + 1 \in 1 .. Len(s) /\ t[i] = s[i + 1]
  BY <1>3, <1>6
<1>9. n - 1 \in Nat /\ n - 1 \notin Bad /\ Len(s) >= 1 /\ 1 \in 1 .. Len(s)
  BY <1>2, <1>3, <1>6
<1>. HIDE DEF Bad, p, t, rem, b
<1>10. /\ Concat(CharsOf, s) = CharsOf(p) \o Concat(CharsOf, t)
       /\ Concat(WordsOf, s) = WordsOf(p) \o rem
       /\ Concat(Meaning, s) = Meaning(p) \o Concat(Meaning, t)
  BY <1>7, FormatFirst DEF rem
<1>11. /\ CharsOf(p) \in Seq(Glyphs) /\ Concat(CharsOf, t) \in Seq(Glyphs) /\ rem \in Seq(Word)
       /\ Meaning(p) \in Seq(Glyphs) /\ Concat(Meaning, t) \in Seq(Glyphs)
  BY <1>7, PieceTyped, FormatTyped DEF rem
<1>12. a.number => Numeric(p) \/ p.spec = "text"
  <2>1. p.spec \in {"text", "c", "s", "%", "d", "i"} \cup Unsigned
    BY <1>7 DEF Good, Piece
  <2>2. a.number => p.spec \notin {"c", "s", "%"}
    BY <1>4, <1>8, <1>9 DEF Fine, Others
  <2>. QED BY <2>1, <2>2 DEF Numeric
<1>13. PieceDone(which, a, p, rem, b)
  BY <1>5, <1>7, <1>10, <1>11, <1>12, PieceFed DEF b
<1>14. /\ Between(b) /\ b.printed = a.printed \o Meaning(p) /\ b.args = rem /\ b.over = a.over
       /\ b.number => a.number \/ (which = "loader" /\ Numeric(p))
  BY <1>13 DEF PieceDone
<1>15. Fine(b, t)
  <2>1. which = "loader" => ~Mixed(t)
    <3>. SUFFICES ASSUME which = "loader", Mixed(t) PROVE FALSE
      OBVIOUS
    <3>1. PICK i \in 1 .. Len(t), j \in 1 .. Len(t) :
            i < j /\ Numeric(t[i]) /\ t[j].spec \in {"c", "s", "%"}
      BY DEF Mixed
    <3>2. i + 1 < j + 1 /\ Numeric(s[i + 1]) /\ s[j + 1].spec \in {"c", "s", "%"}
          /\ i + 1 \in 1 .. Len(s) /\ j + 1 \in 1 .. Len(s)
      BY <1>8, <3>1
    <3>3. Mixed(s)
      BY <3>2 DEF Mixed
    <3>. QED BY <1>4, <3>3 DEF Fine
  <2>2. ASSUME b.number PROVE which = "loader" /\ Others(t) = {}
    <3>1. which = "loader"
      BY <1>4, <1>14, <2>2 DEF Fine
    <3>2. ASSUME NEW j \in Others(t) PROVE FALSE
      <4>1. j \in 1 .. Len(t) /\ j + 1 \in 1 .. Len(s) /\ s[j + 1].spec \in {"c", "s", "%"} /\ 1 < j + 1
        BY <1>8, <3>2 DEF Others
      <4>2. CASE a.number
        BY <1>4, <4>1, <4>2 DEF Fine, Others
      <4>3. CASE Numeric(p)
        <5>1. Mixed(s)
          BY <1>8, <1>9, <4>1, <4>3 DEF Mixed
        <5>. QED BY <1>4, <3>1, <5>1 DEF Fine
      <4>. QED BY <1>14, <2>2, <4>2, <4>3
    <3>. QED BY <3>1, <3>2
  <2>. QED BY <1>14, <2>1, <2>2 DEF Fine, rem
<1>16. FormatDone(b, t, Fed(b, t))
  BY <1>7, <1>9, <1>15 DEF Bad
<1>17. Fed(a, s) = Fed(b, t)
  <2>. DEFINE x == CharsOf(p)
              y == Concat(CharsOf, t)
  <2>1. x \in Seq(Glyphs) /\ y \in Seq(Glyphs)
    BY <1>11
  <2>. HIDE DEF x, y
  <2>2. Feeding!Fold(which, a, x \o y) = Feeding!Fold(which, Feeding!Fold(which, a, x), y)
    BY <2>1, Feeding!FoldConcat
  <2>. QED BY <1>10, <2>2, Zenon DEF Fed, b, x, y
<1>18. (a.printed \o Meaning(p)) \o Concat(Meaning, t) = a.printed \o Concat(Meaning, s)
  <2>. DEFINE q == a.printed
              x == Meaning(p)
              y == Concat(Meaning, t)
  <2>1. q \in Seq(Glyphs) /\ x \in Seq(Glyphs) /\ y \in Seq(Glyphs)
    BY <1>5, <1>11
  <2>. HIDE DEF q, x, y
  <2>2. (q \o x) \o y = q \o (x \o y)
    BY <2>1, ConcatAssociative
  <2>. QED BY <1>10, <2>2 DEF q, x, y
<1>19. FormatDone(a, s, Fed(b, t))
  BY <1>14, <1>16, <1>18 DEF FormatDone
<1>. QED BY <1>4, <1>17, <1>19

Sprinting == INSTANCE Recursion WITH Op <- LAMBDA tag, a, c : printf(a, c)
Moving == INSTANCE Recursion WITH Op <- LAMBDA tag, s, c : putc(s, c)

\* sprintf is the kernel's printf with another destination.
LEMMA SprintfFeeds ==
  ASSUME NEW s \in Seq(Glyphs), NEW args
  PROVE  sprintf(s, args) = Feeding!Fold("kernel", Start(args), s)
<1>. DEFINE t == Start(args)
<1>1. sprintf(s, args) = Sprinting!Fold(0, t, s)
  BY DEF sprintf, FoldLeft, MapThenFoldSet, Max, Sprinting!Fold, Sprinting!FoldLeft,
         Sprinting!MapThenFoldSet, Sprinting!Max
<1>. HIDE DEF t
<1>2. PICK w : Sprinting!Follows(0, t, s, w) /\ w[Len(s)] = Sprinting!Fold(0, t, s)
  BY Sprinting!FoldTable
<1>3. Feeding!Follows("kernel", t, s, w)
  BY <1>2 DEF Sprinting!Follows, Feeding!Follows
<1>4. w[Len(s)] = Feeding!Fold("kernel", t, s)
  BY <1>3, Feeding!FoldIs
<1>. QED BY <1>1, <1>2, <1>4 DEF t

\* The automaton starts ready, with nothing printed.
LEMMA StartReady ==
  ASSUME NEW args \in Seq(Word)
  PROVE  LET a == Start(args)
         IN /\ Between(a) /\ a \in Autos /\ a.args = args /\ a.printed = <<>>
            /\ a.over = FALSE /\ a.number = FALSE
<1>1. 10 \in 2 .. 16 /\ <<>> \in Seq(Glyphs)
  OBVIOUS
<1>2. Start(args) \in Autos
  BY <1>1 DEF Start, Autos
<1>. QED BY <1>2 DEF Start, Between

\* A whole call, of either library, prints what its format means.
LEMMA CallRight ==
  ASSUME NEW which \in {"kernel", "loader"}, NEW s \in Seq(Good), which = "loader" => ~Mixed(s)
  PROVE  LET a == Feeding!Fold(which, Start(Concat(WordsOf, s)), Concat(CharsOf, s))
         IN a.printed = Concat(Meaning, s) /\ a.args = <<>> /\ ~a.over
<1>. DEFINE a == Start(Concat(WordsOf, s))
            b == Feeding!Fold(which, a, Concat(CharsOf, s))
<1>1. Concat(WordsOf, s) \in Seq(Word) /\ Concat(Meaning, s) \in Seq(Glyphs)
  BY FormatTyped
<1>2. /\ Between(a) /\ a.args = Concat(WordsOf, s) /\ a.printed = <<>>
      /\ a.over = FALSE /\ a.number = FALSE
  BY <1>1, StartReady
<1>. HIDE DEF a
<1>3. FormatDone(a, s, b)
  BY <1>2, FormatFed
<1>4. <<>> \o Concat(Meaning, s) = Concat(Meaning, s)
  BY <1>1, ConcatEmptySeq
<1>. QED BY <1>2, <1>3, <1>4 DEF FormatDone, a

\* The cursor's places.
Screen == [x : 0 .. SCREEN_WIDTH - 1, y : 0 .. SCREEN_HEIGHT - 1]

\* The loader's putc wraps and scrolls in time.
LEMMA CursorStays ==
  ASSUME NEW s \in Screen, NEW c
  PROVE  putc(s, c) \in Screen
<1>1. SCREEN_WIDTH \in Nat \ {0} /\ SCREEN_HEIGHT \in Nat \ {0}
  BY PrintfAssumption DEF PrintfAssumption
<1>2. s.x \in 0 .. SCREEN_WIDTH - 1 /\ s.y \in 0 .. SCREEN_HEIGHT - 1
  BY DEF Screen
<1>3. ASSUME NEW z \in [x : 0 .. SCREEN_WIDTH - 1, y : 0 .. SCREEN_HEIGHT]
      PROVE  scrollback(z) \in Screen
  BY <1>1 DEF scrollback, Screen
<1>4. ASSUME NEW z \in [x : 0 .. SCREEN_WIDTH, y : 0 .. SCREEN_HEIGHT], z.x = SCREEN_WIDTH => z.y < SCREEN_HEIGHT
      PROVE  Settled(z) \in Screen
  <2>. DEFINE q == IF z.x >= SCREEN_WIDTH THEN [x |-> 0, y |-> z.y + 1] ELSE z
  <2>1. q \in [x : 0 .. SCREEN_WIDTH - 1, y : 0 .. SCREEN_HEIGHT]
    BY <1>1, <1>4
  <2>. HIDE DEF q
  <2>2. scrollback(q) \in Screen
    BY <1>3, <2>1
  <2>. QED BY <2>2 DEF Settled, q
<1>5. CASE c = "\n"
  <2>. DEFINE z == [x |-> 0, y |-> s.y + 1]
  <2>1. z \in [x : 0 .. SCREEN_WIDTH, y : 0 .. SCREEN_HEIGHT] /\ z.x # SCREEN_WIDTH
    BY <1>1, <1>2
  <2>2. putc(s, c) = Settled(z)
    BY <1>5 DEF putc
  <2>. HIDE DEF z
  <2>. QED BY <1>4, <2>1, <2>2
<1>6. CASE c # "\n" /\ c = "\r"
  <2>. DEFINE z == [s EXCEPT !.x = 0]
  <2>1. z \in [x : 0 .. SCREEN_WIDTH, y : 0 .. SCREEN_HEIGHT] /\ z.x # SCREEN_WIDTH
    BY <1>1, <1>2 DEF Screen
  <2>2. putc(s, c) = Settled(z)
    BY <1>6 DEF putc
  <2>. HIDE DEF z
  <2>. QED BY <1>4, <2>1, <2>2
<1>7. CASE c # "\n" /\ c # "\r"
  <2>. DEFINE z == [s EXCEPT !.x = s.x + 1]
  <2>1. z \in [x : 0 .. SCREEN_WIDTH, y : 0 .. SCREEN_HEIGHT] /\ z.y < SCREEN_HEIGHT
    BY <1>1, <1>2 DEF Screen
  <2>2. putc(s, c) = Settled(z)
    BY <1>7 DEF putc
  <2>. HIDE DEF z
  <2>. QED BY <1>4, <2>1, <2>2
<1>. QED BY <1>5, <1>6, <1>7

\* What is left of the format takes the automaton to where the whole of it does.
FormatInv ==
  /\ lib \in {"kernel", "loader"} /\ format \in Seq(Good) /\ rest \in Seq(Glyphs)
  /\ auto \in Autos /\ cursor \in Screen
  /\ Feeding!Fold(lib, auto, rest) =
       Feeding!Fold(lib, Start(Concat(WordsOf, format)), Concat(CharsOf, format))

\* At the call.
LEMMA FormatBegins == Init => FormatInv
<1>. SUFFICES ASSUME Init PROVE FormatInv
  OBVIOUS
<1>1. cursor \in Screen
  <2>1. cursor = [x |-> 0, y |-> 0]
    BY DEF Init, NoCall, PrintfInit
  <2>. QED BY <2>1, PrintfAssumption DEF PrintfAssumption, Screen
<1>2. lib \in {"kernel", "loader"} /\ format \in Seq(Good)
  <2>1. CASE NoCall
    <3>1. <<>> \in Seq(Good)
      OBVIOUS
    <3>. QED BY <2>1, <3>1 DEF NoCall
  <2>2. CASE PrintfInit
    <3>1. lib \in {"kernel", "loader"} /\ format \in Formats
      BY <2>2 DEF PrintfInit
    <3>2. format \in Seq(Piece) /\ \A i \in DOMAIN format : WellFormed(format[i])
      BY <3>1, FormatsAssumption DEF FormatsAssumption
    <3>3. \A i \in 1 .. Len(format) : format[i] \in Good
      BY <3>2 DEF Good
    <3>4. format \in Seq(Good)
      BY <3>2, <3>3
    <3>. QED BY <3>1, <3>4
  <2>. QED BY <2>1, <2>2 DEF Init
<1>3. rest = Concat(CharsOf, format) /\ auto = Start(Concat(WordsOf, format))
  <2>1. CASE NoCall
    BY <2>1, FormatEmpty DEF NoCall
  <2>2. CASE PrintfInit
    BY <2>2 DEF PrintfInit
  <2>. QED BY <2>1, <2>2 DEF Init
<1>4. rest \in Seq(Glyphs) /\ auto \in Autos
  BY <1>2, <1>3, FormatTyped, StartReady
<1>. QED BY <1>1, <1>2, <1>3, <1>4 DEF FormatInv

\* With every character, and whatever the applications do.
LEMMA FormatStep == FormatInv /\ [Next]_appsVars => FormatInv'
<1>. SUFFICES ASSUME FormatInv, [Next]_appsVars PROVE FormatInv'
  OBVIOUS
<1>1. CASE UNCHANGED printfVars
  <2>1. lib' = lib /\ format' = format /\ rest' = rest /\ auto' = auto /\ cursor' = cursor
    BY <1>1 DEF printfVars
  <2>. QED BY <2>1 DEF FormatInv
<1>2. CASE KernelPrintf \/ LoaderPrintf
  <2>. DEFINE c == Head(rest)
              t == Tail(rest)
  <2>1. /\ rest # <<>> /\ rest' = t /\ lib' = lib /\ format' = format
        /\ lib \in {"kernel", "loader"} /\ rest \in Seq(Glyphs) /\ auto \in Autos
    BY <1>2 DEF KernelPrintf, LoaderPrintf, NextChar, FormatInv
  <2>2. c \in Glyphs /\ t \in Seq(Glyphs) /\ rest = <<c>> \o t /\ <<c>> \in Seq(Glyphs)
    BY <2>1
  <2>. HIDE DEF c, t
  <2>3. auto' = IF lib = "loader" THEN printf_stage2(auto, c) ELSE printf(auto, c)
    BY <1>2 DEF KernelPrintf, LoaderPrintf, c
  <2>4. auto' \in Autos
    BY <2>1, <2>2, <2>3, StepKeeps
  <2>5. Feeding!Fold(lib, auto, <<c>>) = auto'
    BY <2>3, Feeding!FoldOne
  <2>6. Feeding!Fold(lib, auto, <<c>> \o t) = Feeding!Fold(lib, auto', t)
    <3>. DEFINE u == <<c>>
    <3>1. u \in Seq(Glyphs)
      BY <2>2
    <3>. HIDE DEF u
    <3>2. Feeding!Fold(lib, auto, u \o t) = Feeding!Fold(lib, Feeding!Fold(lib, auto, u), t)
      BY <2>2, <3>1, Feeding!FoldConcat
    <3>. QED BY <2>5, <3>2 DEF u
  <2>7. cursor' \in Screen
    <3>1. CASE KernelPrintf
      BY <3>1 DEF KernelPrintf, FormatInv
    <3>2. CASE LoaderPrintf
      <4>. DEFINE shown == SubSeq(auto'.printed, Len(auto.printed) + 1, Len(auto'.printed))
      <4>1. auto.printed \in Seq(Glyphs) /\ auto'.printed \in Seq(Glyphs)
        BY <2>1, <2>4 DEF Autos
      <4>2. shown \in Seq(Glyphs)
        BY <4>1
      <4>3. cursor' = FoldLeft(putc, cursor, shown)
        BY <3>2 DEF LoaderPrintf
      <4>. HIDE DEF shown
      <4>4. FoldLeft(putc, cursor, shown) = Moving!Fold(0, cursor, shown)
        BY DEF FoldLeft, MapThenFoldSet, Max, Moving!Fold, Moving!FoldLeft,
               Moving!MapThenFoldSet, Moving!Max
      <4>5. cursor \in Screen
        BY DEF FormatInv
      <4>6. Moving!Fold(0, cursor, shown) \in Screen
        BY <4>2, <4>5, CursorStays, Moving!FoldStays
      <4>. QED BY <4>3, <4>4, <4>6
    <3>. QED BY <1>2, <3>1, <3>2
  <2>. QED BY <2>1, <2>2, <2>4, <2>6, <2>7 DEF FormatInv
<1>3. UNCHANGED printfVars \/ KernelPrintf \/ LoaderPrintf
  BY DEF Next, TerminalKey, NotepadKey, timer, CalcClick, Minimize, MainThread, Formatting,
         KeepApps, appsVars
<1>. QED BY <1>1, <1>2, <1>3

\* Every format of well-formed pieces prints what it means and takes exactly its
\* words, in printf and in sprintf, and in the loader's printf unless a number
\* comes before another directive; the loader's cursor never leaves its screen.
THEOREM FormatsRightCorrect == AppsSpec => []FormatsRight
<1>1. FormatInv => FormatsRight
  <2>. SUFFICES ASSUME FormatInv PROVE FormatsRight
    OBVIOUS
  <2>1. /\ lib \in {"kernel", "loader"} /\ format \in Seq(Good)
        /\ cursor.x \in 0 .. SCREEN_WIDTH - 1 /\ cursor.y \in 0 .. SCREEN_HEIGHT - 1
    BY DEF FormatInv, Screen
  <2>. DEFINE words == Concat(WordsOf, format)
              whole == Concat(CharsOf, format)
              Done(a) == a.printed = Concat(Meaning, format) /\ a.args = <<>> /\ ~a.over
  <2>2. ASSUME rest = <<>>, lib = "loader" => ~Mixed(format) PROVE Done(auto)
    <3>1. Feeding!Fold(lib, auto, rest) = auto
      BY <2>2, Feeding!FoldEmpty
    <3>2. auto = Feeding!Fold(lib, Start(words), whole)
      BY <3>1 DEF FormatInv
    <3>. QED BY <2>1, <2>2, <3>2, CallRight
  <2>3. Done(sprintf(whole, words))
    <3>1. whole \in Seq(Glyphs)
      BY <2>1, FormatTyped
    <3>2. sprintf(whole, words) = Feeding!Fold("kernel", Start(words), whole)
      BY <3>1, SprintfFeeds
    <3>3. "kernel" \in {"kernel", "loader"} /\ "kernel" # "loader"
      OBVIOUS
    <3>. QED BY <2>1, <3>2, <3>3, CallRight
  <2>. HIDE DEF Done, words, whole
  <2>4. rest = <<>> /\ (lib = "loader" => ~Mixed(format)) =>
          \A a \in {auto} \cup IF lib = "loader" THEN {} ELSE {sprintf(whole, words)} : Done(a)
    BY <2>2, <2>3
  <2>. QED BY <2>1, <2>4 DEF FormatsRight, Done, words, whole
<1>. QED BY <1>1, FormatBegins, FormatStep, PTL DEF AppsSpec
=============================================================================
