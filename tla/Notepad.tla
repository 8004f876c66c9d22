------------------------------ MODULE Notepad -------------------------------
(***************************************************************************)
(* apps/notepad.c: the text and its editing, in the keyboard's handler.    *)
(* A C string ends with its first Nul.                                     *)
(***************************************************************************)
EXTENDS Integers, Sequences

CONSTANTS
  NOTEPAD_BUF_SIZE,
  Greeting            \* the text that notepad_init puts in

Zero == ""

ASSUME NotepadAssumption ==
  /\ NOTEPAD_BUF_SIZE \in Nat \ {0}
  /\ Greeting \in Seq(STRING) /\ Len(Greeting) < NOTEPAD_BUF_SIZE
  /\ \A i \in 1 .. Len(Greeting) : Greeting[i] # Zero

VARIABLES
  notepad_buffer, notepad_cursor,
  typed               \* ghost: what a user who types at the end should see

notepadVars == <<notepad_buffer, notepad_cursor, typed>>

Bytes == 0 .. NOTEPAD_BUF_SIZE - 1

\* strlen; a text without an end in the buffer counts as longer than it.
strlen(b) ==
  IF \E i \in Bytes : b[i] = Zero
  THEN CHOOSE i \in Bytes : b[i] = Zero /\ \A j \in 0 .. i - 1 : b[j] # Zero
  ELSE NOTEPAD_BUF_SIZE

NotepadInit ==
  /\ notepad_buffer = [i \in Bytes |-> IF i < Len(Greeting) THEN Greeting[i + 1] ELSE Zero]
  /\ notepad_cursor = Len(Greeting)
  /\ typed = Greeting

\* What stands before the cursor goes.
BackOne ==
  /\ notepad_cursor > 0
  /\ notepad_buffer' =
       [i \in Bytes |-> IF i \in notepad_cursor - 1 .. strlen(notepad_buffer) - 1
                        THEN notepad_buffer[i + 1] ELSE notepad_buffer[i]]
  /\ notepad_cursor' = notepad_cursor - 1
  /\ typed' = SubSeq(typed, 1, Len(typed) - 1)

\* What the text becomes when c is inserted at the cursor.
Opened(c) ==
  [i \in Bytes |->
     CASE i = notepad_cursor -> c
       [] i \in notepad_cursor + 1 .. strlen(notepad_buffer) + 1 -> notepad_buffer[i - 1]
       [] OTHER -> notepad_buffer[i]]

Reference(c) ==
  typed' = IF Len(typed) < NOTEPAD_BUF_SIZE - 1 THEN Append(typed, c) ELSE typed

\* Mutant: no room is left for the terminator.
InsertMut(c) ==
  /\ IF notepad_cursor < NOTEPAD_BUF_SIZE
     THEN notepad_buffer' = Opened(c) /\ notepad_cursor' = notepad_cursor + 1
     ELSE UNCHANGED <<notepad_buffer, notepad_cursor>>
  /\ Reference(c)

\* A character or a newline; nothing when the buffer is full.
Insert(c) ==
  /\ IF notepad_cursor < NOTEPAD_BUF_SIZE - 1
     THEN notepad_buffer' = Opened(c) /\ notepad_cursor' = notepad_cursor + 1
     ELSE UNCHANGED <<notepad_buffer, notepad_cursor>>
  /\ Reference(c)

\* Either code of the Enter key is a newline.
notepad_key(c) ==
  IF c = "BS" THEN BackOne ELSE Insert(IF c = "\r" THEN "\n" ELSE c)
=============================================================================
