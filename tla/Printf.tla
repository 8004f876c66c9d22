------------------------------- MODULE Printf -------------------------------
(***************************************************************************)
(* printf and sprintf of kernel/stdio.c and of the loader's stage2/stdio.c *)
(* as what they are, an automaton over the characters of the format, and   *)
(* the loader's text screen.  An argument list is a sequence of machine    *)
(* words; a pointer to a text is a word too, and carries the text along.   *)
(***************************************************************************)
EXTENDS Numbers, Sequences, SequencesExt

CONSTANTS
  IntBits,             \* the width of int, long and pointers; long long has two words
  SCREEN_WIDTH, SCREEN_HEIGHT,
  Formats              \* what is printed: sequences of literals and directives

ASSUME PrintfAssumption == {IntBits, SCREEN_WIDTH, SCREEN_HEIGHT} \subseteq Nat \ {0}

VARIABLES
  lib,          \* the kernel's printf, or the loader's
  format,       \* what is to be printed
  rest,         \* the characters of it that are left
  auto,         \* the automaton
  cursor        \* g_ScreenX, g_ScreenY of the loader's screen

printfVars == <<lib, format, rest, auto, cursor>>

g_HexChars == <<"0", "1", "2", "3", "4", "5", "6", "7", "8", "9", "a", "b", "c", "d", "e", "f">>

Base == Powers(2)[IntBits]
Signed(w, n) == IF w >= n \div 2 THEN w - n ELSE w

-----------------------------------------------------------------------------
(* Numbers.                                                                *)

\* The digits, least first, until nothing is left; they are printed in reverse.
Remainders(radix) ==
  LET buffer[n \in Nat] ==
        <<g_HexChars[(n % radix) + 1]>> \o
        IF n \div radix = 0 THEN <<>> ELSE buffer[n \div radix]
  IN buffer

printf_unsigned(n, radix) == Reverse(Remainders(radix)[n])

printf_signed(n, radix) ==
  IF n < 0 THEN <<"-">> \o printf_unsigned(-n, radix) ELSE printf_unsigned(n, radix)

-----------------------------------------------------------------------------
(* The automaton.  It keeps what is left of the arguments and what has been *)
(* printed; ghost: it has asked for an argument that is not there.          *)

Start(args) == [state |-> "NORMAL", length |-> "DEFAULT", radix |-> 10, sign |-> FALSE,
                number |-> FALSE, args |-> args, printed |-> <<>>, over |-> FALSE]

\* va_arg of n words, which are then printed.
Take(a, n, shown) ==
  IF Len(a.args) < n THEN [a EXCEPT !.over = TRUE, !.args = <<>>]
  ELSE [a EXCEPT !.printed = @ \o shown, !.args = SubSeq(@, n + 1, Len(@))]

Number(a) == [a EXCEPT !.number = TRUE]

Directive(a, c) ==
  CASE c \in {"c", "s"} -> Take(a, 1, a.args[1].text)
    [] c = "%" -> [a EXCEPT !.printed = Append(@, "%")]
    [] c \in {"d", "i"} -> [Number(a) EXCEPT !.radix = 10, !.sign = TRUE]
    [] c = "u" -> [Number(a) EXCEPT !.radix = 10, !.sign = FALSE]
    [] c \in {"x", "X", "p"} -> [Number(a) EXCEPT !.radix = 16, !.sign = FALSE]
    [] c = "o" -> [Number(a) EXCEPT !.radix = 8, !.sign = FALSE]
    [] OTHER -> a

\* "h" and "hh" take a whole int.
Convert(a) ==
  LET Show(n, size) == IF a.sign THEN printf_signed(Signed(n, size), a.radix)
                       ELSE printf_unsigned(n, a.radix)
  IN IF ~a.number THEN a
     ELSE IF a.length = "LONG_LONG"
     THEN Take(a, 2, Show(a.args[1].word + Base * a.args[2].word, Base * Base))
     ELSE Take(a, 1, Show(a.args[1].word, Base))

\* Mutant: the length of one directive holds for the next as well.
ResetMut(a) ==
  [a EXCEPT !.state = "NORMAL", !.radix = 10, !.sign = FALSE, !.number = FALSE]

Reset(a) ==
  [a EXCEPT !.state = "NORMAL", !.length = "DEFAULT", !.radix = 10, !.sign = FALSE,
            !.number = FALSE]

\* The loader's printf does not clear number.
ResetStage2(a) ==
  [a EXCEPT !.state = "NORMAL", !.length = "DEFAULT", !.radix = 10, !.sign = FALSE]

\* Up to the end of a directive, after which the flags are reset.
Feed(a, c) ==
  CASE a.state = "NORMAL" /\ c = "%" -> [a EXCEPT !.state = "LENGTH"]
    [] a.state = "NORMAL" /\ c # "%" -> [a EXCEPT !.printed = Append(@, c)]
    [] a.state = "LENGTH" /\ c = "h" -> [a EXCEPT !.length = "SHORT", !.state = "LENGTH_SHORT"]
    [] a.state = "LENGTH" /\ c = "l" -> [a EXCEPT !.length = "LONG", !.state = "LENGTH_LONG"]
    [] a.state = "LENGTH_SHORT" /\ c = "h" ->
         [a EXCEPT !.length = "SHORT_SHORT", !.state = "SPEC"]
    [] a.state = "LENGTH_LONG" /\ c = "l" -> [a EXCEPT !.length = "LONG_LONG", !.state = "SPEC"]
    [] OTHER -> [Convert(Directive(a, c)) EXCEPT !.state = "DONE"]

\* printf and sprintf of the kernel differ in where the characters go.
printf(a, c) ==
  LET fed == Feed(a, c) IN IF fed.state = "DONE" THEN Reset(fed) ELSE fed
sprintf(fmt, args) == FoldLeft(printf, Start(args), fmt)
printf_stage2(a, c) ==
  LET fed == Feed(a, c) IN IF fed.state = "DONE" THEN ResetStage2(fed) ELSE fed

-----------------------------------------------------------------------------
(* The loader's screen: the cursor after a character.                      *)

scrollback(s) == IF s.y >= SCREEN_HEIGHT THEN [s EXCEPT !.y = @ - 1] ELSE s

\* The end of putc: wrapping and scrolling.
Settled(s) == scrollback(IF s.x >= SCREEN_WIDTH THEN [x |-> 0, y |-> s.y + 1] ELSE s)

putc(s, c) ==
  Settled(CASE c = "\n" -> [x |-> 0, y |-> s.y + 1]
            [] c = "\r" -> [s EXCEPT !.x = 0]
            [] OTHER -> [s EXCEPT !.x = @ + 1])

-----------------------------------------------------------------------------
(* A call, character by character.                                         *)

\* The parts of a format: the length and the letter of a directive, or a text.
Lengths == {<<>>, <<"h">>, <<"h", "h">>, <<"l">>, <<"l", "l">>}
Unsigned == {"u", "x", "X", "p", "o"}
Piece == [length : Lengths, spec : {"text", "c", "s", "%", "d", "i"} \cup Unsigned,
          value : Int, text : Seq(STRING)]
Numeric(p) == p.spec \in {"d", "i"} \cup Unsigned
Long(p) == p.length = <<"l", "l">>

CharsOf(p) == IF p.spec = "text" THEN p.text ELSE <<"%">> \o p.length \o <<p.spec>>

\* A number lies in the range of its type, and a text is no directive.
WellFormed(p) ==
  LET span == IF Long(p) THEN Base * Base ELSE Base
  IN /\ p.spec = "text" => \A i \in DOMAIN p.text : p.text[i] # "%"
     /\ p.spec \in {"d", "i"} => 2 * p.value \in -span .. span - 1
     /\ p.spec \in Unsigned => p.value \in 0 .. span - 1

\* No compiler checks these arguments: the callers have to.
ASSUME FormatsAssumption ==
  Formats \subseteq Seq(Piece) /\ \A f \in Formats : \A i \in DOMAIN f : WellFormed(f[i])

\* The words that the caller passes for it.
WordsOf(p) ==
  LET word(n) == [word |-> n, text |-> p.text]
  IN CASE p.spec \in {"text", "%"} -> <<>>
       [] Numeric(p) /\ Long(p) ->
            <<word(p.value % Base), word((p.value \div Base) % Base)>>
       [] OTHER -> <<word(p.value % Base)>>

Concat(f(_), ps) == FoldLeft(LAMBDA s, p : s \o f(p), <<>>, ps)

NoCall == /\ lib = "kernel" /\ format = <<>> /\ rest = <<>> /\ auto = Start(<<>>)
          /\ cursor = [x |-> 0, y |-> 0]

\* The loader has cleared its screen.
PrintfInit == /\ lib \in {"kernel", "loader"} /\ format \in Formats
              /\ rest = Concat(CharsOf, format) /\ auto = Start(Concat(WordsOf, format))
              /\ cursor = [x |-> 0, y |-> 0]

NextChar == rest # <<>> /\ rest' = Tail(rest) /\ UNCHANGED <<lib, format>>

KernelPrintf == /\ lib = "kernel" /\ NextChar
                /\ auto' = printf(auto, Head(rest))
                /\ UNCHANGED cursor

LoaderPrintf ==
  /\ lib = "loader" /\ NextChar
  /\ auto' = printf_stage2(auto, Head(rest))
  /\ cursor' = FoldLeft(putc, cursor,
                 SubSeq(auto'.printed, Len(auto.printed) + 1, Len(auto'.printed)))

-----------------------------------------------------------------------------
(* What a format means, the digits from the first to the last.             *)

RadixOf(p) == CASE p.spec \in {"x", "X", "p"} -> 16 [] p.spec = "o" -> 8 [] OTHER -> 10
Numeral(n, radix) ==
  LET places == CHOOSE d \in 1 .. n + 1 :
                  n < Powers(radix)[d] /\ (d = 1 \/ n >= Powers(radix)[d - 1])
  IN [i \in 1 .. places |-> g_HexChars[((n \div Powers(radix)[places - i]) % radix) + 1]]

Meaning(p) ==
  CASE p.spec = "%" -> <<"%">>
    [] Numeric(p) -> IF p.value < 0 THEN <<"-">> \o Numeral(-p.value, RadixOf(p))
                     ELSE Numeral(p.value, RadixOf(p))
    [] OTHER -> p.text

\* The loader's printf is right as long as no number precedes another directive.
Mixed(ps) == \E i, j \in 1 .. Len(ps) :
               i < j /\ Numeric(ps[i]) /\ ps[j].spec \in {"c", "s", "%"}

\* A format prints what it says, for every mixture of directives, lengths and
\* numbers from the least to the greatest, and takes exactly the arguments it
\* names, in printf and in sprintf; the loader's cursor stays on its screen.
FormatsRight ==
  /\ rest = <<>> /\ (lib = "loader" => ~Mixed(format)) =>
       \A a \in {auto} \cup IF lib = "loader" THEN {}
                          ELSE {sprintf(Concat(CharsOf, format), Concat(WordsOf, format))} :
         /\ a.printed = Concat(Meaning, format)
         /\ a.args = <<>> /\ ~a.over
  /\ cursor.x \in 0 .. SCREEN_WIDTH - 1 /\ cursor.y \in 0 .. SCREEN_HEIGHT - 1
=============================================================================
