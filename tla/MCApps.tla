------------------------------- MODULE MCApps -------------------------------
(* A terminal of two rows in which the prompt and two letters fit, with   *)
(* commands of one or two letters, a notepad for four characters, numbers  *)
(* of two digits.  For printf, words of four bits and every pair of        *)
(* directives.                                                             *)
EXTENDS Apps

MCWords == [help |-> <<"c", "c">>, clear |-> <<"c">>, echo |-> <<"e">>, reboot |-> <<"e", "c">>]
MCText == [banner |-> <<Newline>>, main |-> <<"t", Newline>>,
           click |-> <<"k", Newline>>,
           help |-> <<"h", Newline, "p", Newline>>, reboot |-> <<"b", Newline>>,
           unknown |-> <<"u", Newline>>]
MCKeys == {"c", "e", " ", Newline, Backspace}
MCGreeting == <<"c", "e">>
MCMaxInputs == [Terminal |-> 4, Notepad |-> 4, Calculator |-> 4]

\* A directive, or a literal text.
Part(l, s, v, t) == [length |-> l, spec |-> s, value |-> v, text |-> t]

\* The least, the greatest and the numbers between which digits or signs change.
Values(l, s) ==
  LET half == IF l = <<"l", "l">> THEN (Base * Base) \div 2 ELSE Base \div 2
  IN IF s = "d" THEN {-half, -1, 0, half - 1} ELSE {0, 10, 2 * half - 1}

Pieces ==
  UNION {{Part(l, s, v, <<>>) : v \in Values(l, s)} :
           l \in {<<>>, <<"h">>, <<"h", "h">>, <<"l">>, <<"l", "l">>},
           s \in {"d", "u", "x", "o"}}
  \cup {Part(<<>>, "c", 0, <<"c">>), Part(<<>>, "s", 0, <<"s", "t">>),
        Part(<<>>, "s", 0, <<>>), Part(<<>>, "%", 0, <<>>),
        Part(<<>>, "text", 0, <<"k", "\n">>)}
MCFormats == {<<p, q>> : p \in Pieces, q \in Pieces}
=============================================================================
