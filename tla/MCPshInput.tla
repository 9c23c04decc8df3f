----------------------------- MODULE MCPshInput -----------------------------
(* Prompts, lines and aliases for the runs of PshInput *)
EXTENDS PshInput

(* Prompts are put together from these. *)
Tokens ==
    {<<"x">>, <<"1">>, <<"8">>, <<"\\">>, <<"\\", "\\">>, <<"\\", "a">>, <<"\\", "u">>,
     <<"\\", "[">>, <<"\\", "x">>, <<"\\", "1">>, <<"\\", "D">>, <<"{">>, <<"}">>, <<"%p">>}
Pairs == {t \o u : t, u \in Tokens}
Octals == {<<"\\", i, j, k, "1">> : i, j, k \in {"0", "1", "7", "8", "x"}}
Alone == {<<"\\", x>> : x \in {"$", "e", "n", "r", "d", "t", "T", "@", "A", "h", "H", "s", "v",
                               "V", "w", "W", "]"}}
Formats == {<<"\\", "D", "{">> \o f \o g : f \in {<<>>, <<"x">>, <<"%p">>, <<"%p", "x">>},
                                            g \in {<<>>, <<"}">>, <<"}", "x">>, <<"}", "\\", "1">>}}
MCPrompts == {<<>>} \cup Tokens \cup Pairs \cup Octals \cup Alone
             \cup {<<"x">> \o t \o <<"\\">> : t \in Alone} \cup Formats
MCStray == {<<>>, <<"x">>, <<"\\", "u">>, <<"\\", "1">>, <<"\\", "D", "{", "%p">>}

MCClock == [x \in Plain |-> <<x, "text">>]
MCHost == <<"h", ".", "d", ".", "c">>
MCVersion == <<"1", ".", "2", ".", "3">>
MCHome == <<"/", "h">>
MCWd == <<"/", "h", "/", "w">>
MCWeekday == <<"T", "u", "e">>
MCMonth == <<"M", "a", "y">>
MCDay == <<"5">>

A == <<"a">>
B == <<"b">>
MCAliasNames == {A, B}
MCLines == {<<>>, A, <<"a", " ", "a">>, <<"b", " ", "x">>, <<" ", "a">>, <<"a", "a">>, <<"x", "y", "x", "y", "x">>,
            <<"b", " ", "a", " ", "b">>}
MCRecalled == {A}
MCHeap == {<<>>, <<"y">>}
MCBlanks == {" ", ";"}
MCTexts == {<<>>, A, B, <<"b", " ">>, <<"a", " ", "b">>, <<" ", "b">>}
MCDefinitions ==
    {<<[name |-> n, text |-> t]>> : n \in {A, B}, t \in MCTexts}
    \cup {<<[name |-> A, text |-> B], [name |-> A, text |-> A]>>}
=============================================================================
