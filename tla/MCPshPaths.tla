----------------------------- MODULE MCPshPaths -----------------------------
(* Directories, paths and environments for the runs of PshPaths: /a, /a/b  *)
(* and a link /.b to /a/b.                                                 *)
EXTENDS PshPaths, TLC

CONSTANTS r, d1, d2, prog

A == <<"a">>
B == <<".", "b">>
MCNames == {A, B}

(* PATH is a:/:.b, the first and last of them relative: from the root the  *)
(* search finds the entry of /a that cannot be executed, from elsewhere    *)
(* the program in the root.                                                *)
MCPath == <<A, <<>>, B>>
MCFiles == r :> (prog :> "program") @@ d1 :> (prog :> "other") @@ d2 :> (prog :> "none")

MCTrees == {[parent |-> r :> r @@ d1 :> r @@ d2 :> d1,
             name |-> r :> <<>> @@ d1 :> A @@ d2 :> A,
             link |-> r :> (A :> NoDir @@ B :> d2)
                      @@ d1 :> (A :> NoDir @@ B :> NoDir)
                      @@ d2 :> (A :> NoDir @@ B :> NoDir),
             files |-> MCFiles]}
MCEnvirons == {[PWD |-> Slash \o B \o Slash \o DotDot, OLDPWD |-> Slash],
               [PWD |-> NotSet, OLDPWD |-> Slash], [PWD |-> Slash \o A, OLDPWD |-> Slash],
               [PWD |-> Slash \o A, OLDPWD |-> NotSet]}

MCJunk == {<<>>, Slash \o A}
MCHome == Slash \o A
MCPins == {Slash \o A}

Letters == {"/", ".", "a"}
MCChars == Letters \cup {"-", "b", "x", "P", "L"}
Short == UNION {[1 .. n -> Letters] : n \in 0 .. 2}
         \cup {t \in [1 .. 3 -> Letters] : t[2] = "." \/ t[3] = "."}
Long == {B, B \o Slash \o DotDot, Slash \o B, Slash \o B \o Slash \o DotDot \o Slash \o A,
         DotDot \o Slash \o DotDot \o Slash \o A, A \o Slash \o A \o Slash,
         A \o Slash \o DotDot \o Slash \o B, A \o Slash \o Dot \o Slash \o A,
         DotDot \o Slash \o A \o Slash \o DotDot, Slash \o A \o Slash \o A}
P == <<"-", "P">>
MCCdArgvs ==
    {<<t>> : t \in Short \cup Long}
    \cup {<<>>, <<Dash>>, <<Dash, A>>, <<A, Dash>>, <<<<"-", "x">>>>, <<A, A>>,
          <<P, A>>, <<P, DotDot>>, <<P, B, <<"-", "L">>>>, <<P>>}
=============================================================================
