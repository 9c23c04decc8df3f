------------------------------ MODULE MCPshParser ---------------------------
(* Lines for the runs of PshParser. *)
EXTENDS PshParser

(* All lines of up to four characters, and the longer ones of the          *)
(* characters words and lists are made of.                                 *)
Upto(S, n) == UNION {[1 .. k -> S] : k \in 0 .. n}
AllLines == Upto(Chars, 4) \cup Upto({"a", "sp", "&", "|", "'", "dq"}, 6)
            \cup Upto({"a", "sp", "&", ">", "semi"}, 6)
WordLines == Upto({"a", "sp"}, 6)
NextLines == {<<>>, <<"a">>, <<"sp">>, <<"sp", "a">>, <<"a", "dq", "&">>}
=============================================================================
