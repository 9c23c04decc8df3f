------------------------------ MODULE PshInput ------------------------------
(***************************************************************************)
(* The main loop up to the parser (main.c): the prompt is expanded, a line *)
(* is read and its aliases are expanded, a command runs.                   *)
(***************************************************************************)
EXTENDS PshPrompt, PshLine

vars == <<ex, lineVars>>

Init == ex = Idle /\ LineInit

(* PS1 is a variable: commands may have given it any value. *)
NewPrompt ==
    /\ stage = "prompt" /\ ex = Idle
    /\ \E p \in Prompts : Begin(p)
    /\ UNCHANGED lineVars

ExpandPrompt == Expand /\ UNCHANGED lineVars

(* ps_expander's result is freed after the line was read; that is all the  *)
(* line has to do with it.                                                 *)
AskForLine ==
    /\ stage = "prompt" /\ ex.do = "shown"
    /\ BeginRead /\ ex' = Idle

LineStep ==
    /\ ReadLine \/ EndOfInput \/ History \/ ExpandAlias \/ Command
    /\ UNCHANGED ex

Next == NewPrompt \/ ExpandPrompt \/ AskForLine \/ LineStep

Spec == Init /\ [][Next]_vars

(* The shell goes on by itself except where it waits for the user; that a  *)
(* command ends is ForegroundReturns of PshRun.                            *)
FairSpec ==
    /\ Spec
    /\ WF_vars(NewPrompt) /\ WF_vars(ExpandPrompt) /\ WF_vars(AskForLine)
    /\ WF_vars((History \/ ExpandAlias \/ Command) /\ UNCHANGED ex)

-----------------------------------------------------------------------------
(* Properties *)

Stages == {"prompt", "read", "history", "alias", "command", "exited", "exhausted", "fault"}

TypeOK ==
    /\ ex.do \in {"idle", "expand", "rest", "shown", "fault", "exhausted"}
    /\ ex.do # "idle" => stage = "prompt"
    /\ StaysInCopy
    /\ stage \in Stages
    /\ typed \in Lines \cup {<<>>} /\ read \in 0 .. Len(typed)
    /\ room \in Nat /\ stale \in BOOLEAN
    /\ aliases \in [AliasNames -> AliasTexts \cup {NotAlias}]

(* psh_fgets stores no character, and not its NUL either, behind the end   *)
(* of the block it believes to fill.                                       *)
ReadFits == stage = "read" => read < room

(* A line is received as it was typed unless it fills the first buffer:    *)
(* then realloc may have moved the block.                                  *)
LineIsWhole == stage = "history" => line = typed \/ Len(typed) >= Chunk

(* The first words met in the expansion of a line *)
WordsOf(l) ==
    LET w[n \in 0 .. Cardinality(AliasNames)] ==
            IF n = 0 THEN FirstWord(l)
            ELSE IF AliasOf(w[n - 1]) = NotAlias THEN w[n - 1]
            ELSE FirstWord(AliasOf(w[n - 1]))
    IN  w

(* They go round in a circle. *)
Endless(l) == AliasOf(WordsOf(l)[Cardinality(AliasNames)]) # NotAlias

(* The line with its first word replaced by what that word means: its      *)
(* text, the first word of which is replaced first                         *)
Substituted(l) ==
    LET w == WordsOf(l)
        means[n \in 0 .. Cardinality(AliasNames)] ==
            IF AliasOf(w[n]) = NotAlias THEN w[n]
            ELSE means[n + 1] \o Others(AliasOf(w[n]))
    IN  means[0] \o Others(l)

(* The parser gets the line with all aliases replaced and the rest of it   *)
(* as it was, and no line whose aliases go round in a circle.              *)
ParserGetsTheLine == stage = "command" => ~Endless(line) /\ text = Substituted(line)

(* The shell comes back to ask for a line, or has ended, unless it is in   *)
(* the circle of aliases that alias.c:105 has a TODO for.                  *)
Ended ==
    ex.do \in {"fault", "exhausted"} \/ stage \in {"exited", "exhausted", "fault"}
AsksAgain ==
    [](stage # "read" => <>(stage = "read" \/ Ended \/ (stage = "alias" /\ Endless(line))))
=============================================================================
