------------------------------- MODULE PshLine ------------------------------
(***************************************************************************)
(* A line on its way to the parser: psh_fgets (lib/util.c; readline, where *)
(* there is one, hands over whole lines), history expansion (read_cmdline  *)
(* of input.c), and the aliases (builtins/alias.c), which commands define  *)
(* and remove.  Their table is taken to be the dictionary of PshMap.       *)
(***************************************************************************)
EXTENDS Integers, SequencesExt

CONSTANTS
    Lines,          \* what the user types, without the newline
    Recalled,       \* lines that history expansion may turn a line into
    Heap,           \* texts in memory that was never written
    Chunk,          \* the first size of psh_fgets' buffer
    Blanks,         \* the characters that end the first word of a line
    AliasNames, AliasTexts,
    NotAlias,       \* psh_hash_get found nothing
    Definitions,    \* arguments of alias: sequences of names and texts
    MaxText         \* bound: memory ends

ASSUME ChunkAssumption == Chunk \in Nat \ {0}
ASSUME LinesAssumption == Lines \cup Recalled \cup Heap \subseteq Seq(STRING)
ASSUME AliasAssumption ==
    /\ IsFiniteSet(AliasNames) /\ AliasTexts \subseteq Seq(STRING)
    /\ <<>> \notin AliasNames /\ NotAlias \notin AliasTexts
    /\ Definitions \subseteq Seq([name : AliasNames, text : AliasTexts])

VARIABLES
    stage,      \* where the line is
    typed,      \* what the user types, chosen when he begins
    got,        \* the characters in the block psh_fgets will return
    read,       \* charcount
    room,       \* nowhave
    stale,      \* ptr points into a block that realloc gave back
    line,       \* the line after history expansion
    text,       \* result of expand_alias
    aliases     \* the table of aliases

lineVars == <<stage, typed, got, read, room, stale, line, text, aliases>>

NoLine ==
    /\ typed' = <<>> /\ got' = <<>> /\ read' = 0 /\ room' = Chunk /\ stale' = FALSE
    /\ line' = <<>> /\ text' = <<>>

LineInit ==
    /\ stage = "prompt" /\ typed = <<>> /\ got = <<>> /\ read = 0 /\ room = Chunk
    /\ stale = FALSE /\ line = <<>> /\ text = <<>>
    /\ aliases = [n \in AliasNames |-> NotAlias]

-----------------------------------------------------------------------------
(* Reading *)

BeginRead ==
    /\ \E t \in Lines : typed' = t
    /\ stage' = "read"
    /\ UNCHANGED <<got, read, room, stale, line, text, aliases>>

(* Slip: there is one more character before the buffer grows. *)
FullLate == read + 1 > room
(* Slip: the buffer grows when there is room for one more. *)
FullEarly == read + 2 = room
Full == read + 1 = room

(* One character.  realloc may move the block; ptr is not moved along, and *)
(* what is written through it then may destroy the heap.                   *)
GetChar ==
    /\ stage = "read" /\ read < Len(typed)
    /\ read' = read + 1
    /\ got' = IF stale THEN got ELSE Append(got, typed[read + 1])
    /\ IF Full THEN room' = 2 * room /\ stale' \in {stale, TRUE}
       ELSE UNCHANGED <<room, stale>>
    /\ stage' \in IF stale THEN {"read", "fault"} ELSE {"read"}
    /\ UNCHANGED <<typed, line, text, aliases>>

(* The newline, or the end of the input after some characters: the buffer  *)
(* is given back but for the line.  Empty lines need not be run.           *)
Received(t) ==
    /\ stage' = IF t = <<>> THEN "prompt" ELSE "history"
    /\ line' = t /\ typed' = IF t = <<>> THEN <<>> ELSE typed
    /\ got' = <<>> /\ read' = 0 /\ room' = Chunk /\ stale' = FALSE

EndOfLine ==
    /\ stage = "read" /\ read = Len(typed)
    /\ \/ ~stale /\ Received(got)
       \/ stale /\ \E junk \in Heap : Received(got \o junk)
       \/ stale /\ stage' = "fault" /\ UNCHANGED <<typed, got, read, room, stale, line>>
    /\ UNCHANGED <<text, aliases>>

(* The end of the input with nothing before it: main calls exit_psh. *)
EndOfInput ==
    /\ stage = "read" /\ read = 0
    /\ stage' = "exited" /\ NoLine /\ UNCHANGED aliases

(* history_expand left the line alone, replaced it, or it is not to be run *)
History ==
    /\ stage = "history"
    /\ \/ \E l \in Recalled \cup {line} :
            /\ line' = l /\ text' = l /\ stage' = "alias"
            /\ UNCHANGED <<typed, got, read, room, stale>>
       \/ NoLine /\ stage' = "prompt"
    /\ UNCHANGED aliases

-----------------------------------------------------------------------------
(* expand_alias *)

WordEnd(t) == Min({Len(t) + 1} \cup {n \in DOMAIN t : t[n] \in Blanks})
FirstWord(t) == SubSeq(t, 1, WordEnd(t) - 1)
Others(t) == SubSeq(t, WordEnd(t), Len(t))
AliasOf(w) == IF w \in AliasNames THEN aliases[w] ELSE NotAlias

(* Slip: the first blank is dropped with the word. *)
ReplacedByDropping(t) == AliasOf(FirstWord(t)) \o SubSeq(t, WordEnd(t) + 1, Len(t))
(* Slip: the word is looked up in the line as it was. *)
ReplacedFromLine(t) == AliasOf(FirstWord(line)) \o Others(t)

Replaced(t) == AliasOf(FirstWord(t)) \o Others(t)

(* The first word is no alias. *)
IsExpanded(t) == AliasOf(FirstWord(t)) = NotAlias

ExpandAlias ==
    /\ stage = "alias"
    /\ IF IsExpanded(text) THEN stage' = "command" /\ UNCHANGED text
       ELSE IF Len(Replaced(text)) > MaxText THEN stage' = "exhausted" /\ UNCHANGED text
       ELSE text' = Replaced(text) /\ UNCHANGED stage
    /\ UNCHANGED <<typed, got, read, room, stale, line, aliases>>

-----------------------------------------------------------------------------
(* Commands: which one the text is, is left open. *)

Runs == stage = "command" /\ stage' = "prompt" /\ NoLine

(* builtin_alias: the last definition of a name counts. *)
Given(d, n) == {k \in DOMAIN d : d[k].name = n}
Defined(d) ==
    [n \in AliasNames |-> IF Given(d, n) = {} THEN aliases[n] ELSE d[Max(Given(d, n))].text]

Alias == Runs /\ \E d \in Definitions : aliases' = Defined(d)

(* builtin_unalias *)
Unalias ==
    /\ Runs
    /\ \E names \in {AliasNames} \cup {{n} : n \in AliasNames} :
        aliases' = [n \in AliasNames |-> IF n \in names THEN NotAlias ELSE aliases[n]]

(* Any other command, or a line the parser refuses *)
OtherCommand == Runs /\ UNCHANGED aliases

ReadLine == GetChar \/ EndOfLine
Command == Alias \/ Unalias \/ OtherCommand
=============================================================================
