------------------------------ MODULE PshShell ------------------------------
(***************************************************************************)
(* What the command runner of psh promises, without processes, pipes or    *)
(* descriptors: the commands of a line are taken one by one, in order; one *)
(* that is piped or in the background is started and left alone; any other *)
(* is finished before the next is taken, and only that changes "?".        *)
(***************************************************************************)
EXTENDS Integers, Sequences

CONSTANTS
    Lists,          \* command lists; a command is a record with a type
    Outcomes(_)     \* the values of "?" a command can end with

VARIABLES
    phase,      \* "idle", "busy" or "gone"
    todo,       \* commands of the line not taken yet, the current one first
    started,    \* types of the commands started and left alone, in order
    st          \* the variable "?"

shell == <<phase, todo, started, st>>

LeftAlone(c) == c.type \in {"BACKGROUND", "PIPED"}

ShellInit == phase = "idle" /\ todo = <<>> /\ started = <<>> /\ st = 0

Drop ==
    /\ todo' = Tail(todo)
    /\ phase' = IF Len(todo) = 1 THEN "idle" ELSE "busy"

Accept ==
    /\ phase = "idle" /\ phase' = "busy"
    /\ todo' \in Lists
    /\ UNCHANGED <<started, st>>

Finish ==
    /\ phase = "busy" /\ ~LeftAlone(Head(todo))
    /\ st' \in Outcomes(Head(todo))
    /\ Drop
    /\ UNCHANGED started

Start ==
    /\ phase = "busy" /\ LeftAlone(Head(todo))
    /\ started' = Append(started, Head(todo).type)
    /\ Drop
    /\ UNCHANGED st

(* A command that cannot be set up is skipped; "?" does not tell. *)
Skip == phase = "busy" /\ Drop /\ UNCHANGED <<started, st>>

(* When no process can be created the rest of the line is given up. *)
GiveUp ==
    /\ phase = "busy" /\ phase' = "idle" /\ todo' = <<>>
    /\ UNCHANGED <<started, st>>

Quit ==
    /\ phase # "gone" /\ phase' = "gone" /\ todo' = <<>> /\ started' = <<>>
    /\ UNCHANGED st

ShellNext == Accept \/ Finish \/ Start \/ Skip \/ GiveUp \/ Quit

ShellSpec == ShellInit /\ [][ShellNext]_shell
=============================================================================
