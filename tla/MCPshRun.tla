------------------------------ MODULE MCPshRun ------------------------------
(* Command lists and small constants for the runs of PshRun. *)
EXTENDS PshRun, TLC

Plain == [kind |-> "NONE", lhs |-> 0]
Dup(n) == [kind |-> "FD2FD", lhs |-> n]
File == [kind |-> "FILE", lhs |-> 0]

C(t, e, p) == [type |-> t, exe |-> e, prog |-> p, redir |-> Plain]
CR(t, e, p, r) == [type |-> t, exe |-> e, prog |-> p, redir |-> r]

(* Pipelines: yes | job, four stages with a command not found and builtins *)
(* (from the third on, close2 is a number pipe() has handed out again), a  *)
(* builtin at the end followed by a reader.                                *)
Pipelines == {
    <<C("PIPED", "disk", "writer"), C("SINGLE", "disk", "job")>>,
    <<C("PIPED", "missing", "none"), C("PIPED", "builtin", "none"),
      C("PIPED", "builtin", "none"), C("SINGLE", "disk", "reader")>>,
    <<C("PIPED", "disk", "job"), C("MULTICMD", "builtin", "none"),
      C("SINGLE", "disk", "reader")>> }

(* Jobs, exit in the shell and in a child, exec, lists. *)
JobLines == {
    <<C("BACKGROUND", "disk", "job"), C("PIPED", "exit", "none"),
      C("SINGLE", "disk", "job")>>,
    <<C("RUN_AND", "disk", "job"), C("RUN_OR", "missing", "none"),
      C("SINGLE", "exit", "none")>>,
    <<C("BACKGROUND", "exec", "none"), C("SINGLE", "missing", "none")>> }

(* A redirection on the first command: of a builtin onto 0 and 1, of exec  *)
(* onto 2 and onto the number a pipe will be given, of a program.          *)
RedirectLines == {
    <<CR("MULTICMD", "builtin", "none", Dup(0)),
      C("PIPED", "disk", "job"), C("SINGLE", "disk", "reader")>>,
    <<CR("MULTICMD", "exec", "none", Dup(3)),
      C("PIPED", "disk", "job"), C("SINGLE", "builtin", "none")>>,
    <<CR("PIPED", "disk", "writer", Dup(1)), C("SINGLE", "disk", "reader")>>,
    <<CR("MULTICMD", "builtin", "none", Dup(1)), C("SINGLE", "exec", "job")>>,
    <<CR("RUN_AND", "builtin", "none", File), C("SINGLE", "missing", "none")>>,
    <<CR("BACKGROUND", "disk", "job", File), C("SINGLE", "exec", "none")>> }

(* Lines on which a program may wait for another one.  No reader is put    *)
(* after a writer, which would rightly wait for ever.                      *)
WaitingLines == {
    <<C("PIPED", "disk", "writer"), C("PIPED", "exec", "job"),
      C("SINGLE", "disk", "job")>>,
    <<C("PIPED", "disk", "job"), C("PIPED", "disk", "job"),
      C("SINGLE", "disk", "reader")>>,
    <<C("PIPED", "disk", "writer"), C("SINGLE", "builtin", "none")>>,
    <<C("BACKGROUND", "disk", "job"), C("PIPED", "exit", "none"),
      C("SINGLE", "disk", "reader")>> }

AllLines == Pipelines \cup JobLines \cup RedirectLines

Perms == Permutations(Pids) \cup Permutations(PipeIds)
=============================================================================
