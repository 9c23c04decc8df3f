------------------------------- MODULE PshRun -------------------------------
(***************************************************************************)
(* The command runner of psh: psh_backend_do_run and execute_single_cmd    *)
(* (src/backends/posix2/run.c), the job list (src/jobs.c), exit_psh        *)
(* (src/util.c) and the loop of main.c that feeds the runner, together     *)
(* with the child processes, the descriptor tables and the pipes they      *)
(* share through the kernel.                                               *)
(*                                                                         *)
(* One action per system call the shell or a child makes that another      *)
(* process can observe.  A command is abstracted to what decides control:  *)
(* its type, what find_builtin and get_cmd_realpath say of it, how the     *)
(* program behaves on its standard streams, and its redirection.           *)
(***************************************************************************)
EXTENDS Integers, Sequences

CONSTANTS
    Pids,       \* process identifiers the kernel hands out, and reuses
    PipeIds,    \* kernel pipe objects
    MaxFd,      \* largest descriptor number of a process
    Lists,      \* command lists filpinfo may hand to psh_backend_do_run
    MaxLines,   \* bound on the number of lines read
    NoPid,      \* the -1 that fork returns when it fails
    NilPipe     \* the pipe of a descriptor that is not a pipe end

Fds == 0 .. MaxFd
CmdTypes == {"SINGLE", "BACKGROUND", "PIPED", "RUN_AND", "RUN_OR", "MULTICMD"}

(* What will run: a builtin that returns, exit, exec, a file execv is     *)
(* given, or nothing (get_cmd_realpath returned NULL).                     *)
Executables == {"builtin", "exit", "exec", "disk", "missing"}

(* A program ends by itself, or reads its input to the end, or writes     *)
(* until nobody reads; "none" for `exec` without operands.                 *)
Programs == {"job", "reader", "writer", "none"}

(* rhs.fd of a redirection is never set by filpinfo: xcalloc left it 0,    *)
(* and rhs.file NULL.  filpinfo writes one redirection per line, to the    *)
(* rlist of the first command (RedirectsAssumption).                       *)
Redirects == [kind : {"NONE", "FD2FD", "FILE"}, lhs : Fds]
Commands == [type : CmdTypes, exe : Executables, prog : Programs,
             redir : Redirects]

ASSUME PidsAssumption == NoPid \notin Pids /\ NilPipe \notin PipeIds
ASSUME FdAssumption == MaxFd \in Nat /\ MaxFd >= 2
ASSUME ListsAssumption == Lists \subseteq Seq(Commands) /\ <<>> \notin Lists
ASSUME RedirectsAssumption ==
    \A l \in Lists : \A n \in DOMAIN l : n > 1 => l[n].redir.kind = "NONE"
ASSUME BoundsAssumption == MaxLines \in Nat

ExitCodes == {0, 3}         \* codes a program or `exit n` ends with
BuiltinCodes == {0, 1}      \* values a builtin returns
SIGHUP == 1                 \* wait status of a process killed by SIGHUP
SIGPIPE == 13
ExitStatus(code) == (code % 256) * 256

-----------------------------------------------------------------------------
(* Open files *)

FileObjs == [kind : {"closed", "tty", "r", "w"}, pipe : PipeIds \cup {NilPipe}]
Closed == [kind |-> "closed", pipe |-> NilPipe]
Tty == [kind |-> "tty", pipe |-> NilPipe]
RdEnd(k) == [kind |-> "r", pipe |-> k]
WrEnd(k) == [kind |-> "w", pipe |-> k]
FdTables == [Fds -> FileObjs]
InitFds == [d \in Fds |-> IF d <= 2 THEN Tty ELSE Closed]
NoFds == [d \in Fds |-> Closed]

(* pipe_fd and last_pipe_fd: 0 stands for "no pipe". *)
FdPairs == [rd : Fds, wr : Fds]
NoPipe == [rd |-> 0, wr |-> 0]

(* if (fd) close(fd) *)
CloseFd(f, d) == IF d = 0 THEN f ELSE [f EXCEPT ![d] = Closed]

(* if (fd) { close(to); dup2(fd, to); close(fd); }: dup2 would fail if fd  *)
(* was not open or was `to`; ChildIsWired says that does not happen.  That *)
(* the call is interrupted is left out.                                    *)
MoveFd(f, d, to) ==
    IF d = 0 THEN f ELSE [f EXCEPT ![to] = f[d], ![d] = Closed]

(* pipe() and dup() take the lowest free descriptors. *)
IsLowest(f, d) == f[d] = Closed /\ \A e \in Fds : f[e] = Closed => d <= e
AreTwoLowest(f, r, w) ==
    /\ IsLowest(f, r)
    /\ f[w] = Closed
    /\ r < w
    /\ \A e \in Fds : f[e] = Closed => e = r \/ w <= e

(* dup2(0, lhs) after close(lhs) *)
RedirectFails(f, r) ==
    \/ r.kind = "FILE"
    \/ r.kind = "FD2FD" /\ r.lhs = 0
    \/ r.kind = "FD2FD" /\ f[0] = Closed
Redirected(f, r) ==
    IF r.kind = "FD2FD" THEN [f EXCEPT ![r.lhs] = f[0]] ELSE f

-----------------------------------------------------------------------------
(* Processes *)

NoCmd == [type |-> "SINGLE", exe |-> "missing", prog |-> "none",
          redir |-> [kind |-> "NONE", lhs |-> 0]]
JobEntries == [pid : Pids, type : {"BACKGROUND", "PIPED"}]
PipeArgs == [in : Fds, out : Fds, close1 : Fds, close2 : Fds]
NoArgs == [in |-> 0, out |-> 0, close1 |-> 0, close2 |-> 0]

(* A process the shell did not create has owner "other".  A child carries  *)
(* the copies fork made: descriptors, job list and the variable "?".       *)
Processes ==
    [state  : {"absent", "forked", "wired", "running", "zombie"},
     owner  : {"none", "shell", "other"},
     cmd    : Commands,
     args   : PipeArgs,
     fd     : FdTables,
     jobs   : Seq(JobEntries),
     exitst : Int,
     status : Int]

Absent == [state |-> "absent", owner |-> "none", cmd |-> NoCmd,
           args |-> NoArgs, fd |-> NoFds, jobs |-> <<>>, exitst |-> 0,
           status |-> 0]
Ended(owner, st) == [Absent EXCEPT !.state = "zombie", !.owner = owner,
                                   !.status = st]
JobPids(js) == {js[n].pid : n \in DOMAIN js}

VARIABLES
    pc,         \* where the shell is
    lines,      \* lines read so far (bounded by MaxLines)
    line, i,    \* the command list being run, and the position in it
    lastPipe,   \* last_pipe_fd
    pipeFd,     \* pipe_fd
    pid,        \* the local variable pid
    status,     \* the shell variable "?"
    jobs,       \* state->jobs
    fds,        \* the shell's descriptor table
    proc,       \* the process table
    exitCode    \* what the shell passes to exit()

shellVars == <<lines, line, i, lastPipe, pipeFd, pid, status, jobs, fds,
               exitCode>>
vars == <<pc, lines, line, i, lastPipe, pipeFd, pid, status, jobs, fds, proc,
          exitCode>>

Gone == {"exited", "crashed", "execed"}
ShellAlive == pc \notin Gone
Running == {"cmd", "fork", "parent", "wait"}
Live(p) == proc[p].state \in {"forked", "wired", "running"}
Holds(f, obj) == \E d \in Fds : f[d] = obj
OpenSomewhere(obj) ==
    Holds(fds, obj) \/ \E p \in Pids : Live(p) /\ Holds(proc[p].fd, obj)

(* Slip: only the first job is signalled (`if (cur)` for `while (cur)`). *)
HangUpFirst(js) ==
    [p \in Pids |-> IF js # <<>> /\ p = js[1].pid /\ Live(p)
                    THEN Ended(proc[p].owner, SIGHUP) ELSE proc[p]]

(* psh_jobs_free(state, 1): SIGHUP to every pid of a job list.  A process *)
(* that is alive dies of it; to a zombie or to no process it does nothing. *)
HangUp(js) ==
    [p \in Pids |-> IF p \in JobPids(js) /\ Live(p)
                    THEN Ended(proc[p].owner, SIGHUP) ELSE proc[p]]

Init ==
    /\ pc = "prompt"
    /\ lines = 0
    /\ line = <<>>
    /\ i = 1
    /\ lastPipe = NoPipe
    /\ pipeFd = NoPipe
    /\ pid = NoPid
    /\ status = 0
    /\ jobs = <<>>
    /\ fds = InitFds
    /\ proc = [p \in Pids |-> Absent]
    /\ exitCode = 0

-----------------------------------------------------------------------------
(* The loop of psh_backend_do_run *)

Cur == line[i]

(* A builtin that is neither piped nor in the background is not forked. *)
InProcess(c) == c.exe \in {"builtin", "exit", "exec"}

(* Slip: a piped command is not asynchronous. *)
AsyncBackgroundOnly(c) == c.type = "BACKGROUND"

Async(c) == c.type \in {"BACKGROUND", "PIPED"}
RunsInShell(c) == InProcess(c) /\ ~Async(c)

(* Leaving do_run; main.c goes back to the prompt whatever it returned. *)
Leave == pc' = "prompt" /\ line' = <<>> /\ i' = 1 /\ pipeFd' = NoPipe

(* Slip: the loop tests the command it has just run, not the next one. *)
AdvancePastEnd ==
    \/ /\ i <= Len(line)
       /\ pc' = "cmd" /\ i' = i + 1 /\ pipeFd' = NoPipe
       /\ UNCHANGED line
    \/ i > Len(line) /\ Leave

(* cont: cmd = cmd->next, and pipe_fd is a fresh {0} in the next round. *)
Advance ==
    \/ /\ i < Len(line)
       /\ pc' = "cmd" /\ i' = i + 1 /\ pipeFd' = NoPipe
       /\ UNCHANGED line
    \/ i = Len(line) /\ Leave

(* exit_psh(state, code) in the shell *)
ExitPsh(code) ==
    /\ pc' = "exited"
    /\ exitCode' = code % 256
    /\ proc' = HangUp(jobs)
    /\ jobs' = <<>>
    /\ fds' = NoFds
    /\ line' = <<>>
    /\ i' = 1
    /\ UNCHANGED <<lines, lastPipe, pipeFd, pid, status>>

(* A line is read, expanded and parsed; do_run starts. *)
ReadLine ==
    /\ pc = "prompt"
    /\ lines < MaxLines
    /\ \E l \in Lists : line' = l
    /\ lines' = lines + 1
    /\ i' = 1
    /\ pc' = "cmd"
    /\ lastPipe' = NoPipe
    /\ UNCHANGED <<pipeFd, pid, status, jobs, fds, proc, exitCode>>

(* End of input, or the end of `psh -c`: exit with "?". *)
ReadEof == pc = "prompt" /\ ExitPsh(status)

(* BACKUP_FD: dup() the descriptor to the lowest free one if it is open. *)
BackedUp(f, d) ==
    IF f[d] = Closed THEN {f}
    ELSE {[f EXCEPT ![b] = f[d]] : b \in {e \in Fds : IsLowest(f, e)}}

(* What redirecting a builtin leaves in the descriptor table: restore_fds  *)
(* puts everything back, unless the builtin is exec.                       *)
AfterBuiltin(f) ==
    \/ Cur.redir.kind = "NONE" /\ f = fds
    \/ /\ Cur.redir.kind = "FD2FD"
       /\ \E g \in BackedUp(fds, Cur.redir.lhs) :
            /\ ~RedirectFails(g, Cur.redir)
            /\ f = IF Cur.exe = "exec" THEN Redirected(g, Cur.redir) ELSE fds

(* The file of a builtin's redirection cannot be opened, or dup() finds no *)
(* descriptor for the backup of an open one: the builtin is skipped, "?"   *)
(* keeps its value and the descriptors are as they were.                   *)
BuiltinSkipped ==
    /\ pc = "cmd" /\ RunsInShell(Cur)
    /\ \/ Cur.redir.kind = "FILE"
       \/ Cur.redir.kind = "FD2FD" /\ fds[Cur.redir.lhs] # Closed
    /\ Advance
    /\ UNCHANGED <<lines, lastPipe, pid, status, jobs, fds, proc, exitCode>>

(* BACKUP_FD stores through a pointer that was never set: the shell dies   *)
(* of it, ...                                                              *)
BuiltinCrashes ==
    /\ pc = "cmd" /\ RunsInShell(Cur)
    /\ Cur.redir.kind = "FD2FD"
    /\ pc' = "crashed"
    /\ fds' = NoFds /\ line' = <<>> /\ i' = 1 /\ jobs' = <<>>
    /\ UNCHANGED <<lines, lastPipe, pipeFd, pid, status, proc, exitCode>>

(* ... or the store happens to hit writable memory and the backup is made, *)
(* but then dup2 fails: do_run goes on without restoring anything.         *)
BuiltinLosesFd ==
    /\ pc = "cmd" /\ RunsInShell(Cur)
    /\ Cur.redir.kind = "FD2FD"
    /\ \E g \in BackedUp(fds, Cur.redir.lhs) :
         /\ RedirectFails(g, Cur.redir)
         /\ fds' = [g EXCEPT ![Cur.redir.lhs] = Closed]
    /\ Advance
    /\ UNCHANGED <<lines, lastPipe, pid, status, jobs, proc, exitCode>>

(* A builtin that returns; exec returns when it has no operand (0) or      *)
(* when execv failed (127).                                                *)
BuiltinReturns ==
    /\ pc = "cmd" /\ RunsInShell(Cur)
    /\ AfterBuiltin(fds')
    /\ \/ Cur.exe = "builtin" /\ status' \in BuiltinCodes
       \/ Cur.exe = "exec" /\ Cur.prog = "none" /\ status' = 0
       \/ Cur.exe = "exec" /\ Cur.prog # "none" /\ status' = 127
    /\ Advance
    /\ UNCHANGED <<lines, lastPipe, pid, jobs, proc, exitCode>>

(* exec replaces the shell: its job list is gone, its children are not. *)
BuiltinExec ==
    /\ pc = "cmd" /\ RunsInShell(Cur)
    /\ Cur.exe = "exec" /\ Cur.prog # "none"
    /\ AfterBuiltin(fds')
    /\ pc' = "execed"
    /\ line' = <<>> /\ i' = 1 /\ jobs' = <<>>
    /\ UNCHANGED <<lines, lastPipe, pipeFd, pid, status, proc, exitCode>>

(* exit, without operand or with one *)
BuiltinExit ==
    /\ pc = "cmd" /\ RunsInShell(Cur)
    /\ Cur.exe = "exit" /\ AfterBuiltin(fds)
    /\ \E code \in {status} \cup ExitCodes : ExitPsh(code)

MakePipe ==
    /\ pc = "cmd" /\ Cur.type = "PIPED"
    /\ \E k \in PipeIds, r, w \in Fds :
         /\ ~OpenSomewhere(RdEnd(k)) /\ ~OpenSomewhere(WrEnd(k))
         /\ AreTwoLowest(fds, r, w)
         /\ fds' = [fds EXCEPT ![r] = RdEnd(k), ![w] = WrEnd(k)]
         /\ pipeFd' = [rd |-> r, wr |-> w]
    /\ pc' = "fork"
    /\ UNCHANGED <<lines, line, i, lastPipe, pid, status, jobs, proc, exitCode>>

(* pipe() fails: the command is skipped, the previous pipe kept. *)
PipeFails ==
    /\ pc = "cmd" /\ Cur.type = "PIPED"
    /\ Advance
    /\ UNCHANGED <<lines, lastPipe, pid, status, jobs, fds, proc, exitCode>>

AboutToFork ==
    \/ pc = "fork"
    \/ pc = "cmd" /\ Cur.type # "PIPED" /\ ~RunsInShell(Cur)

Child ==
    [Absent EXCEPT
        !.state = "forked", !.owner = "shell", !.cmd = Cur, !.fd = fds,
        !.jobs = jobs, !.exitst = status,
        !.args = [in |-> lastPipe.rd, out |-> pipeFd.wr,
                  close1 |-> pipeFd.rd, close2 |-> lastPipe.wr]]

Fork ==
    /\ AboutToFork
    /\ \E p \in Pids :
         /\ proc[p].state = "absent"
         /\ proc' = [proc EXCEPT ![p] = Child]
         /\ pid' = p
    /\ pc' = "parent"
    /\ UNCHANGED <<lines, line, i, lastPipe, pipeFd, status, jobs, fds,
                   exitCode>>

ForkFails ==
    /\ AboutToFork
    /\ pid' = NoPid
    /\ pc' = "parent"
    /\ UNCHANGED <<lines, line, i, lastPipe, pipeFd, status, jobs, fds, proc,
                   exitCode>>

(* Slip: state->jobs = job, whether or not there is a list already. *)
JobsAddOverwrites == jobs' = <<[pid |-> pid, type |-> Cur.type]>>

(* psh_jobs_add *)
JobsAdd == jobs' = Append(jobs, [pid |-> pid, type |-> Cur.type])

(* Slip: `if (pid < 0) return 1` before the descriptors are closed. *)
ParentReturnsFirst ==
    /\ pc = "parent"
    /\ \/ pid = NoPid /\ Leave /\ UNCHANGED <<jobs, fds, lastPipe>>
       \/ /\ pid # NoPid
          /\ fds' = CloseFd(CloseFd(fds, lastPipe.rd), pipeFd.wr)
          /\ lastPipe' = pipeFd
          /\ \/ Async(Cur) /\ JobsAdd /\ Advance
             \/ ~Async(Cur) /\ pc' = "wait" /\ UNCHANGED <<line, i, pipeFd, jobs>>
    /\ UNCHANGED <<lines, pid, status, proc, exitCode>>

(* Slip: the parent does not close the write end it made. *)
ParentKeepsWriteEnd ==
    /\ pc = "parent"
    /\ fds' = CloseFd(fds, lastPipe.rd)
    /\ lastPipe' = pipeFd
    /\ \/ pid = NoPid /\ Leave /\ UNCHANGED jobs
       \/ pid # NoPid /\ Async(Cur) /\ JobsAdd /\ Advance
       \/ /\ pid # NoPid /\ ~Async(Cur)
          /\ pc' = "wait"
          /\ UNCHANGED <<line, i, pipeFd, jobs>>
    /\ UNCHANGED <<lines, pid, status, proc, exitCode>>

(* The parent closes what the child uses, keeps this pipe for the next     *)
(* command, and goes on, waits or gives up.                                *)
ParentAfterFork ==
    /\ pc = "parent"
    /\ fds' = CloseFd(CloseFd(fds, lastPipe.rd), pipeFd.wr)
    /\ lastPipe' = pipeFd
    /\ \/ pid = NoPid /\ Leave /\ UNCHANGED jobs
       \/ pid # NoPid /\ Async(Cur) /\ JobsAdd /\ Advance
       \/ /\ pid # NoPid /\ ~Async(Cur)
          /\ pc' = "wait"
          /\ UNCHANGED <<line, i, pipeFd, jobs>>
    /\ UNCHANGED <<lines, pid, status, proc, exitCode>>

(* Slip: wait(&status), which may reap a job. *)
WaitAny ==
    /\ pc = "wait"
    /\ \E p \in Pids :
         /\ proc[p].state = "zombie" /\ proc[p].owner = "shell"
         /\ status' = proc[p].status
         /\ proc' = [proc EXCEPT ![p] = Absent]
    /\ Advance
    /\ UNCHANGED <<lines, lastPipe, pid, jobs, fds, exitCode>>

(* waitpid(pid, &status, 0) reaps the child; its status becomes "?". *)
WaitForeground ==
    /\ pc = "wait"
    /\ proc[pid].state = "zombie" /\ proc[pid].owner = "shell"
    /\ status' = proc[pid].status
    /\ proc' = [proc EXCEPT ![pid] = Absent]
    /\ Advance
    /\ UNCHANGED <<lines, lastPipe, pid, jobs, fds, exitCode>>

(* What exec left in the shell's place ends, and hangs nobody up. *)
ExecedEnds ==
    /\ pc = "execed"
    /\ pc' = "exited" /\ fds' = NoFds
    /\ UNCHANGED <<lines, line, i, lastPipe, pipeFd, pid, status, jobs, proc,
                   exitCode>>

-----------------------------------------------------------------------------
(* The child's side of execute_single_cmd *)

(* Slip: the other ends are closed before the pipe is put in place. *)
WiredClosesFirst(p) ==
    LET a == proc[p].args
        f == CloseFd(CloseFd(proc[p].fd, a.close1), a.close2)
    IN  MoveFd(MoveFd(f, a.in, 0), a.out, 1)

(* Slip: the child keeps the read end of its own pipe. *)
WiredKeepsReadEnd(p) ==
    LET a == proc[p].args
        f == MoveFd(MoveFd(proc[p].fd, a.in, 0), a.out, 1)
    IN  CloseFd(f, a.close2)

Wired(p) ==
    LET a == proc[p].args
        f1 == MoveFd(proc[p].fd, a.in, 0)
        f2 == MoveFd(f1, a.out, 1)
    IN  CloseFd(CloseFd(f2, a.close1), a.close2)

ChildWires(p) ==
    /\ proc[p].state = "forked"
    /\ proc' = [proc EXCEPT ![p].state = "wired", ![p].fd = Wired(p),
                            ![p].args = NoArgs]
    /\ UNCHANGED <<pc, shellVars>>

ChildEnds(p, code) ==
    /\ proc' = [proc EXCEPT ![p] = Ended(proc[p].owner, ExitStatus(code))]
    /\ UNCHANGED <<pc, shellVars>>

Ready(p) ==
    /\ proc[p].state = "wired"
    /\ ~RedirectFails(proc[p].fd, proc[p].cmd.redir)

ChildRedirectFails(p) ==
    /\ proc[p].state = "wired"
    /\ RedirectFails(proc[p].fd, proc[p].cmd.redir)
    /\ ChildEnds(p, 1)

(* A builtin in a child, exec without operand included *)
ChildBuiltin(p) ==
    /\ Ready(p)
    /\ \/ proc[p].cmd.exe = "builtin" /\ \E b \in BuiltinCodes : ChildEnds(p, b)
       \/ proc[p].cmd.exe = "exec" /\ proc[p].cmd.prog = "none" /\ ChildEnds(p, 0)

(* exit in a child is the same exit_psh: it hangs up the child's copy of   *)
(* the job list.                                                           *)
ChildExit(p) ==
    /\ Ready(p) /\ proc[p].cmd.exe = "exit"
    /\ \E code \in {proc[p].exitst} \cup ExitCodes :
         proc' = [HangUp(proc[p].jobs) EXCEPT
                    ![p] = Ended(proc[p].owner, ExitStatus(code))]
    /\ UNCHANGED <<pc, shellVars>>

HasImage(c) == c.exe = "disk" \/ (c.exe = "exec" /\ c.prog # "none")

ChildExecs(p) ==
    /\ Ready(p) /\ HasImage(proc[p].cmd)
    /\ proc' = [proc EXCEPT ![p].state = "running",
                            ![p].fd = Redirected(proc[p].fd, proc[p].cmd.redir),
                            ![p].jobs = <<>>, ![p].exitst = 0]
    /\ UNCHANGED <<pc, shellVars>>

ChildExecFails(p) ==
    /\ Ready(p)
    /\ (proc[p].cmd.exe = "missing" \/ HasImage(proc[p].cmd))
    /\ ChildEnds(p, 127)

-----------------------------------------------------------------------------
(* Programs and the kernel (outside the repository) *)

AtEof(p) ==
    LET in == proc[p].fd[0]
    IN  in.kind = "r" => ~OpenSomewhere(WrEnd(in.pipe))
NobodyReads(p) ==
    LET out == proc[p].fd[1]
    IN  out.kind = "w" /\ ~OpenSomewhere(RdEnd(out.pipe))

IsRunning(p) == proc[p].state = "running" /\ proc[p].owner = "shell"

JobEnds(p) ==
    /\ IsRunning(p) /\ proc[p].cmd.prog = "job"
    /\ \E c \in ExitCodes : ChildEnds(p, c)

ReaderEnds(p) ==
    /\ IsRunning(p) /\ proc[p].cmd.prog = "reader"
    /\ AtEof(p)
    /\ ChildEnds(p, 0)

(* A writer on a pipe dies of SIGPIPE once there is no reader; on a        *)
(* terminal it goes on for ever.                                           *)
WriterEnds(p) ==
    /\ IsRunning(p) /\ proc[p].cmd.prog = "writer"
    /\ NobodyReads(p)
    /\ proc' = [proc EXCEPT ![p] = Ended("shell", SIGPIPE)]
    /\ UNCHANGED <<pc, shellVars>>

Stranger == [Absent EXCEPT !.state = "running", !.owner = "other"]

(* Processes that have nothing to do with the shell come and go, and the   *)
(* children of a shell that is gone are reaped by somebody else.           *)
OtherStarts(p) ==
    /\ proc[p].state = "absent"
    /\ proc' = [proc EXCEPT ![p] = Stranger]
    /\ UNCHANGED <<pc, shellVars>>

OtherEnds(p) ==
    /\ proc[p].state = "running" /\ proc[p].owner = "other"
    /\ proc' = [proc EXCEPT ![p] = Absent]
    /\ UNCHANGED <<pc, shellVars>>

OrphanReaped(p) ==
    /\ ~ShellAlive
    /\ proc[p].state = "zombie" /\ proc[p].owner = "shell"
    /\ proc' = [proc EXCEPT ![p] = Absent]
    /\ UNCHANGED <<pc, shellVars>>

-----------------------------------------------------------------------------

DoRun ==
    \/ BuiltinSkipped \/ BuiltinCrashes \/ BuiltinLosesFd \/ BuiltinReturns
    \/ BuiltinExec \/ BuiltinExit
    \/ MakePipe \/ PipeFails \/ Fork \/ ForkFails
    \/ ParentAfterFork \/ WaitForeground

ChildStep(p) ==
    \/ ChildWires(p) \/ ChildRedirectFails(p) \/ ChildBuiltin(p)
    \/ ChildExit(p) \/ ChildExecs(p) \/ ChildExecFails(p)

ProgramEnds(p) == JobEnds(p) \/ ReaderEnds(p) \/ WriterEnds(p)

Environment(p) == OtherStarts(p) \/ OtherEnds(p) \/ OrphanReaped(p)

Next ==
    \/ ReadLine \/ ReadEof \/ DoRun \/ ExecedEnds
    \/ \E p \in Pids : ChildStep(p) \/ ProgramEnds(p) \/ Environment(p)

Spec == Init /\ [][Next]_vars

(* The scheduler runs the shell and every child; a program that can end    *)
(* does.  Nothing is assumed of the user or of unrelated processes.        *)
Fairness ==
    /\ WF_vars(DoRun)
    /\ \A p \in Pids : WF_vars(ChildStep(p)) /\ WF_vars(ProgramEnds(p))

FairSpec == Spec /\ Fairness

-----------------------------------------------------------------------------
(* Properties *)

(* Every variable has its type. *)
TypeOK ==
    /\ pc \in {"prompt"} \cup Running \cup Gone
    /\ lines \in 0 .. MaxLines
    /\ line \in Lists \cup {<<>>}
    /\ i \in Nat \ {0}
    /\ IF pc \in Running THEN i <= Len(line) ELSE line = <<>>
    /\ lastPipe \in FdPairs /\ pipeFd \in FdPairs
    /\ pid \in Pids \cup {NoPid}
    /\ pc = "wait" => pid \in Pids
    /\ status \in Int /\ exitCode \in Int
    /\ jobs \in Seq(JobEntries)
    /\ fds \in FdTables
    /\ proc \in [Pids -> Processes]

(* The child do_run has forked and not yet put on the job list or reaped. *)
Foreground == IF pc \in {"parent", "wait"} /\ pid # NoPid THEN {pid} ELSE {}

(* While the shell lives, the job list together with the foreground child  *)
(* is exactly the set of its children that were not reaped: psh_jobs_add   *)
(* loses none, lists none twice, and waitpid is never called on a job, so  *)
(* a pid on the list cannot be given to another process.                   *)
JobsAreTheChildren ==
    ShellAlive =>
        /\ {p \in Pids : proc[p].owner = "shell"} = JobPids(jobs) \cup Foreground
        /\ JobPids(jobs) \cap Foreground = {}
        /\ \A m, n \in DOMAIN jobs : jobs[m].pid = jobs[n].pid => m = n
        /\ \A p \in JobPids(jobs) \cup Foreground : proc[p].state # "absent"

(* psh_backend_hup never reaches a process the shell did not create, be it *)
(* sent by the shell or by a child that runs exit on its copy of the list: *)
(* the pids of the list are not recycled while the shell lives.            *)
NoStrangerHungUp ==
    [][ShellAlive => \A p \in Pids :
          proc[p].owner = "other" => proc'[p].state # "zombie"]_vars

(* exit_psh in the shell leaves no child running behind: everything that   *)
(* is still alive was on the job list and got its SIGHUP.                  *)
ExitLeavesNoChild ==
    [][(ShellAlive /\ pc' = "exited") =>
          \A p \in Pids : proc[p].owner = "shell" => proc'[p].state = "zombie"]_vars

(* The descriptor numbers execute_single_cmd gets are numbers the parent   *)
(* may have closed and pipe() may have handed out again (last_pipe_fd[1]   *)
(* is always stale), and 0 is both "no pipe" and, in a shell that lost its *)
(* stdin, the read end pipe() returns.  The child nevertheless ends up     *)
(* with the read end of the previous pipe, if there was one, as stdin, the *)
(* write end of its own pipe as stdout, and no other write end.            *)
ChildIsWired ==
    \A p \in Pids : proc[p].state = "forked" =>
        LET a == proc[p].args
            f == proc[p].fd
            w == Wired(p)
        IN  /\ a.in # 0 \/ a.close2 # 0 => f[a.in].kind = "r"
            /\ w[0] = f[a.in]
            /\ a.out # 0 => f[a.out].kind = "w" /\ w[1] = f[a.out]
            /\ a.out = 0 => w[1] = f[1]
            /\ \A d \in Fds \ {1} : w[d].kind # "w"

(* The shell holds no write end of a pipe while it waits, and none when it *)
(* looks at the next command or prompts, whichever call failed: a reader   *)
(* sees the end of its input.                                              *)
WriteEndsClosed ==
    pc \in {"prompt", "cmd", "wait"} => \A d \in Fds : fds[d].kind # "w"

(* A foreground command the shell waits for comes back, as long as what    *)
(* writes to it does.                                                      *)
ForegroundReturns == (pc = "wait") ~> (pc # "wait")

(* A writer is stuck on its pipe for ever only because the shell itself    *)
(* kept the read end: no other process of the pipeline keeps it.           *)
Stuck(p) == IsRunning(p) /\ proc[p].cmd.prog = "writer"
KeptByShell(p) == Stuck(p) /\ Holds(fds, RdEnd(proc[p].fd[1].pipe))
WritersEndOrShellKeepsPipe ==
    \A p \in Pids : <>[]Stuck(p) => <>[]KeptByShell(p)

-----------------------------------------------------------------------------
(* Inductive strengthening of the properties about children *)

(* The table tells strangers, children and free pids apart; a child has a  *)
(* copy of the job list until it becomes a program.                        *)
OwnersOK ==
    \A p \in Pids :
        /\ proc[p].state = "absent" <=> proc[p].owner = "none"
        /\ proc[p].state \in {"forked", "wired"} => proc[p].owner = "shell"
        /\ ShellAlive /\ proc[p].owner = "other" => proc[p].state = "running"

(* The list in a child was copied from the shell's, which only grows.      *)
CopiesAreJobs ==
    ShellAlive => \A p \in Pids : JobPids(proc[p].jobs) \subseteq JobPids(jobs)

ChildrenInv == TypeOK /\ JobsAreTheChildren /\ OwnersOK /\ CopiesAreJobs

(* Where the shell may hold the write end of a pipe                        *)
WriteEndsInv ==
    \A d \in Fds : fds[d].kind = "w" =>
        pc \in {"fork", "parent"} /\ d = pipeFd.wr /\ d # 0

(* Which descriptors last_pipe_fd and pipe_fd name; last_pipe_fd[1] may    *)
(* name anything but stdout, which the shell never loses.  That there is a *)
(* pipe shows in its write end: the read end may be 0.                     *)
PipeNumbersInv ==
    /\ ShellAlive => fds[1] # Closed
    /\ pc \in Running =>
         /\ 1 \notin {lastPipe.rd, lastPipe.wr, pipeFd.rd, pipeFd.wr}
         /\ lastPipe # NoPipe => fds[lastPipe.rd].kind = "r"
         /\ pc = "cmd" /\ i = 1 => lastPipe = NoPipe
    /\ pc \in {"prompt", "cmd"} => pipeFd = NoPipe
    /\ pc \in {"fork", "parent"} /\ pipeFd # NoPipe =>
         /\ pipeFd.wr # 0 /\ fds[pipeFd.wr].kind = "w"
         /\ fds[pipeFd.rd].kind = "r"
         /\ pipeFd.rd # 0 => pipeFd.rd # lastPipe.rd

-----------------------------------------------------------------------------
(* Refinement: the runner is a PshShell. *)

CommandOutcomes(c) ==
    IF RunsInShell(c)
    THEN IF c.exe = "builtin" THEN BuiltinCodes
         ELSE IF c.prog = "none" THEN {0} ELSE {127}
    ELSE {ExitStatus(1)}
         \cup (IF c.exe = "disk"
               THEN {ExitStatus(127)} \cup {ExitStatus(x) : x \in ExitCodes}
               ELSE {ExitStatus(127)})

(* The child the shell is about to wait for or waits for runs the current  *)
(* command, writes to no pipe (so no SIGPIPE), and left a status of it.    *)
ForegroundInv ==
    /\ pc = "fork" => Async(Cur)
    /\ pc = "wait" => ~Async(Cur)
    /\ pc \in {"parent", "wait"} /\ pid # NoPid /\ ~Async(Cur) =>
         /\ ~RunsInShell(Cur)
         /\ proc[pid].state \in {"forked", "wired", "running"} =>
              /\ proc[pid].cmd = Cur
              /\ \A d \in Fds : proc[pid].fd[d].kind # "w"
         /\ proc[pid].state = "running" => Cur.exe = "disk"
         /\ proc[pid].state = "zombie" => proc[pid].status \in CommandOutcomes(Cur)

Shell == INSTANCE PshShell WITH
    Outcomes <- CommandOutcomes,
    phase <- IF pc = "prompt" THEN "idle"
             ELSE IF ShellAlive THEN "busy" ELSE "gone",
    todo <- SubSeq(line, i, Len(line)),
    started <- [n \in DOMAIN jobs |-> jobs[n].type],
    st <- status

(* Commands are run in order, foreground ones to their end before the next *)
(* is taken; "?" changes only when a foreground command ends, and to a     *)
(* value that very command can give (never to that of a job, and never to  *)
(* the SIGHUP an exit sends); jobs are only ever added.                    *)
RunsTheLine == Shell!ShellSpec

-----------------------------------------------------------------------------
(* What the repository says and the code does not do *)

(* include/command.h calls PSH_CMD_RUN_AND an AND list (POSIX 2.9.3): the  *)
(* command after && runs only if the one before it succeeded.              *)
AndListStops ==
    ~ /\ pc = "wait" /\ i > 1
      /\ line[i - 1].type = "RUN_AND" /\ line[i - 1].exe = "disk"
      /\ status # 0

(* run.c:438 "Make sure the used fds of the pipe are closed in the main    *)
(* process": back at the prompt, no fork having failed, the shell holds no *)
(* pipe.                                                                   *)
PipesClosedAtPrompt ==
    pc = "prompt" /\ pid # NoPid =>
        \A d \in Fds : fds[d].kind \notin {"r", "w"}
=============================================================================
