---------------------------- MODULE PshRunProofs ----------------------------
(***************************************************************************)
(* Proofs about PshRun, for every set of pids and pipes, every descriptor  *)
(* limit and every set of command lists.                                   *)
(***************************************************************************)
EXTENDS PshRun, SequenceTheorems, TLAPS

-----------------------------------------------------------------------------
(* Types of the values the actions are built from *)

LEMMA BasicTypes ==
    /\ 0 \in Fds /\ 1 \in Fds
    /\ Closed \in FileObjs /\ Tty \in FileObjs
    /\ NoFds \in FdTables /\ InitFds \in FdTables
    /\ NoPipe \in FdPairs
    /\ NoCmd \in Commands
    /\ Absent \in Processes
<1>1. 0 \in Fds /\ 1 \in Fds
  BY FdAssumption DEF Fds
<1>2. Closed \in FileObjs /\ Tty \in FileObjs
  BY DEF Closed, Tty, FileObjs
<1>3. NoFds \in FdTables /\ InitFds \in FdTables
  BY <1>2 DEF NoFds, InitFds, FdTables
<1>4. NoPipe \in FdPairs
  BY <1>1 DEF NoPipe, FdPairs
<1>5. NoCmd \in Commands
  BY <1>1 DEF NoCmd, Commands, CmdTypes, Executables, Programs, Redirects
<1>6. NoArgs \in PipeArgs
  BY <1>1 DEF NoArgs, PipeArgs
<1>7. <<>> \in Seq(JobEntries)
  OBVIOUS
<1>8. Absent \in Processes
  BY <1>3, <1>5, <1>6, <1>7 DEF Absent, Processes
<1> QED
  BY <1>1, <1>2, <1>3, <1>4, <1>5, <1>8

LEMMA EndedType ==
    ASSUME NEW o \in {"none", "shell", "other"}, NEW s \in Int
    PROVE  Ended(o, s) \in Processes
BY BasicTypes DEF Ended, Absent, Processes

LEMMA StrangerType == Stranger \in Processes
BY BasicTypes DEF Stranger, Processes

LEMMA CloseFdType ==
    ASSUME NEW f \in FdTables, NEW d \in Fds
    PROVE  CloseFd(f, d) \in FdTables
BY BasicTypes DEF CloseFd, FdTables

LEMMA MoveFdType ==
    ASSUME NEW f \in FdTables, NEW d \in Fds, NEW to \in Fds
    PROVE  MoveFd(f, d, to) \in FdTables
BY BasicTypes DEF MoveFd, FdTables

LEMMA RedirectedType ==
    ASSUME NEW f \in FdTables, NEW r \in Redirects
    PROVE  Redirected(f, r) \in FdTables
BY BasicTypes DEF Redirected, FdTables, Redirects

LEMMA ExitStatusType ==
    ASSUME NEW n \in Int
    PROVE  ExitStatus(n) \in Int
BY DEF ExitStatus

LEMMA JobPidsAppend ==
    ASSUME NEW js \in Seq(JobEntries), NEW e \in JobEntries
    PROVE  /\ Append(js, e) \in Seq(JobEntries)
           /\ JobPids(Append(js, e)) = JobPids(js) \cup {e.pid}
           /\ (e.pid \notin JobPids(js)
                /\ \A m, n \in DOMAIN js : js[m].pid = js[n].pid => m = n)
              => \A m, n \in DOMAIN Append(js, e) :
                    Append(js, e)[m].pid = Append(js, e)[n].pid => m = n
<1> DEFINE t == Append(js, e)
<1>1. /\ t \in Seq(JobEntries)
      /\ Len(js) \in Nat /\ DOMAIN js = 1 .. Len(js)
      /\ DOMAIN t = 1 .. (Len(js) + 1)
      /\ \A n \in 1 .. Len(js) : t[n] = js[n]
      /\ t[Len(js) + 1] = e
  OBVIOUS
<1> HIDE DEF t
<1>2. JobPids(t) \subseteq JobPids(js) \cup {e.pid}
  BY <1>1 DEF JobPids
<1>3. JobPids(js) \cup {e.pid} \subseteq JobPids(t)
  <2>1. e.pid \in JobPids(t)
    <3>1. Len(js) + 1 \in DOMAIN t
      BY <1>1
    <3> QED
      BY <3>1, <1>1 DEF JobPids
  <2>2. \A n \in DOMAIN js : n \in DOMAIN t /\ t[n].pid = js[n].pid
    BY <1>1
  <2> QED
    BY <2>1, <2>2 DEF JobPids
<1>4. ASSUME e.pid \notin JobPids(js),
             \A m, n \in DOMAIN js : js[m].pid = js[n].pid => m = n,
             NEW m \in DOMAIN t, NEW n \in DOMAIN t, t[m].pid = t[n].pid
      PROVE  m = n
  <2>1. \A k \in DOMAIN js : js[k].pid # e.pid
    BY <1>4 DEF JobPids
  <2>2. CASE m \in DOMAIN js /\ n \in DOMAIN js
    BY <2>2, <1>1, <1>4
  <2>3. CASE m \notin DOMAIN js
    BY <2>3, <2>1, <1>1, <1>4
  <2>4. CASE n \notin DOMAIN js
    BY <2>4, <2>1, <1>1, <1>4
  <2> QED
    BY <2>2, <2>3, <2>4
<1> QED
  BY <1>1, <1>2, <1>3, <1>4 DEF t

LEMMA JobPidsType ==
    ASSUME NEW js \in Seq(JobEntries)
    PROVE  JobPids(js) \subseteq Pids
<1>1. \A n \in DOMAIN js : js[n] \in JobEntries
  BY ElementOfSeq, LenProperties
<1> QED
  BY <1>1 DEF JobPids, JobEntries

LEMMA HangUpType ==
    ASSUME proc \in [Pids -> Processes], NEW js \in Seq(JobEntries)
    PROVE  HangUp(js) \in [Pids -> Processes]
<1>1. ASSUME NEW p \in Pids PROVE Ended(proc[p].owner, SIGHUP) \in Processes
  <2>1. proc[p].owner \in {"none", "shell", "other"}
    BY DEF Processes
  <2> QED
    BY <2>1, EndedType DEF SIGHUP
<1> QED
  BY <1>1 DEF HangUp

LEMMA ExecedType ==
    ASSUME NEW r \in Processes, NEW f \in FdTables, NEW js \in Seq(JobEntries),
           NEW e, e \in Int
    PROVE  [r EXCEPT !.state = "running", !.fd = f, !.jobs = js, !.exitst = e]
              \in Processes
BY DEF Processes

(* What Ended and HangUp keep *)
LEMMA EndedFields ==
    ASSUME NEW o, NEW s
    PROVE  /\ Ended(o, s).state = "zombie" /\ Ended(o, s).owner = o
           /\ Ended(o, s).jobs = <<>>
BY DEF Ended, Absent

LEMMA AbsentFields ==
    Absent.state = "absent" /\ Absent.owner = "none" /\ Absent.jobs = <<>>
BY DEF Absent

LEMMA StrangerFields ==
    /\ Stranger.state = "running" /\ Stranger.owner = "other"
    /\ Stranger.jobs = <<>>
BY DEF Stranger, Absent

LEMMA HangUpFields ==
    ASSUME NEW js, NEW p \in Pids
    PROVE  /\ HangUp(js)[p].owner = proc[p].owner
           /\ proc[p].state # "absent" => HangUp(js)[p].state # "absent"
           /\ proc[p].state = "absent" => HangUp(js)[p].state = "absent"
           /\ HangUp(js)[p].state = proc[p].state
                \/ HangUp(js)[p].state = "zombie"
           /\ HangUp(js)[p].jobs = proc[p].jobs \/ HangUp(js)[p].jobs = <<>>
           /\ p \notin JobPids(js) => HangUp(js)[p] = proc[p]
           /\ p \in JobPids(js) /\ proc[p].state # "absent"
                /\ proc[p].state \in {"absent", "forked", "wired", "running", "zombie"}
                => HangUp(js)[p].state = "zombie"
BY EndedFields DEF HangUp, Live

-----------------------------------------------------------------------------
(* Type correctness *)

LEMMA CurType ==
    ASSUME TypeOK, pc \in Running
    PROVE  /\ Cur \in Commands /\ line \in Lists /\ i \in 1 .. Len(line)
           /\ Len(line) \in Nat
<1>1. i \in Nat \ {0} /\ i <= Len(line)
  BY DEF TypeOK
<1>2. line \in Seq(Commands) /\ Len(line) \in Nat
  BY ListsAssumption DEF TypeOK
<1>3. i \in 1 .. Len(line)
  BY <1>1, <1>2
<1>4. line # <<>>
  BY <1>3
<1> QED
  BY <1>2, <1>3, <1>4, ElementOfSeq DEF Cur, TypeOK

(* Where Advance and Leave go, and what they leave well typed *)
LEMMA AdvanceTypes ==
    ASSUME TypeOK, pc \in Running, Advance \/ Leave
    PROVE  /\ pc' \in {"prompt", "cmd"}
           /\ line' \in Lists \cup {<<>>}
           /\ i' \in Nat \ {0}
           /\ IF pc' \in Running THEN i' <= Len(line') ELSE line' = <<>>
           /\ pipeFd' \in FdPairs
<1>1. /\ line \in Lists /\ i \in 1 .. Len(line) /\ Len(line) \in Nat
  BY CurType
<1>2. NoPipe \in FdPairs
  BY BasicTypes
<1>3. CASE Leave
  BY <1>2, <1>3 DEF Leave, Running
<1>4. CASE Advance
  <2>1. CASE i = Len(line) /\ Leave
    BY <1>2, <2>1 DEF Leave, Running
  <2>2. CASE i < Len(line) /\ pc' = "cmd" /\ i' = i + 1 /\ pipeFd' = NoPipe
             /\ UNCHANGED line
    BY <1>1, <1>2, <2>2 DEF Running
  <2> QED
    BY <1>4, <2>1, <2>2 DEF Advance
<1> QED
  BY <1>3, <1>4

LEMMA ExitPshTypes ==
    ASSUME TypeOK, NEW code \in Int, ExitPsh(code)
    PROVE  TypeOK'
<1>1. HangUp(jobs) \in [Pids -> Processes]
  BY HangUpType DEF TypeOK
<1>2. NoFds \in FdTables
  BY BasicTypes
<1>3. <<>> \in Seq(JobEntries) /\ code % 256 \in Int
  OBVIOUS
<1> QED
  BY <1>1, <1>2, <1>3 DEF TypeOK, ExitPsh, Gone, Running

LEMMA BackedUpTypes ==
    ASSUME NEW f \in FdTables, NEW d \in Fds, NEW g \in BackedUp(f, d)
    PROVE  g \in FdTables
BY BasicTypes DEF BackedUp, FdTables

LEMMA AfterBuiltinTypes ==
    ASSUME TypeOK, Cur \in Commands, AfterBuiltin(fds')
    PROVE  fds' \in FdTables
<1>1. fds \in FdTables /\ Cur.redir \in Redirects /\ Cur.redir.lhs \in Fds
  BY DEF TypeOK, Commands, Redirects
<1>2. CASE Cur.redir.kind = "NONE" /\ fds' = fds
  BY <1>1, <1>2
<1>3. ASSUME NEW g \in BackedUp(fds, Cur.redir.lhs),
             fds' = IF Cur.exe = "exec" THEN Redirected(g, Cur.redir) ELSE fds
      PROVE  fds' \in FdTables
  BY <1>1, <1>3, BackedUpTypes, RedirectedType
<1> QED
  BY <1>2, <1>3 DEF AfterBuiltin

LEMMA TypeOKInit == Init => TypeOK
<1> SUFFICES ASSUME Init PROVE TypeOK
  OBVIOUS
<1>1. <<>> \in Seq(JobEntries)
  OBVIOUS
<1> QED
  BY <1>1, BasicTypes, BoundsAssumption DEF Init, TypeOK, Running, Gone

(* Steps of the shell that stay in the shell *)
LEMMA TypeOKShell ==
    ASSUME TypeOK,
           ReadLine \/ ReadEof \/ DoRun \/ ExecedEnds
    PROVE  TypeOK'
<1> USE DEF Running, Gone
<1>0. \A c \in Int : ExitStatus(c) \in Int
  BY ExitStatusType
<1>1. CASE ReadLine
  <2>1. PICK l \in Lists : line' = l
    BY <1>1 DEF ReadLine
  <2>2. l \in Seq(Commands) /\ l # <<>> /\ Len(l) \in Nat /\ Len(l) >= 1
    BY ListsAssumption, EmptySeq
  <2>3. lines + 1 \in 0 .. MaxLines
    BY <1>1, BoundsAssumption DEF ReadLine, TypeOK
  <2> QED
    BY <1>1, <2>1, <2>2, <2>3, BasicTypes DEF ReadLine, TypeOK
<1>2. CASE ReadEof
  BY <1>2, ExitPshTypes DEF ReadEof, TypeOK
<1>3. CASE BuiltinSkipped
  BY <1>3, AdvanceTypes DEF BuiltinSkipped, TypeOK
<1>4. CASE BuiltinCrashes
  BY <1>4, BasicTypes, EmptySeq DEF BuiltinCrashes, TypeOK
<1>5. CASE BuiltinLosesFd
  <2>1. PICK g \in BackedUp(fds, Cur.redir.lhs) :
           fds' = [g EXCEPT ![Cur.redir.lhs] = Closed]
    BY <1>5 DEF BuiltinLosesFd
  <2>2. Cur \in Commands
    BY <1>5, CurType DEF BuiltinLosesFd
  <2>3. Cur.redir.lhs \in Fds
    BY <2>2 DEF Commands, Redirects
  <2>4. g \in FdTables
    BY <2>3, BackedUpTypes DEF TypeOK
  <2>5. fds' \in FdTables
    BY <2>1, <2>4, BasicTypes DEF FdTables
  <2> QED
    BY <1>5, <2>5, AdvanceTypes DEF BuiltinLosesFd, TypeOK
<1>6. CASE BuiltinReturns
  <2>1. fds' \in FdTables
    BY <1>6, CurType, AfterBuiltinTypes DEF BuiltinReturns
  <2>2. status' \in Int
    BY <1>6 DEF BuiltinReturns, BuiltinCodes
  <2> QED
    BY <1>6, <2>1, <2>2, AdvanceTypes DEF BuiltinReturns, TypeOK
<1>7. CASE BuiltinExec
  <2>1. fds' \in FdTables
    BY <1>7, CurType, AfterBuiltinTypes DEF BuiltinExec
  <2> QED
    BY <1>7, <2>1, EmptySeq DEF BuiltinExec, TypeOK
<1>8. CASE BuiltinExit
  <2>1. PICK code \in {status} \cup ExitCodes : ExitPsh(code)
    BY <1>8 DEF BuiltinExit
  <2>2. code \in Int
    BY DEF TypeOK, ExitCodes
  <2> QED
    BY <2>1, <2>2, ExitPshTypes
<1>9. CASE MakePipe
  <2>1. PICK k \in PipeIds, r \in Fds, w \in Fds :
           /\ fds' = [fds EXCEPT ![r] = RdEnd(k), ![w] = WrEnd(k)]
           /\ pipeFd' = [rd |-> r, wr |-> w]
    BY <1>9 DEF MakePipe
  <2>2. RdEnd(k) \in FileObjs /\ WrEnd(k) \in FileObjs
    BY DEF RdEnd, WrEnd, FileObjs
  <2>3. fds' \in FdTables /\ pipeFd' \in FdPairs
    BY <2>1, <2>2 DEF TypeOK, FdTables, FdPairs
  <2> QED
    BY <1>9, <2>3 DEF MakePipe, TypeOK
<1>10. CASE PipeFails
  BY <1>10, AdvanceTypes DEF PipeFails, TypeOK
<1>11. CASE Fork
  <2>1. PICK p \in Pids : proc' = [proc EXCEPT ![p] = Child] /\ pid' = p
    BY <1>11 DEF Fork
  <2>2. Cur \in Commands
    BY <1>11, CurType DEF Fork, AboutToFork
  <2>3. [in |-> lastPipe.rd, out |-> pipeFd.wr,
         close1 |-> pipeFd.rd, close2 |-> lastPipe.wr] \in PipeArgs
    BY DEF TypeOK, FdPairs, PipeArgs
  <2>4. Child \in Processes
    BY <2>2, <2>3, BasicTypes DEF TypeOK, Child, Absent, Processes
  <2>5. proc' \in [Pids -> Processes]
    BY <2>1, <2>4 DEF TypeOK
  <2> QED
    BY <1>11, <2>1, <2>5 DEF Fork, AboutToFork, TypeOK
<1>12. CASE ForkFails
  BY <1>12 DEF ForkFails, AboutToFork, TypeOK
<1>13. CASE ParentAfterFork
  <2>1. fds' \in FdTables /\ lastPipe' \in FdPairs
    BY <1>13, CloseFdType DEF ParentAfterFork, TypeOK, FdPairs
  <2>2. CASE pid = NoPid /\ Leave /\ UNCHANGED jobs
    BY <1>13, <2>1, <2>2, AdvanceTypes DEF ParentAfterFork, TypeOK
  <2>3. CASE pid # NoPid /\ Async(Cur) /\ JobsAdd /\ Advance
    <3>1. [pid |-> pid, type |-> Cur.type] \in JobEntries
      BY <2>3 DEF TypeOK, JobEntries, Async
    <3>2. jobs' \in Seq(JobEntries)
      BY <2>3, <3>1, JobPidsAppend DEF TypeOK, JobsAdd
    <3> QED
      BY <1>13, <2>1, <2>3, <3>2, AdvanceTypes DEF ParentAfterFork, TypeOK
  <2>4. CASE pid # NoPid /\ ~Async(Cur) /\ pc' = "wait"
             /\ UNCHANGED <<line, i, pipeFd, jobs>>
    BY <1>13, <2>1, <2>4 DEF ParentAfterFork, TypeOK
  <2> QED
    BY <1>13, <2>2, <2>3, <2>4 DEF ParentAfterFork
<1>14. CASE WaitForeground
  <2>1. pid \in Pids
    BY <1>14 DEF WaitForeground, TypeOK
  <2>2. status' \in Int /\ proc' \in [Pids -> Processes]
    BY <1>14, <2>1, BasicTypes DEF WaitForeground, TypeOK, Processes
  <2> QED
    BY <1>14, <2>2, AdvanceTypes DEF WaitForeground, TypeOK
<1>15. CASE ExecedEnds
  BY <1>15, BasicTypes DEF ExecedEnds, TypeOK
<1> QED
  BY <1>1, <1>2, <1>3, <1>4, <1>5, <1>6, <1>7, <1>8, <1>9, <1>10, <1>11,
     <1>12, <1>13, <1>14, <1>15 DEF DoRun

LEMMA ChildEndsType ==
    ASSUME TypeOK, NEW p \in Pids, NEW code \in Int, ChildEnds(p, code)
    PROVE  TypeOK'
<1>1. Ended(proc[p].owner, ExitStatus(code)) \in Processes
  <2>1. proc[p].owner \in {"none", "shell", "other"}
    BY DEF TypeOK, Processes
  <2> QED
    BY <2>1, EndedType, ExitStatusType
<1>2. proc' \in [Pids -> Processes]
  BY <1>1 DEF ChildEnds, TypeOK
<1> QED
  BY <1>2 DEF ChildEnds, TypeOK, shellVars

(* Steps of the other processes *)
LEMMA TypeOKProcess ==
    ASSUME TypeOK, NEW p \in Pids,
           ChildStep(p) \/ ProgramEnds(p) \/ Environment(p)
    PROVE  TypeOK'
<1>0. /\ proc[p] \in Processes
      /\ proc[p].owner \in {"none", "shell", "other"}
      /\ proc[p].fd \in FdTables /\ proc[p].cmd.redir \in Redirects
      /\ proc[p].args \in PipeArgs /\ proc[p].jobs \in Seq(JobEntries)
      /\ proc[p].exitst \in Int
  BY DEF TypeOK, Processes, Commands
<1>1. CASE ChildWires(p)
  <2>1. Wired(p) \in FdTables
    BY <1>0, MoveFdType, CloseFdType, BasicTypes DEF Wired, PipeArgs
  <2>2. NoArgs \in PipeArgs
    BY BasicTypes DEF NoArgs, PipeArgs
  <2>3. proc' \in [Pids -> Processes]
    BY <1>0, <1>1, <2>1, <2>2 DEF ChildWires, TypeOK, Processes
  <2> QED
    BY <1>1, <2>3 DEF ChildWires, TypeOK, shellVars
<1>2. CASE ChildRedirectFails(p)
  BY <1>2, ChildEndsType DEF ChildRedirectFails
<1>3. CASE ChildBuiltin(p)
  BY <1>3, ChildEndsType DEF ChildBuiltin, BuiltinCodes
<1>4. CASE ChildExit(p)
  <2>1. PICK code \in {proc[p].exitst} \cup ExitCodes :
           proc' = [HangUp(proc[p].jobs) EXCEPT
                        ![p] = Ended(proc[p].owner, ExitStatus(code))]
    BY <1>4 DEF ChildExit
  <2>2. code \in Int
    BY <1>0 DEF ExitCodes
  <2>3. Ended(proc[p].owner, ExitStatus(code)) \in Processes
    BY <1>0, <2>2, EndedType, ExitStatusType
  <2>4. HangUp(proc[p].jobs) \in [Pids -> Processes]
    BY <1>0, HangUpType DEF TypeOK
  <2>5. proc' \in [Pids -> Processes]
    BY <2>1, <2>3, <2>4
  <2> QED
    BY <1>4, <2>5 DEF ChildExit, TypeOK, shellVars
<1>5. CASE ChildExecs(p)
  <2>0. 0 \in Int
    OBVIOUS
  <2>1. Redirected(proc[p].fd, proc[p].cmd.redir) \in FdTables
    BY <1>0, RedirectedType
  <2>2. <<>> \in Seq(JobEntries)
    OBVIOUS
  <2>3. [proc[p] EXCEPT !.state = "running",
                       !.fd = Redirected(proc[p].fd, proc[p].cmd.redir),
                       !.jobs = <<>>, !.exitst = 0] \in Processes
    BY <1>0, <2>0, <2>1, <2>2, ExecedType, Zenon
  <2>4. proc' \in [Pids -> Processes]
    BY <1>5, <2>3 DEF ChildExecs, TypeOK
  <2> QED
    BY <1>5, <2>4 DEF ChildExecs, TypeOK, shellVars
<1>6. CASE ChildExecFails(p)
  BY <1>6, ChildEndsType DEF ChildExecFails
<1>7. CASE JobEnds(p)
  BY <1>7, ChildEndsType DEF JobEnds, ExitCodes
<1>8. CASE ReaderEnds(p)
  BY <1>8, ChildEndsType DEF ReaderEnds
<1>9. CASE WriterEnds(p)
  <2>1. proc' \in [Pids -> Processes]
    BY <1>9, EndedType DEF WriterEnds, TypeOK, SIGPIPE
  <2> QED
    BY <1>9, <2>1 DEF WriterEnds, TypeOK, shellVars
<1>10. CASE OtherStarts(p)
  <2>2. proc' \in [Pids -> Processes]
    BY <1>10, StrangerType DEF OtherStarts, TypeOK
  <2> QED
    BY <1>10, <2>2 DEF OtherStarts, TypeOK, shellVars
<1>11. CASE OtherEnds(p) \/ OrphanReaped(p)
  <2>1. proc' \in [Pids -> Processes]
    BY <1>11, BasicTypes DEF OtherEnds, OrphanReaped, TypeOK
  <2> QED
    BY <1>11, <2>1 DEF OtherEnds, OrphanReaped, TypeOK, shellVars
<1> QED
  BY <1>1, <1>2, <1>3, <1>4, <1>5, <1>6, <1>7, <1>8, <1>9, <1>10, <1>11
     DEF ChildStep, ProgramEnds, Environment

LEMMA TypeOKStep == TypeOK /\ [Next]_vars => TypeOK'
<1> SUFFICES ASSUME TypeOK, [Next]_vars PROVE TypeOK'
  OBVIOUS
<1>1. CASE UNCHANGED vars
  BY <1>1 DEF vars, TypeOK, Running, Gone
<1>2. CASE Next
  BY <1>2, TypeOKShell, TypeOKProcess DEF Next
<1> QED
  BY <1>1, <1>2

(* Every variable keeps its type; in particular the shell waits only for a *)
(* process it has created.                                                 *)
THEOREM TypeCorrect == Spec => []TypeOK
<1> QED
  BY TypeOKInit, TypeOKStep, PTL DEF Spec

-----------------------------------------------------------------------------
(* The job list and the children *)

LEMMA ChildrenInvInit == Init => ChildrenInv
<1> SUFFICES ASSUME Init PROVE ChildrenInv
  OBVIOUS
<1>1. TypeOK
  BY TypeOKInit
<1>2. \A p \in Pids : proc[p] = Absent
  BY DEF Init
<1>3. JobPids(jobs) = {} /\ DOMAIN jobs = {} /\ Foreground = {}
  BY DEF Init, JobPids, Foreground
<1>4. JobPids(<<>>) = {}
  BY DEF JobPids
<1> QED
  BY <1>1, <1>2, <1>3, <1>4, AbsentFields
     DEF ChildrenInv, JobsAreTheChildren, OwnersOK, CopiesAreJobs

(* A step that leaves the process table and the job list alone *)
LEMMA QuietStep ==
    ASSUME ChildrenInv, TypeOK', UNCHANGED <<proc, jobs>>,
           ShellAlive' => ShellAlive /\ Foreground' = Foreground
    PROVE  ChildrenInv'
<1>1. JobsAreTheChildren'
  BY DEF ChildrenInv, JobsAreTheChildren
<1>2. OwnersOK' /\ CopiesAreJobs'
  BY DEF ChildrenInv, OwnersOK, CopiesAreJobs
<1> QED
  BY <1>1, <1>2 DEF ChildrenInv

(* A step after which the shell is gone: only the table still matters *)
LEMMA GoneStep ==
    ASSUME ChildrenInv, TypeOK', ~ShellAlive',
           proc' = proc \/ proc' = HangUp(jobs)
    PROVE  ChildrenInv'
<1>1. OwnersOK'
  <2>1. CASE proc' = proc
    BY <2>1 DEF ChildrenInv, OwnersOK
  <2>2. CASE proc' = HangUp(jobs)
    BY <2>2, HangUpFields DEF ChildrenInv, OwnersOK
  <2> QED
    BY <2>1, <2>2
<1> QED
  BY <1>1 DEF ChildrenInv, JobsAreTheChildren, CopiesAreJobs

(* A step of a process that neither creates a process nor removes one *)
LEMMA SameOwnersStep ==
    ASSUME ChildrenInv, TypeOK', UNCHANGED <<pc, shellVars>>,
           \A p \in Pids :
             /\ proc'[p].owner = proc[p].owner
             /\ proc'[p].state = "absent" <=> proc[p].state = "absent"
             /\ proc'[p].state \in {"forked", "wired"} => proc[p].owner = "shell"
             /\ ShellAlive /\ proc[p].owner = "other" => proc'[p].state = "running"
             /\ proc'[p].jobs = proc[p].jobs \/ proc'[p].jobs = <<>>
    PROVE  ChildrenInv'
<1>1. JobsAreTheChildren'
  <2>1. Foreground' = Foreground /\ JobPids(jobs)' = JobPids(jobs)
    BY DEF shellVars, Foreground, JobPids
  <2>2. ShellAlive' = ShellAlive
    BY DEF ShellAlive
  <2>3. {p \in Pids : proc[p].owner = "shell"}' = {p \in Pids : proc[p].owner = "shell"}
    OBVIOUS
  <2>4. JobPids(jobs) \cup Foreground \subseteq Pids
    <3>1. JobPids(jobs) \subseteq Pids
      BY JobPidsType DEF ChildrenInv, TypeOK
    <3> QED
      BY <3>1 DEF ChildrenInv, TypeOK, Foreground
  <2> QED
    BY <2>1, <2>2, <2>3, <2>4 DEF ChildrenInv, JobsAreTheChildren, shellVars
<1>2. OwnersOK'
  BY DEF ChildrenInv, OwnersOK, ShellAlive
<1>3. CopiesAreJobs'
  <2>1. JobPids(<<>>) = {}
    BY DEF JobPids
  <2> QED
    BY <2>1 DEF ChildrenInv, CopiesAreJobs, ShellAlive, shellVars
<1> QED
  BY <1>1, <1>2, <1>3 DEF ChildrenInv

(* Advance and Leave end with no foreground child. *)
LEMMA ProcessesKeepShell ==
    ASSUME NEW p \in Pids, ChildStep(p) \/ ProgramEnds(p) \/ Environment(p)
    PROVE  UNCHANGED <<pc, shellVars>>
<1>1. CASE ChildStep(p)
  BY <1>1 DEF ChildStep, ChildWires, ChildRedirectFails, ChildBuiltin,
              ChildExit, ChildExecs, ChildExecFails, ChildEnds
<1>2. CASE ProgramEnds(p) \/ Environment(p)
  BY <1>2 DEF ProgramEnds, Environment, JobEnds, ReaderEnds, WriterEnds,
              ChildEnds, OtherStarts, OtherEnds, OrphanReaped
<1> QED
  BY <1>1, <1>2

LEMMA AdvanceLeavesNone ==
    ASSUME Advance \/ Leave
    PROVE  ShellAlive' /\ Foreground' = {}
BY DEF Advance, Leave, ShellAlive, Gone, Foreground

LEMMA ChildrenInvShell ==
    ASSUME ChildrenInv, TypeOK',
           ReadLine \/ ReadEof \/ DoRun \/ ExecedEnds
    PROVE  ChildrenInv'
<1> USE DEF Gone
<1>1. CASE ReadLine
  BY <1>1, QuietStep DEF ReadLine, ShellAlive, Foreground
<1>2. ASSUME NEW code, ExitPsh(code) PROVE ChildrenInv'
  BY <1>2, GoneStep DEF ExitPsh, ShellAlive
<1>3. CASE ReadEof \/ BuiltinExit
  BY <1>2, <1>3 DEF ReadEof, BuiltinExit
<1>4. CASE BuiltinSkipped \/ BuiltinLosesFd \/ BuiltinReturns \/ PipeFails
  <2>1. pc = "cmd" /\ UNCHANGED <<proc, jobs>> /\ Advance
    BY <1>4 DEF BuiltinSkipped, BuiltinLosesFd, BuiltinReturns, PipeFails
  <2> QED
    BY <2>1, AdvanceLeavesNone, QuietStep DEF ShellAlive, Foreground
<1>5. CASE BuiltinCrashes \/ BuiltinExec \/ ExecedEnds
  BY <1>5, GoneStep DEF BuiltinCrashes, BuiltinExec, ExecedEnds, ShellAlive
<1>6. CASE MakePipe
  BY <1>6, QuietStep DEF MakePipe, ShellAlive, Foreground
<1>7. CASE ForkFails
  BY <1>7, QuietStep DEF ForkFails, AboutToFork, ShellAlive, Foreground
<1>8. CASE Fork
  <2>1. PICK p \in Pids :
           proc[p].state = "absent" /\ proc' = [proc EXCEPT ![p] = Child] /\ pid' = p
    BY <1>8 DEF Fork
  <2>2. /\ Child.state = "forked" /\ Child.owner = "shell" /\ Child.jobs = jobs
    BY DEF Child, Absent
  <2>3. ShellAlive /\ ShellAlive' /\ Foreground = {} /\ jobs' = jobs
    BY <1>8 DEF Fork, AboutToFork, ShellAlive, Foreground
  <2>4. Foreground' = {p}
    BY <1>8, <2>1, PidsAssumption DEF Fork, Foreground
  <2>5. proc' = [q \in Pids |-> IF q = p THEN Child ELSE proc[q]]
    BY <2>1 DEF ChildrenInv, TypeOK
  <2>6. p \notin JobPids(jobs)
    BY <2>1, <2>3 DEF ChildrenInv, JobsAreTheChildren, OwnersOK
  <2>7. JobPids(jobs) \subseteq Pids
    BY JobPidsType DEF ChildrenInv, TypeOK
  <2>8. JobsAreTheChildren'
    BY <2>2, <2>3, <2>4, <2>5, <2>6, <2>7
       DEF ChildrenInv, JobsAreTheChildren, JobPids
  <2>9. OwnersOK'
    BY <2>2, <2>3, <2>5 DEF ChildrenInv, OwnersOK
  <2>10. CopiesAreJobs'
    BY <2>2, <2>3, <2>5 DEF ChildrenInv, CopiesAreJobs
  <2> QED
    BY <2>8, <2>9, <2>10 DEF ChildrenInv
<1>9. CASE ParentAfterFork
  <2>0. ShellAlive /\ proc' = proc
    BY <1>9 DEF ParentAfterFork, ShellAlive
  <2>1. CASE pid = NoPid /\ Leave /\ UNCHANGED jobs
    BY <2>0, <2>1, AdvanceLeavesNone, QuietStep DEF Foreground
  <2>2. CASE pid # NoPid /\ ~Async(Cur) /\ pc' = "wait"
             /\ UNCHANGED <<line, i, pipeFd, jobs>>
    BY <1>9, <2>0, <2>2, QuietStep DEF Foreground, ParentAfterFork
  <2>3. CASE pid # NoPid /\ Async(Cur) /\ JobsAdd /\ Advance
    <3> DEFINE e == [pid |-> pid, type |-> Cur.type]
    <3>1. e \in JobEntries /\ e.pid = pid /\ jobs \in Seq(JobEntries)
      BY <2>3 DEF ChildrenInv, TypeOK, JobEntries, Async
    <3>2. jobs' = Append(jobs, e)
      BY <2>3 DEF JobsAdd
    <3> HIDE DEF e
    <3>3. Foreground = {pid} /\ Foreground' = {} /\ ShellAlive'
      BY <1>9, <2>3, AdvanceLeavesNone DEF Foreground, ParentAfterFork
    <3>4. pid \notin JobPids(jobs)
      BY <2>0, <3>3 DEF ChildrenInv, JobsAreTheChildren
    <3>5. /\ JobPids(jobs)' = JobPids(jobs) \cup {pid}
          /\ \A m, n \in DOMAIN jobs' : jobs'[m].pid = jobs'[n].pid => m = n
      <4>1. \A m, n \in DOMAIN jobs : jobs[m].pid = jobs[n].pid => m = n
        BY <2>0 DEF ChildrenInv, JobsAreTheChildren
      <4>2. JobPids(jobs)' = JobPids(Append(jobs, e))
        BY <3>2 DEF JobPids
      <4> QED
        BY <3>1, <3>2, <3>4, <4>1, <4>2, JobPidsAppend
    <3>6. JobsAreTheChildren'
      BY <2>0, <3>3, <3>4, <3>5 DEF ChildrenInv, JobsAreTheChildren
    <3>7. OwnersOK'
      BY <2>0 DEF ChildrenInv, OwnersOK
    <3>8. CopiesAreJobs'
      BY <2>0, <3>5 DEF ChildrenInv, CopiesAreJobs, JobPids
    <3> QED
      BY <3>6, <3>7, <3>8 DEF ChildrenInv
  <2> QED
    BY <1>9, <2>1, <2>2, <2>3 DEF ParentAfterFork
<1>10. CASE WaitForeground
  <2>1. pid \in Pids /\ pid # NoPid
    BY <1>10, PidsAssumption DEF WaitForeground, ChildrenInv, TypeOK
  <2>2. /\ ShellAlive /\ ShellAlive' /\ Foreground = {pid} /\ Foreground' = {}
        /\ jobs' = jobs
    BY <1>10, <2>1, AdvanceLeavesNone DEF WaitForeground, ShellAlive, Foreground
  <2>3. proc' = [q \in Pids |-> IF q = pid THEN Absent ELSE proc[q]]
    BY <1>10 DEF WaitForeground, ChildrenInv, TypeOK
  <2>4. JobsAreTheChildren'
    BY <2>1, <2>2, <2>3, AbsentFields DEF ChildrenInv, JobsAreTheChildren, JobPids
  <2>5. OwnersOK'
    BY <2>2, <2>3, AbsentFields DEF ChildrenInv, OwnersOK
  <2>6. CopiesAreJobs'
    <3>1. JobPids(<<>>) = {}
      BY DEF JobPids
    <3> QED
      BY <3>1, <2>2, <2>3, AbsentFields DEF ChildrenInv, CopiesAreJobs
  <2> QED
    BY <2>4, <2>5, <2>6 DEF ChildrenInv
<1> QED
  BY <1>1, <1>3, <1>4, <1>5, <1>6, <1>7, <1>8, <1>9, <1>10 DEF DoRun

LEMMA ChildrenInvProcess ==
    ASSUME ChildrenInv, TypeOK', NEW p \in Pids,
           ChildStep(p) \/ ProgramEnds(p) \/ Environment(p)
    PROVE  ChildrenInv'
<1>0. /\ proc \in [Pids -> Processes]
      /\ \A q \in Pids :
            proc[q].state \in {"absent", "forked", "wired", "running", "zombie"}
  BY DEF ChildrenInv, TypeOK, Processes
<1>1. ASSUME NEW st, proc[p].owner = "shell", proc[p].state # "absent",
             proc' = [proc EXCEPT ![p] = Ended(proc[p].owner, st)],
             UNCHANGED <<pc, shellVars>>
      PROVE  ChildrenInv'
  BY <1>0, <1>1, EndedFields, SameOwnersStep DEF ChildrenInv, OwnersOK
<1>2. CASE ChildWires(p)
  BY <1>0, <1>2, SameOwnersStep DEF ChildWires, ChildrenInv, OwnersOK, Processes
<1>3. CASE ChildRedirectFails(p) \/ ChildBuiltin(p) \/ ChildExecFails(p)
  <2>1. proc[p].state = "wired"
    BY <1>3 DEF ChildRedirectFails, ChildBuiltin, ChildExecFails, Ready
  <2>2. PICK c : ChildEnds(p, c)
    BY <1>3 DEF ChildRedirectFails, ChildBuiltin, ChildExecFails
  <2> QED
    BY <1>1, <2>1, <2>2 DEF ChildEnds, ChildrenInv, OwnersOK
<1>4. CASE ChildExit(p)
  <2> DEFINE h == HangUp(proc[p].jobs)
  <2>1. PICK st : proc' = [h EXCEPT ![p] = Ended(proc[p].owner, st)]
    BY <1>4 DEF ChildExit
  <2>2. proc[p].state = "wired" /\ proc[p].owner = "shell"
        /\ UNCHANGED <<pc, shellVars>>
    BY <1>4 DEF ChildExit, Ready, ChildrenInv, OwnersOK
  <2>3. h = [q \in Pids |-> h[q]]
    BY DEF HangUp
  <2>4. proc'[p].state = "zombie" /\ proc'[p].owner = "shell" /\ proc'[p].jobs = <<>>
    BY <2>1, <2>2, <2>3, EndedFields
  <2>5. ASSUME NEW q \in Pids, q # p
        PROVE  proc'[q] = h[q]
    BY <2>1, <2>3, <2>5
  <2>6. ASSUME NEW q \in Pids, ShellAlive, proc[q].owner = "other"
        PROVE  q \notin JobPids(proc[p].jobs)
    BY <2>6 DEF ChildrenInv, JobsAreTheChildren, CopiesAreJobs
  <2> HIDE DEF h
  <2>7. ASSUME NEW q \in Pids
        PROVE  /\ proc'[q].owner = proc[q].owner
               /\ proc'[q].state = "absent" <=> proc[q].state = "absent"
               /\ proc'[q].state \in {"forked", "wired"} => proc[q].owner = "shell"
               /\ ShellAlive /\ proc[q].owner = "other" => proc'[q].state = "running"
               /\ proc'[q].jobs = proc[q].jobs \/ proc'[q].jobs = <<>>
    <3>1. CASE q = p
      BY <3>1, <2>2, <2>4
    <3>2. CASE q # p
      BY <3>2, <2>5, <2>6, HangUpFields DEF h, ChildrenInv, OwnersOK
    <3> QED
      BY <3>1, <3>2
  <2> QED
    BY <2>2, <2>7, SameOwnersStep
<1>5. CASE ChildExecs(p)
  BY <1>0, <1>5, SameOwnersStep
     DEF ChildExecs, Ready, ChildrenInv, OwnersOK, Processes
<1>6. CASE ProgramEnds(p)
  <2>1. proc[p].state = "running" /\ proc[p].owner = "shell"
    BY <1>6 DEF ProgramEnds, JobEnds, ReaderEnds, WriterEnds, IsRunning
  <2>2. PICK st : /\ proc' = [proc EXCEPT ![p] = Ended(proc[p].owner, st)]
                  /\ UNCHANGED <<pc, shellVars>>
    BY <1>6, <2>1 DEF ProgramEnds, JobEnds, ReaderEnds, WriterEnds, ChildEnds
  <2> QED
    BY <1>1, <2>1, <2>2
<1>7. CASE OtherStarts(p) \/ OtherEnds(p)
  <2> DEFINE new == IF OtherStarts(p) THEN Stranger ELSE Absent
  <2>1. /\ proc' = [proc EXCEPT ![p] = new]
        /\ \/ new.owner = "other" /\ new.state = "running" /\ new.jobs = <<>>
           \/ new = Absent
    <3>1. CASE OtherStarts(p)
      BY <3>1, StrangerFields DEF OtherStarts
    <3>2. CASE ~OtherStarts(p)
      BY <1>7, <3>2 DEF OtherEnds
    <3> QED
      BY <3>1, <3>2
  <2> HIDE DEF new
  <2>2. UNCHANGED <<pc, shellVars>> /\ ShellAlive' = ShellAlive
        /\ Foreground' = Foreground /\ JobPids(jobs)' = JobPids(jobs)
        /\ jobs' = jobs
    BY <1>7 DEF OtherStarts, OtherEnds, shellVars, ShellAlive, Foreground, JobPids
  <2>3. proc[p].owner # "shell" /\ new.owner # "shell"
    BY <1>7, <2>1, AbsentFields DEF OtherStarts, OtherEnds, ChildrenInv, OwnersOK
  <2>4. proc' = [q \in Pids |-> IF q = p THEN new ELSE proc[q]]
    BY <2>1, <1>0
  <2>5. JobsAreTheChildren'
    BY <2>2, <2>3, <2>4 DEF ChildrenInv, JobsAreTheChildren
  <2>6. OwnersOK'
    BY <2>1, <2>2, <2>4, AbsentFields DEF ChildrenInv, OwnersOK
  <2>7. CopiesAreJobs'
    <3>1. JobPids(<<>>) = {}
      BY DEF JobPids
    <3> QED
      BY <2>1, <2>2, <2>4, <3>1, AbsentFields DEF ChildrenInv, CopiesAreJobs
  <2> QED
    BY <2>5, <2>6, <2>7 DEF ChildrenInv
<1>8. CASE OrphanReaped(p)
  <2>1. ~ShellAlive /\ ~ShellAlive' /\ proc' = [proc EXCEPT ![p] = Absent]
    BY <1>8 DEF OrphanReaped, ShellAlive
  <2>2. OwnersOK'
    BY <1>0, <2>1, AbsentFields DEF ChildrenInv, OwnersOK
  <2> QED
    BY <2>1, <2>2 DEF ChildrenInv, JobsAreTheChildren, CopiesAreJobs
<1> QED
  BY <1>2, <1>3, <1>4, <1>5, <1>6, <1>7, <1>8 DEF ChildStep, Environment

LEMMA ChildrenInvStep == ChildrenInv /\ [Next]_vars => ChildrenInv'
<1> SUFFICES ASSUME ChildrenInv, [Next]_vars PROVE ChildrenInv'
  OBVIOUS
<1>1. TypeOK'
  BY TypeOKStep DEF ChildrenInv
<1>2. CASE UNCHANGED vars
  BY <1>1, <1>2, QuietStep DEF vars, ShellAlive, Foreground
<1>3. CASE Next
  BY <1>1, <1>3, ChildrenInvShell, ChildrenInvProcess DEF Next
<1> QED
  BY <1>2, <1>3

(* The job list and the foreground child are exactly the children that     *)
(* were not reaped, each listed once.                                      *)
THEOREM JobsCorrect == Spec => []JobsAreTheChildren
<1>1. Spec => []ChildrenInv
  BY ChildrenInvInit, ChildrenInvStep, PTL DEF Spec
<1>2. ChildrenInv => JobsAreTheChildren
  BY DEF ChildrenInv
<1> QED
  BY <1>1, <1>2, PTL

(* No hang-up, from the shell or from a child, hits a stranger. *)
THEOREM HangUpsHitChildren == Spec => NoStrangerHungUp
<1>1. Spec => []ChildrenInv
  BY ChildrenInvInit, ChildrenInvStep, PTL DEF Spec
<1>2. ASSUME ChildrenInv, [Next]_vars, ShellAlive, NEW p \in Pids,
             proc[p].owner = "other"
      PROVE  proc'[p].state # "zombie"
  <2>0. proc \in [Pids -> Processes] /\ proc[p].state = "running"
    BY <1>2 DEF ChildrenInv, OwnersOK, TypeOK
  <2>1. p \notin JobPids(jobs)
    BY <1>2 DEF ChildrenInv, JobsAreTheChildren
  <2>2. HangUp(jobs)[p] = proc[p]
    BY <2>1, HangUpFields
  <2>3. CASE UNCHANGED proc
    BY <2>0, <2>3
  <2>4. CASE proc' = HangUp(jobs)
    BY <2>0, <2>2, <2>4
  <2>5. CASE Fork \/ WaitForeground
    <3>1. CASE Fork
      <4>1. PICK q \in Pids : proc' = [proc EXCEPT ![q] = Child]
        BY <3>1 DEF Fork
      <4>2. Child.state = "forked"
        BY DEF Child, Absent
      <4> QED
        BY <2>0, <4>1, <4>2
    <3>2. CASE WaitForeground
      <4>1. proc' = [proc EXCEPT ![pid] = Absent]
        BY <3>2 DEF WaitForeground
      <4> QED
        BY <2>0, <4>1, AbsentFields
    <3> QED
      BY <2>5, <3>1, <3>2
  <2>6. ASSUME NEW q \in Pids, ChildStep(q) \/ ProgramEnds(q)
        PROVE  proc'[p].state # "zombie"
    <3>1. q # p
      BY <2>6, <1>2, <2>0
         DEF ChildStep, ProgramEnds, ChildWires, ChildRedirectFails, ChildBuiltin,
             ChildExit, ChildExecs, ChildExecFails, Ready, JobEnds, ReaderEnds,
             WriterEnds, IsRunning
    <3>2. CASE ChildExit(q)
      <4>1. p \notin JobPids(proc[q].jobs)
        BY <1>2, <2>1 DEF ChildrenInv, CopiesAreJobs
      <4>2. HangUp(proc[q].jobs)[p] = proc[p]
        BY <4>1, HangUpFields
      <4>3. proc'[p] = HangUp(proc[q].jobs)[p]
        BY <3>1, <3>2 DEF ChildExit, HangUp
      <4> QED
        BY <2>0, <4>2, <4>3
    <3>3. CASE ~ChildExit(q)
      <4>1. proc'[p] = proc[p]
        BY <2>0, <2>6, <3>1, <3>3
           DEF ChildStep, ProgramEnds, ChildWires, ChildRedirectFails,
               ChildBuiltin, ChildExecs, ChildExecFails, JobEnds, ReaderEnds,
               WriterEnds, ChildEnds
      <4> QED
        BY <2>0, <4>1
    <3> QED
      BY <3>2, <3>3
  <2>7. ASSUME NEW q \in Pids, Environment(q)
        PROVE  proc'[p].state # "zombie"
    BY <2>0, <2>7, <1>2, AbsentFields
       DEF Environment, OtherStarts, OtherEnds, OrphanReaped, Absent
  <2> QED
    BY <1>2, <2>3, <2>4, <2>5, <2>6, <2>7
       DEF Next, DoRun, vars, ReadLine, ReadEof, ExitPsh, BuiltinSkipped,
           BuiltinCrashes, BuiltinLosesFd, BuiltinReturns, BuiltinExec,
           BuiltinExit, MakePipe, PipeFails, ForkFails, ParentAfterFork,
           ExecedEnds
<1>3. ChildrenInv /\ [Next]_vars
        => [ShellAlive => \A p \in Pids :
              proc[p].owner = "other" => proc'[p].state # "zombie"]_vars
  BY <1>2
<1> QED
  BY <1>1, <1>3, PTL DEF Spec, NoStrangerHungUp

(* What exit_psh leaves of the children: nothing alive. *)
THEOREM ExitHangsUpAll == Spec => ExitLeavesNoChild
<1>1. Spec => []ChildrenInv
  BY ChildrenInvInit, ChildrenInvStep, PTL DEF Spec
<1>2. ASSUME ChildrenInv, [Next]_vars, ShellAlive, pc' = "exited",
             NEW p \in Pids, proc[p].owner = "shell"
      PROVE  proc'[p].state = "zombie"
  <2>0. pc # "exited" /\ pc # "execed"
    BY <1>2 DEF ShellAlive, Gone
  <2>1. ReadEof \/ BuiltinExit
    <3>1. ~(Leave \/ Advance)
      BY <1>2 DEF Leave, Advance
    <3>2. ~UNCHANGED pc
      BY <1>2, <2>0
    <3>3. \A q \in Pids : ~(ChildStep(q) \/ ProgramEnds(q) \/ Environment(q))
      BY <3>2, ProcessesKeepShell
    <3> QED
      BY <1>2, <2>0, <3>1, <3>2, <3>3
         DEF Next, DoRun, vars, ReadLine, BuiltinSkipped, BuiltinCrashes,
             BuiltinLosesFd, BuiltinReturns, BuiltinExec, MakePipe, PipeFails,
             Fork, ForkFails, ParentAfterFork, WaitForeground, ExecedEnds
  <2>2. proc' = HangUp(jobs) /\ pc \in {"prompt", "cmd"}
    BY <2>1 DEF ReadEof, BuiltinExit, ExitPsh
  <2>3. Foreground = {}
    BY <2>2 DEF Foreground
  <2>4. p \in JobPids(jobs) /\ proc[p].state # "absent"
    BY <1>2, <2>3 DEF ChildrenInv, JobsAreTheChildren
  <2>5. proc[p].state \in {"absent", "forked", "wired", "running", "zombie"}
    BY <1>2 DEF ChildrenInv, TypeOK, Processes
  <2> QED
    BY <2>2, <2>4, <2>5, HangUpFields
<1>3. ChildrenInv /\ [Next]_vars
        => [(ShellAlive /\ pc' = "exited") =>
              \A p \in Pids : proc[p].owner = "shell"
                                => proc'[p].state = "zombie"]_vars
  BY <1>2
<1> QED
  BY <1>1, <1>3, PTL DEF Spec, ExitLeavesNoChild

-----------------------------------------------------------------------------
(* The write ends of the shell *)

NoWriteEnd(f) == \A d \in Fds : f[d].kind # "w"

LEMMA KindFacts ==
    Closed.kind = "closed" /\ Tty.kind = "tty" /\ \A k : RdEnd(k).kind = "r"
BY DEF Closed, Tty, RdEnd

LEMMA BuiltinKeepsNoWriteEnd ==
    ASSUME NEW f \in FdTables, NEW d \in Fds, NEW g \in BackedUp(f, d),
           NoWriteEnd(f), NEW r \in Redirects
    PROVE  /\ NoWriteEnd(g) /\ NoWriteEnd(Redirected(g, r))
           /\ NoWriteEnd([g EXCEPT ![d] = Closed])
<1>1. g \in FdTables
  BY BackedUpTypes
<1>2. NoWriteEnd(g)
  BY DEF NoWriteEnd, BackedUp, FdTables
<1>3. 0 \in Fds
  BY BasicTypes
<1>4. NoWriteEnd(Redirected(g, r))
  BY <1>1, <1>2, <1>3 DEF NoWriteEnd, Redirected, FdTables
<1>5. NoWriteEnd([g EXCEPT ![d] = Closed])
  BY <1>1, <1>2, KindFacts DEF NoWriteEnd, FdTables
<1> QED
  BY <1>2, <1>4, <1>5

LEMMA WriteEndsStep ==
    ASSUME TypeOK, WriteEndsInv, [Next]_vars
    PROVE  WriteEndsInv'
<1>0. /\ fds \in FdTables /\ pipeFd \in FdPairs /\ lastPipe \in FdPairs
  BY DEF TypeOK
<1>1. ASSUME NoWriteEnd(fds') PROVE WriteEndsInv'
  BY <1>1 DEF WriteEndsInv, NoWriteEnd
<1>2. pc \notin {"fork", "parent"} => NoWriteEnd(fds)
  BY DEF WriteEndsInv, NoWriteEnd
<1>3. CASE UNCHANGED fds /\ (pc \notin {"fork", "parent"} \/ UNCHANGED <<pc, pipeFd>>)
  BY <1>1, <1>2, <1>3 DEF WriteEndsInv, NoWriteEnd
<1>4. CASE fds' = NoFds
  BY <1>1, <1>4, KindFacts DEF NoWriteEnd, NoFds
<1>5. CASE MakePipe
  <2>1. PICK k \in PipeIds, r \in Fds, w \in Fds :
           /\ r < w
           /\ fds' = [fds EXCEPT ![r] = RdEnd(k), ![w] = WrEnd(k)]
           /\ pipeFd' = [rd |-> r, wr |-> w]
    BY <1>5 DEF MakePipe, AreTwoLowest
  <2>2. NoWriteEnd(fds) /\ pc' = "fork"
    BY <1>2, <1>5 DEF MakePipe
  <2>3. w # 0 /\ pipeFd'.wr = w
    BY <2>1 DEF Fds
  <2>4. ASSUME NEW d \in Fds, d # w PROVE fds'[d].kind # "w"
    BY <1>0, <2>1, <2>2, <2>4, KindFacts DEF NoWriteEnd, FdTables
  <2> QED
    BY <2>2, <2>3, <2>4 DEF WriteEndsInv
<1>6. CASE Fork \/ ForkFails
  BY <1>2, <1>6 DEF Fork, ForkFails, AboutToFork, WriteEndsInv, NoWriteEnd
<1>7. CASE ParentAfterFork
  <2>1. DEFINE f == CloseFd(fds, lastPipe.rd)
  <2>2. lastPipe.rd \in Fds /\ pipeFd.wr \in Fds
    BY <1>0 DEF FdPairs
  <2>3. f \in FdTables
    BY <1>0, <2>2, CloseFdType
  <2>4. ASSUME NEW d \in Fds, f[d].kind = "w" PROVE d = pipeFd.wr /\ d # 0
    BY <1>0, <2>2, <2>4, KindFacts DEF CloseFd, FdTables, WriteEndsInv
  <2>5. fds' = CloseFd(f, pipeFd.wr)
    BY <1>7 DEF ParentAfterFork
  <2> HIDE DEF f
  <2>6. NoWriteEnd(fds')
    BY <2>2, <2>3, <2>4, <2>5, KindFacts DEF CloseFd, FdTables, NoWriteEnd
  <2> QED
    BY <1>1, <2>6
<1>8. CASE BuiltinLosesFd \/ BuiltinReturns \/ BuiltinExec
  <2>1. pc = "cmd"
    BY <1>8 DEF BuiltinLosesFd, BuiltinReturns, BuiltinExec
  <2>2. Cur.redir \in Redirects /\ Cur.redir.lhs \in Fds /\ NoWriteEnd(fds)
    BY <1>2, <2>1, CurType DEF Running, Commands, Redirects
  <2>3. CASE BuiltinLosesFd
    <3>1. PICK g \in BackedUp(fds, Cur.redir.lhs) :
             fds' = [g EXCEPT ![Cur.redir.lhs] = Closed]
      BY <2>3 DEF BuiltinLosesFd
    <3>2. NoWriteEnd([g EXCEPT ![Cur.redir.lhs] = Closed])
      BY <1>0, <2>2, BuiltinKeepsNoWriteEnd
    <3> QED
      BY <1>1, <3>1, <3>2
  <2>4. CASE AfterBuiltin(fds')
    BY <1>0, <1>1, <2>2, <2>4, BuiltinKeepsNoWriteEnd DEF AfterBuiltin
  <2> QED
    BY <1>8, <2>3, <2>4 DEF BuiltinReturns, BuiltinExec
<1>9. CASE BuiltinSkipped \/ BuiltinCrashes \/ BuiltinExit \/ PipeFails
  BY <1>3, <1>4, <1>9
     DEF BuiltinSkipped, BuiltinCrashes, BuiltinExit, ExitPsh, PipeFails
<1>10. CASE WaitForeground \/ ReadLine \/ ReadEof \/ ExecedEnds
  BY <1>3, <1>4, <1>10 DEF WaitForeground, ReadLine, ReadEof, ExitPsh, ExecedEnds
<1>11. ASSUME NEW p \in Pids, ChildStep(p) \/ ProgramEnds(p) \/ Environment(p)
       PROVE  UNCHANGED <<fds, pc, pipeFd>>
  BY <1>11, ProcessesKeepShell DEF shellVars
<1> QED
  BY <1>3, <1>5, <1>6, <1>7, <1>8, <1>9, <1>10, <1>11 DEF Next, DoRun, vars

(* The shell keeps no write end while it waits, looks at the next command  *)
(* or prompts, whatever call failed before.                                *)
THEOREM NoWriteEndKept == Spec => []WriteEndsClosed
<1>1. Init => WriteEndsInv
  BY KindFacts DEF Init, InitFds, WriteEndsInv
<1>2. TypeOK /\ WriteEndsInv /\ [Next]_vars => WriteEndsInv'
  BY WriteEndsStep
<1>3. WriteEndsInv => WriteEndsClosed
  BY DEF WriteEndsInv, WriteEndsClosed
<1> QED
  BY <1>1, <1>2, <1>3, TypeCorrect, PTL DEF Spec

-----------------------------------------------------------------------------
(* The descriptors a child is given *)

(* What the child's moves make of a table whose only write end, if any, is *)
(* the one it is to write to.                                              *)
LEMMA WiringWorks ==
    ASSUME NEW f \in FdTables, NEW in \in Fds, NEW out \in Fds,
           NEW c1 \in Fds, NEW c2 \in Fds,
           1 \notin {in, out, c1, c2}, in # 0 => f[in].kind = "r",
           out # 0 => f[out].kind = "w",
           \A d \in Fds : f[d].kind = "w" => d = out /\ d # 0
    PROVE  LET w == CloseFd(CloseFd(MoveFd(MoveFd(f, in, 0), out, 1), c1), c2)
           IN  /\ IF in # 0 THEN w[0] = f[in] ELSE w[0] = f[0]
               /\ IF out # 0 THEN w[1] = f[out] ELSE w[1] = f[1]
               /\ \A d \in Fds \ {1} : w[d].kind # "w"
<1> DEFINE g == MoveFd(f, in, 0)
           h == MoveFd(g, out, 1)
           u == CloseFd(h, c1)
           w == CloseFd(u, c2)
<1>0. 0 \in Fds /\ 1 \in Fds
  BY BasicTypes
<1>1. /\ g \in FdTables
      /\ IF in # 0 THEN g[0] = f[in] ELSE g[0] = f[0]
      /\ g[1] = f[1]
      /\ out # 0 => g[out] = f[out]
      /\ \A d \in Fds : g[d].kind = "w" => d = out /\ d # 0
  <2>1. CASE in = 0
    BY <2>1 DEF MoveFd
  <2>2. CASE in # 0
    <3>1. g = [f EXCEPT ![0] = f[in], ![in] = Closed]
      BY <2>2 DEF MoveFd
    <3>2. g[0] = f[in] /\ g[in] = Closed
          /\ \A d \in Fds \ {0, in} : g[d] = f[d]
      BY <1>0, <2>2, <3>1 DEF FdTables
    <3>3. g \in FdTables
      BY <1>0, MoveFdType
    <3>4. out # in
      BY <2>2
    <3>5. \A d \in Fds : g[d].kind = "w" => d = out /\ d # 0
      BY <1>0, <2>2, <3>2, KindFacts
    <3> QED
      BY <1>0, <2>2, <3>2, <3>3, <3>4, <3>5
  <2> QED
    BY <2>1, <2>2
<1> HIDE DEF g
<1>2. /\ h \in FdTables
      /\ h[0] = g[0]
      /\ IF out # 0 THEN h[1] = g[out] ELSE h[1] = g[1]
      /\ \A d \in Fds \ {1} : h[d].kind # "w"
  <2>1. CASE out = 0
    BY <1>1, <2>1 DEF MoveFd
  <2>2. CASE out # 0
    <3>1. h = [g EXCEPT ![1] = g[out], ![out] = Closed]
      BY <2>2 DEF MoveFd
    <3>2. h[1] = g[out] /\ h[out] = Closed
          /\ \A d \in Fds \ {1, out} : h[d] = g[d]
      BY <1>0, <1>1, <2>2, <3>1 DEF FdTables
    <3>3. h \in FdTables
      BY <1>0, <1>1, MoveFdType
    <3>4. \A d \in Fds \ {1} : h[d].kind # "w"
      BY <1>1, <3>2, KindFacts
    <3> QED
      BY <1>0, <1>1, <2>2, <3>2, <3>3, <3>4
  <2> QED
    BY <2>1, <2>2
<1> HIDE DEF h
<1>3. ASSUME NEW t \in FdTables, NEW c \in Fds, c # 1,
             \A d \in Fds \ {1} : t[d].kind # "w"
      PROVE  /\ CloseFd(t, c) \in FdTables
             /\ CloseFd(t, c)[0] = t[0] /\ CloseFd(t, c)[1] = t[1]
             /\ \A d \in Fds \ {1} : CloseFd(t, c)[d].kind # "w"
  <2>1. CASE c = 0
    BY <1>3, <2>1 DEF CloseFd
  <2>2. CASE c # 0
    <3>1. CloseFd(t, c) = [t EXCEPT ![c] = Closed]
      BY <2>2 DEF CloseFd
    <3>2. CloseFd(t, c)[c] = Closed
          /\ \A d \in Fds \ {c} : CloseFd(t, c)[d] = t[d]
      BY <3>1 DEF FdTables
    <3> QED
      BY <1>0, <1>3, <2>2, <3>2, CloseFdType, KindFacts
  <2> QED
    BY <2>1, <2>2
<1>4. u \in FdTables /\ u[0] = h[0] /\ u[1] = h[1]
      /\ \A d \in Fds \ {1} : u[d].kind # "w"
  BY <1>2, <1>3
<1> HIDE DEF u
<1>5. w[0] = u[0] /\ w[1] = u[1] /\ \A d \in Fds \ {1} : w[d].kind # "w"
  BY <1>3, <1>4
<1>6. /\ IF in # 0 THEN w[0] = f[in] ELSE w[0] = f[0]
      /\ IF out # 0 THEN w[1] = f[out] ELSE w[1] = f[1]
  BY <1>1, <1>2, <1>4, <1>5
<1> QED
  BY <1>5, <1>6 DEF u, h, g

PipesInv == WriteEndsInv /\ PipeNumbersInv

(* Where Advance and Leave go: a fresh pipe_fd, and not the first command. *)
LEMMA AdvanceEffect ==
    ASSUME TypeOK, pc \in Running, Advance \/ Leave
    PROVE  /\ pc' \in {"prompt", "cmd"} /\ pipeFd' = NoPipe
           /\ pc' = "cmd" => i' # 1
BY CurType DEF Advance, Leave

(* Only the first command of a line has a redirection. *)
LEMMA LaterCommandsArePlain ==
    ASSUME TypeOK, pc \in Running, i # 1
    PROVE  Cur.redir.kind = "NONE"
BY CurType, RedirectsAssumption DEF Cur

(* A redirected builtin leaves the shell a stdout: dup2 fails on it only   *)
(* if stdin is closed, and then stdin is what the backup was made to.      *)
LEMMA BuiltinKeepsStdout ==
    ASSUME NEW f \in FdTables, NEW r \in Redirects, r.lhs \in Fds,
           NEW g \in BackedUp(f, r.lhs), f[1] # Closed
    PROVE  /\ ~RedirectFails(g, r) => Redirected(g, r)[1] # Closed
           /\ RedirectFails(g, r) /\ r.kind = "FD2FD" =>
                [g EXCEPT ![r.lhs] = Closed][1] # Closed
<1>0. 0 \in Fds /\ 1 \in Fds /\ 0 # 1 /\ Fds \subseteq Nat
  BY BasicTypes DEF Fds
<1>1. g \in FdTables
  BY BackedUpTypes
<1>2. g[1] # Closed
  BY <1>0 DEF BackedUp, FdTables, IsLowest
<1>3. ~RedirectFails(g, r) => Redirected(g, r)[1] # Closed
  BY <1>0, <1>1, <1>2 DEF RedirectFails, Redirected, FdTables
<1>4. ASSUME RedirectFails(g, r), r.kind = "FD2FD", r.lhs = 1 PROVE FALSE
  <2>1. g[0] = Closed
    BY <1>4 DEF RedirectFails
  <2>2. PICK b \in Fds : IsLowest(f, b) /\ g = [f EXCEPT ![b] = f[1]]
    BY <1>4 DEF BackedUp
  <2>3. b # 0 /\ f[0] = Closed
    BY <1>0, <2>1, <2>2 DEF FdTables
  <2>4. b <= 0 /\ b \in Nat
    BY <1>0, <2>2, <2>3 DEF IsLowest
  <2> QED
    BY <2>3, <2>4
<1>5. RedirectFails(g, r) /\ r.kind = "FD2FD" =>
        [g EXCEPT ![r.lhs] = Closed][1] # Closed
  BY <1>0, <1>1, <1>2, <1>4 DEF FdTables
<1> QED
  BY <1>3, <1>5

LEMMA PipeNumbersStep ==
    ASSUME TypeOK, WriteEndsInv, PipeNumbersInv, [Next]_vars
    PROVE  PipeNumbersInv'
<1>0. /\ fds \in FdTables /\ pipeFd \in FdPairs /\ lastPipe \in FdPairs
      /\ lastPipe.rd \in Fds /\ lastPipe.wr \in Fds
      /\ pipeFd.rd \in Fds /\ pipeFd.wr \in Fds
      /\ 0 \in Fds /\ 1 \in Fds /\ 0 # 1
      /\ NoPipe.rd = 0 /\ NoPipe.wr = 0
  BY BasicTypes DEF TypeOK, FdPairs, NoPipe
<1>1. CASE UNCHANGED <<pc, i, lastPipe, pipeFd, fds>>
  BY <1>1 DEF PipeNumbersInv, ShellAlive
<1>2. CASE pc' \in Gone
  BY <1>2 DEF PipeNumbersInv, Gone, Running, ShellAlive
<1>a. pc \in {"prompt", "cmd", "fork", "parent", "wait"} => fds[1] # Closed
  BY DEF PipeNumbersInv, ShellAlive, Gone
<1>b. pc \in {"cmd", "fork", "parent", "wait"} =>
        1 \notin {lastPipe.rd, lastPipe.wr, pipeFd.rd, pipeFd.wr}
  BY DEF PipeNumbersInv, Running
<1>c. pc \in {"cmd", "fork", "parent", "wait"} /\ lastPipe # NoPipe =>
        fds[lastPipe.rd].kind = "r"
  BY DEF PipeNumbersInv, Running
<1>3. CASE ReadLine
  BY <1>0, <1>3, <1>a, <1>b, <1>c DEF ReadLine, PipeNumbersInv
<1>4. CASE MakePipe
  <2>0. PICK k \in PipeIds, r \in Fds, w \in Fds :
           /\ AreTwoLowest(fds, r, w)
           /\ fds' = [fds EXCEPT ![r] = RdEnd(k), ![w] = WrEnd(k)]
           /\ pipeFd' = [rd |-> r, wr |-> w]
    BY <1>4 DEF MakePipe
  <2>1. /\ fds[r] = Closed /\ fds[w] = Closed /\ r # w
        /\ pipeFd'.rd = r /\ pipeFd'.wr = w
    BY <2>0 DEF AreTwoLowest, IsLowest, Fds
  <2>2. /\ fds'[r] = RdEnd(k) /\ fds'[w] = WrEnd(k)
        /\ \A d \in Fds \ {r, w} : fds'[d] = fds[d]
    BY <1>0, <2>0, <2>1 DEF FdTables
  <2>3. RdEnd(k).kind = "r" /\ WrEnd(k).kind = "w"
    BY DEF RdEnd, WrEnd
  <2>4. pc = "cmd" /\ pc' = "fork" /\ UNCHANGED <<i, lastPipe>>
    BY <1>4 DEF MakePipe
  <2>5. lastPipe # NoPipe => fds[lastPipe.rd].kind = "r" /\ lastPipe.rd \notin {r, w}
    BY <1>a, <1>b, <1>c, <2>1, <2>4, KindFacts DEF Running
  <2>6. fds'[1] # Closed /\ 1 \notin {r, w}
    BY <1>0, <1>a, <1>b, <1>c, <2>1, <2>2, <2>4 DEF Running
  <2>7. w # 0
    BY <2>0, BasicTypes DEF AreTwoLowest, Fds
  <2>8. 1 \notin {lastPipe.rd, lastPipe.wr, pipeFd'.rd, pipeFd'.wr}
    BY <1>a, <1>b, <1>c, <2>1, <2>4, <2>6 DEF Running
  <2>9. lastPipe # NoPipe => fds'[lastPipe.rd].kind = "r"
    BY <1>0, <2>2, <2>5
  <2>10. r # 0 => r # lastPipe.rd
    BY <1>0, <2>5
  <2> QED
    BY <2>1, <2>2, <2>3, <2>4, <2>6, <2>7, <2>8, <2>9, <2>10 DEF PipeNumbersInv, Running
<1>5. CASE Fork \/ ForkFails
  BY <1>0, <1>5, <1>a, <1>b, <1>c DEF Fork, ForkFails, AboutToFork, PipeNumbersInv, Running
<1>6. CASE ParentAfterFork
  <2> DEFINE f == CloseFd(fds, lastPipe.rd)
  <2>1. pc = "parent" /\ lastPipe' = pipeFd /\ fds' = CloseFd(f, pipeFd.wr)
    BY <1>6 DEF ParentAfterFork
  <2>2. f \in FdTables
    BY <1>0, CloseFdType
  <2>3. \A d \in Fds : f[d] = fds[d] \/ (f[d] = Closed /\ d = lastPipe.rd)
    BY <1>0 DEF CloseFd, FdTables
  <2> HIDE DEF f
  <2>4. \A d \in Fds : fds'[d] = f[d] \/ (fds'[d] = Closed /\ d = pipeFd.wr)
    BY <1>0, <2>1, <2>2 DEF CloseFd, FdTables
  <2>5. fds'[1] # Closed /\ 1 \notin {pipeFd.rd, pipeFd.wr}
    BY <1>0, <1>a, <1>b, <1>c, <2>1, <2>3, <2>4 DEF Running
  <2>6. ASSUME pipeFd # NoPipe PROVE fds'[pipeFd.rd].kind = "r"
    <3>1. /\ fds[pipeFd.rd].kind = "r" /\ fds[pipeFd.wr].kind = "w" /\ pipeFd.wr # 0
          /\ pipeFd.rd # 0 => pipeFd.rd # lastPipe.rd
      BY <2>1, <2>6 DEF PipeNumbersInv
    <3>2. fds'[pipeFd.rd] = fds[pipeFd.rd]
      BY <1>0, <2>1, <3>1 DEF f, CloseFd, FdTables
    <3> QED
      BY <3>1, <3>2
  <2>8. CASE Leave \/ Advance
    <3>1. /\ pc' \in {"prompt", "cmd"} /\ pipeFd' = NoPipe
          /\ pc' = "cmd" => i' # 1
      BY <2>1, <2>8, AdvanceEffect DEF Running
    <3> QED
      BY <1>0, <2>1, <2>5, <2>6, <3>1 DEF PipeNumbersInv
  <2>9. CASE pc' = "wait" /\ UNCHANGED <<i, pipeFd>>
    BY <2>1, <2>5, <2>6, <2>9 DEF PipeNumbersInv
  <2> QED
    BY <1>6, <2>8, <2>9 DEF ParentAfterFork
<1>7. CASE WaitForeground \/ PipeFails \/ BuiltinSkipped
  <2>1. /\ pc \in Running /\ UNCHANGED <<lastPipe, fds>> /\ Advance
    BY <1>7 DEF WaitForeground, PipeFails, BuiltinSkipped, Running
  <2>2. /\ pc' \in {"prompt", "cmd"} /\ pipeFd' = NoPipe
        /\ pc' = "cmd" => i' # 1
    BY <2>1, AdvanceEffect
  <2> QED
    BY <1>0, <1>a, <1>b, <1>c, <2>1, <2>2 DEF PipeNumbersInv, Running
<1>8. CASE BuiltinLosesFd \/ BuiltinReturns
  <2>1. pc = "cmd" /\ Advance /\ UNCHANGED lastPipe
    BY <1>8 DEF BuiltinLosesFd, BuiltinReturns
  <2>2. /\ pc' \in {"prompt", "cmd"} /\ pipeFd' = NoPipe
        /\ pc' = "cmd" => i' # 1
    BY <2>1, AdvanceEffect DEF Running
  <2>3. CASE i = 1
    <3>1. lastPipe = NoPipe
      BY <2>1, <2>3 DEF PipeNumbersInv, Running
    <3>2. Cur.redir \in Redirects /\ Cur.redir.lhs \in Fds /\ fds[1] # Closed
      BY <1>a, <1>b, <1>c, <2>1, CurType DEF Running, Commands, Redirects
    <3>3. fds'[1] # Closed
      BY <1>0, <1>8, <3>2, BuiltinKeepsStdout
         DEF BuiltinLosesFd, BuiltinReturns, AfterBuiltin
    <3> QED
      BY <1>0, <2>1, <2>2, <3>1, <3>3 DEF PipeNumbersInv
  <2>4. CASE i # 1
    <3>1. Cur.redir.kind = "NONE"
      BY <2>1, <2>4, LaterCommandsArePlain DEF Running
    <3>2. fds' = fds
      BY <1>8, <3>1 DEF BuiltinLosesFd, BuiltinReturns, AfterBuiltin
    <3> QED
      BY <1>0, <1>a, <1>b, <1>c, <2>1, <2>2, <3>2 DEF PipeNumbersInv, Running
  <2> QED
    BY <2>3, <2>4
<1>9. CASE ReadEof \/ BuiltinExit \/ BuiltinExec \/ BuiltinCrashes \/ ExecedEnds
  BY <1>2, <1>9
     DEF ReadEof, BuiltinExit, ExitPsh, BuiltinExec, BuiltinCrashes, ExecedEnds, Gone
<1>10. ASSUME NEW p \in Pids, ChildStep(p) \/ ProgramEnds(p) \/ Environment(p)
       PROVE  UNCHANGED <<pc, i, lastPipe, pipeFd, fds>>
  BY <1>10, ProcessesKeepShell DEF shellVars
<1> QED
  BY <1>1, <1>3, <1>4, <1>5, <1>6, <1>7, <1>8, <1>9, <1>10 DEF Next, DoRun, vars

(* Only fork makes a child that is still to be wired. *)
LEMMA ForkedComeFromFork ==
    ASSUME TypeOK, [Next]_vars, NEW p \in Pids, proc'[p].state = "forked"
    PROVE  proc'[p] = proc[p] \/ (Fork /\ proc'[p] = Child)
<1>0. proc \in [Pids -> Processes]
  BY DEF TypeOK
<1>1. \A js : HangUp(js)[p] = proc[p] \/ HangUp(js)[p].state = "zombie"
  BY EndedFields DEF HangUp
<1>2. CASE UNCHANGED proc
  BY <1>2
<1>3. CASE proc' = HangUp(jobs)
  BY <1>1, <1>3
<1>4. CASE Fork
  BY <1>0, <1>4 DEF Fork
<1>5. CASE WaitForeground
  BY <1>0, <1>5, AbsentFields DEF WaitForeground
<1>6. ASSUME NEW q \in Pids, ChildStep(q) \/ ProgramEnds(q) \/ Environment(q)
      PROVE  proc'[p] = proc[p]
  <2>1. CASE ChildWires(q)
    BY <1>0, <2>1 DEF ChildWires
  <2>2. CASE ChildExecs(q)
    BY <1>0, <2>2 DEF ChildExecs
  <2>3. CASE ChildExit(q)
    <3>1. PICK st : proc' = [HangUp(proc[q].jobs) EXCEPT
                                ![q] = Ended(proc[q].owner, st)]
      BY <2>3 DEF ChildExit
    <3>2. p # q
      BY <3>1, EndedFields DEF HangUp
    <3>3. proc'[p] = HangUp(proc[q].jobs)[p]
      BY <3>1, <3>2
    <3> QED
      BY <1>1, <3>3
  <2>4. CASE ChildRedirectFails(q) \/ ChildBuiltin(q) \/ ChildExecFails(q)
             \/ JobEnds(q) \/ ReaderEnds(q)
    BY <1>0, <2>4, EndedFields
       DEF ChildRedirectFails, ChildBuiltin, ChildExecFails, JobEnds, ReaderEnds,
           ChildEnds
  <2>5. CASE WriterEnds(q) \/ Environment(q)
    BY <1>0, <2>5, EndedFields, AbsentFields, StrangerFields
       DEF WriterEnds, Environment, OtherStarts, OtherEnds, OrphanReaped
  <2> QED
    BY <1>6, <2>1, <2>2, <2>3, <2>4, <2>5 DEF ChildStep, ProgramEnds
<1> QED
  BY <1>2, <1>3, <1>4, <1>5, <1>6
     DEF Next, DoRun, vars, ReadLine, ReadEof, ExitPsh, BuiltinSkipped,
         BuiltinCrashes, BuiltinLosesFd, BuiltinReturns, BuiltinExec, BuiltinExit,
         MakePipe, PipeFails, ForkFails, ParentAfterFork, ExecedEnds

LEMMA ChildIsWiredStep ==
    ASSUME TypeOK, PipesInv, ChildIsWired, [Next]_vars
    PROVE  ChildIsWired'
<1> SUFFICES ASSUME NEW p \in Pids, proc'[p].state = "forked"
             PROVE  LET a == proc'[p].args
                        f == proc'[p].fd
                        w == Wired(p)'
                    IN  /\ a.in # 0 \/ a.close2 # 0 => f[a.in].kind = "r"
                        /\ w[0] = f[a.in]
                        /\ a.out # 0 => f[a.out].kind = "w" /\ w[1] = f[a.out]
                        /\ a.out = 0 => w[1] = f[1]
                        /\ \A d \in Fds \ {1} : w[d].kind # "w"
  BY DEF ChildIsWired
<1>1. CASE proc'[p] = proc[p]
  <2>1. Wired(p)' = Wired(p)
    BY <1>1 DEF Wired
  <2> QED
    BY <1>1, <2>1 DEF ChildIsWired
<1>2. CASE Fork /\ proc'[p] = Child
  <2>1. /\ proc'[p].fd = fds
        /\ proc'[p].args = [in |-> lastPipe.rd, out |-> pipeFd.wr,
                            close1 |-> pipeFd.rd, close2 |-> lastPipe.wr]
    BY <1>2 DEF Child, Absent
  <2>2. /\ fds \in FdTables
        /\ lastPipe.rd \in Fds /\ lastPipe.wr \in Fds
        /\ pipeFd.rd \in Fds /\ pipeFd.wr \in Fds
    BY DEF TypeOK, FdPairs
  <2>4. pc \in {"cmd", "fork"}
    BY <1>2 DEF Fork, AboutToFork
  <2>5. /\ 1 \notin {lastPipe.rd, pipeFd.wr, pipeFd.rd, lastPipe.wr}
        /\ lastPipe.rd # 0 \/ lastPipe.wr # 0 => fds[lastPipe.rd].kind = "r"
        /\ pipeFd.wr # 0 => fds[pipeFd.wr].kind = "w"
    BY <2>4 DEF PipesInv, PipeNumbersInv, Running, NoPipe
  <2>6. \A d \in Fds : fds[d].kind = "w" => d = pipeFd.wr /\ d # 0
    BY DEF PipesInv, WriteEndsInv
  <2>7. Wired(p)' =
          CloseFd(CloseFd(MoveFd(MoveFd(fds, lastPipe.rd, 0), pipeFd.wr, 1),
                          pipeFd.rd), lastPipe.wr)
    BY <2>1 DEF Wired
  <2> QED
    BY <2>1, <2>2, <2>5, <2>6, <2>7, WiringWorks
<1> QED
  BY <1>1, <1>2, ForkedComeFromFork

(* A child's standard streams are the pipes of its place in the pipeline   *)
(* and it keeps no other write end, although last_pipe_fd[1] is stale.     *)
THEOREM ChildrenAreWired == Spec => []ChildIsWired
<1>1. Init => PipesInv /\ ChildIsWired
  <2> SUFFICES ASSUME Init PROVE PipesInv /\ ChildIsWired
    OBVIOUS
  <2>1. WriteEndsInv /\ ChildIsWired
    BY KindFacts, AbsentFields DEF Init, InitFds, WriteEndsInv, ChildIsWired
  <2>2. fds[1] # Closed
    BY BasicTypes, KindFacts DEF Init, InitFds
  <2>3. PipeNumbersInv
    BY <2>2 DEF Init, PipeNumbersInv, Running
  <2> QED
    BY <2>1, <2>3 DEF PipesInv
<1>2. TypeOK /\ PipesInv /\ [Next]_vars => PipesInv'
  BY WriteEndsStep, PipeNumbersStep DEF PipesInv
<1>3. TypeOK /\ PipesInv /\ ChildIsWired /\ [Next]_vars => ChildIsWired'
  BY ChildIsWiredStep
<1> QED
  BY <1>1, <1>2, <1>3, TypeCorrect, PTL DEF Spec

-----------------------------------------------------------------------------
(* The foreground child *)

(* What ForegroundInv says of the child r of the command c *)
IsOf(r, c) ==
    /\ r.state \in {"forked", "wired", "running"} => r.cmd = c /\ NoWriteEnd(r.fd)
    /\ r.state = "running" => c.exe = "disk"
    /\ r.state = "zombie" => r.status \in CommandOutcomes(c)

LEMMA EndedStatus ==
    ASSUME NEW o, NEW s
    PROVE  Ended(o, s).state = "zombie" /\ Ended(o, s).status = s
BY DEF Ended, Absent

LEMMA MovesMakeNoWriteEnd ==
    ASSUME NEW f \in FdTables, NoWriteEnd(f), NEW d \in Fds, NEW to \in Fds
    PROVE  NoWriteEnd(MoveFd(f, d, to)) /\ NoWriteEnd(CloseFd(f, d))
BY KindFacts DEF NoWriteEnd, MoveFd, CloseFd, FdTables

LEMMA ChildKeepsToItsCommand ==
    ASSUME TypeOK, OwnersOK, NEW p \in Pids, NEW c \in Commands,
           ~RunsInShell(c), ~Async(c), proc[p].owner = "shell", ShellAlive,
           IsOf(proc[p], c),
           ChildStep(p) \/ ProgramEnds(p) \/ Environment(p)
    PROVE  IsOf(proc'[p], c)
<1>0. /\ proc \in [Pids -> Processes]
      /\ proc[p].fd \in FdTables /\ proc[p].cmd.redir \in Redirects
      /\ proc[p].args.in \in Fds /\ proc[p].args.out \in Fds
      /\ proc[p].args.close1 \in Fds /\ proc[p].args.close2 \in Fds
      /\ proc[p] \in Processes
      /\ 0 \in Fds /\ 1 \in Fds
  BY BasicTypes DEF TypeOK, Processes, Commands, PipeArgs
<1>1. /\ c.exe \in {"disk", "missing"} /\ c.exe # "exec"
      /\ ExitStatus(1) \in CommandOutcomes(c)
      /\ ExitStatus(127) \in CommandOutcomes(c)
      /\ c.exe = "disk" => \A x \in ExitCodes : ExitStatus(x) \in CommandOutcomes(c)
  BY DEF RunsInShell, InProcess, Commands, Executables, CommandOutcomes
<1>2. ASSUME NEW s \in CommandOutcomes(c),
             proc' = [proc EXCEPT ![p] = Ended(proc[p].owner, s)]
      PROVE  IsOf(proc'[p], c)
  BY <1>0, <1>2, EndedStatus DEF IsOf
<1>3. CASE ChildWires(p)
  <2>1. proc[p].state = "forked" /\ proc[p].cmd = c /\ NoWriteEnd(proc[p].fd)
    BY <1>3 DEF ChildWires, IsOf
  <2> DEFINE g == MoveFd(proc[p].fd, proc[p].args.in, 0)
             h == MoveFd(g, proc[p].args.out, 1)
             u == CloseFd(h, proc[p].args.close1)
  <2>2. g \in FdTables /\ NoWriteEnd(g)
    BY <1>0, <2>1, MoveFdType, MovesMakeNoWriteEnd
  <2> HIDE DEF g
  <2>3. h \in FdTables /\ NoWriteEnd(h)
    BY <1>0, <2>2, MoveFdType, MovesMakeNoWriteEnd
  <2> HIDE DEF h
  <2>4. u \in FdTables /\ NoWriteEnd(u)
    BY <1>0, <2>3, CloseFdType, MovesMakeNoWriteEnd
  <2> HIDE DEF u
  <2>5. Wired(p) = CloseFd(u, proc[p].args.close2)
    BY DEF Wired, u, h, g
  <2>6. NoWriteEnd(Wired(p))
    BY <1>0, <2>4, <2>5, MovesMakeNoWriteEnd
  <2>7. proc'[p].state = "wired" /\ proc'[p].cmd = proc[p].cmd
        /\ proc'[p].fd = Wired(p)
    BY <1>0, <1>3 DEF ChildWires, Processes
  <2> QED
    BY <2>1, <2>6, <2>7 DEF IsOf
<1>4. CASE ChildRedirectFails(p)
  BY <1>1, <1>2, <1>4 DEF ChildRedirectFails, ChildEnds
<1>5. CASE ChildBuiltin(p) \/ ChildExit(p)
  <2>1. proc[p].state = "wired" /\ proc[p].cmd.exe \in {"builtin", "exec", "exit"}
    BY <1>5 DEF ChildBuiltin, ChildExit, Ready
  <2> QED
    BY <1>1, <2>1 DEF IsOf
<1>6. CASE ChildExecs(p)
  <2>1. proc[p].state = "wired" /\ proc[p].cmd = c /\ NoWriteEnd(proc[p].fd)
        /\ c.exe = "disk"
    BY <1>1, <1>6 DEF ChildExecs, Ready, IsOf, HasImage
  <2>2. NoWriteEnd(Redirected(proc[p].fd, proc[p].cmd.redir))
    BY <1>0, <2>1 DEF NoWriteEnd, Redirected, FdTables
  <2>3. proc'[p].state = "running" /\ proc'[p].cmd = proc[p].cmd
        /\ proc'[p].fd = Redirected(proc[p].fd, proc[p].cmd.redir)
    BY <1>0, <1>6 DEF ChildExecs, Processes
  <2> QED
    BY <2>1, <2>2, <2>3 DEF IsOf
<1>7. CASE ChildExecFails(p)
  BY <1>1, <1>2, <1>7 DEF ChildExecFails, ChildEnds
<1>8. CASE JobEnds(p) \/ ReaderEnds(p)
  <2>1. c.exe = "disk"
    BY <1>8 DEF JobEnds, ReaderEnds, IsRunning, IsOf
  <2>2. \E x \in ExitCodes : ChildEnds(p, x)
    BY <1>8 DEF JobEnds, ReaderEnds, ExitCodes
  <2> QED
    BY <1>1, <1>2, <2>1, <2>2 DEF ChildEnds
<1>9. CASE WriterEnds(p)
  <2>1. proc[p].state = "running" /\ proc[p].fd[1].kind = "w"
    BY <1>9 DEF WriterEnds, IsRunning, NobodyReads
  <2> QED
    BY <1>0, <2>1 DEF IsOf, NoWriteEnd
<1>10. CASE Environment(p)
  <2>1. proc[p].state # "absent"
    BY DEF OwnersOK
  <2> QED
    BY <1>10, <2>1 DEF Environment, OtherStarts, OtherEnds, OrphanReaped
<1> QED
  BY <1>3, <1>4, <1>5, <1>6, <1>7, <1>8, <1>9, <1>10 DEF ChildStep, ProgramEnds

(* A step of another process leaves the foreground child alone: its pid is *)
(* on nobody's copy of the job list.                                       *)
LEMMA OthersLeaveForeground ==
    ASSUME ChildrenInv, ShellAlive, NEW q \in Pids, NEW p \in Foreground, q # p,
           p \in Pids, ChildStep(q) \/ ProgramEnds(q) \/ Environment(q)
    PROVE  proc'[p] = proc[p]
<1>0. proc \in [Pids -> Processes]
  BY DEF ChildrenInv, TypeOK
<1>1. CASE ChildExit(q)
  <2>1. p \notin JobPids(proc[q].jobs)
    BY DEF ChildrenInv, JobsAreTheChildren, CopiesAreJobs
  <2>2. HangUp(proc[q].jobs)[p] = proc[p]
    BY <2>1, HangUpFields
  <2>3. proc'[p] = HangUp(proc[q].jobs)[p]
    BY <1>1 DEF ChildExit, HangUp
  <2> QED
    BY <2>2, <2>3
<1>2. CASE ~ChildExit(q)
  BY <1>0, <1>2
     DEF ChildStep, ProgramEnds, Environment, ChildWires, ChildRedirectFails,
         ChildBuiltin, ChildExecs, ChildExecFails, JobEnds, ReaderEnds, WriterEnds,
         ChildEnds, OtherStarts, OtherEnds, OrphanReaped
<1> QED
  BY <1>1, <1>2

AwaitsChild == pc \in {"parent", "wait"} /\ pid # NoPid /\ ~Async(Cur)

LEMMA ForegroundInvMeans ==
    ForegroundInv <=>
        /\ pc = "fork" => Async(Cur)
        /\ pc = "wait" => ~Async(Cur)
        /\ AwaitsChild => ~RunsInShell(Cur) /\ IsOf(proc[pid], Cur)
BY DEF ForegroundInv, AwaitsChild, IsOf, NoWriteEnd

LEMMA ForegroundStep ==
    ASSUME ChildrenInv, WriteEndsInv, ForegroundInv, [Next]_vars
    PROVE  ForegroundInv'
<1> DEFINE Quiet == pc' \notin {"fork", "parent", "wait"}
<1>0. TypeOK
  BY DEF ChildrenInv
<1>1. CASE UNCHANGED vars
  BY <1>1 DEF vars, ForegroundInv, Async, Cur, RunsInShell
<1>2. CASE Quiet
  BY <1>2 DEF ForegroundInv
<1>3. CASE Advance \/ Leave \/ pc' = "cmd" \/ pc' \in Gone
  BY <1>2, <1>3 DEF Advance, Leave, Gone
<1>4. CASE MakePipe
  BY <1>4 DEF MakePipe, ForegroundInv, Async, Cur
<1>5. CASE Fork
  <2>1. /\ pc' = "parent" /\ UNCHANGED <<line, i>> /\ pid' \in Pids
        /\ proc'[pid'] = Child
    BY <1>0, <1>5 DEF Fork, TypeOK
  <2>2. CASE pc = "fork"
    <3>1. Async(Cur)'
      BY <2>1, <2>2 DEF ForegroundInv, Async, Cur
    <3> QED
      BY <2>1, <3>1 DEF ForegroundInv
  <2>3. CASE pc # "fork"
    <3>1. pc = "cmd" /\ ~RunsInShell(Cur)
      BY <1>5, <2>3 DEF Fork, AboutToFork
    <3>2. NoWriteEnd(fds)
      BY <3>1 DEF WriteEndsInv, NoWriteEnd
    <3>3. Child.state = "forked" /\ Child.cmd = Cur /\ Child.fd = fds
      BY DEF Child, Absent
    <3> QED
      BY <2>1, <3>1, <3>2, <3>3
         DEF ForegroundInv, NoWriteEnd, Cur, Async, RunsInShell
  <2> QED
    BY <2>2, <2>3
<1>6. CASE ForkFails
  BY <1>6 DEF ForkFails, ForegroundInv
<1>7. CASE ParentAfterFork
  <2>1. CASE pid # NoPid /\ ~Async(Cur) /\ pc' = "wait" /\ UNCHANGED <<line, i>>
    BY <1>7, <2>1 DEF ParentAfterFork, ForegroundInv, Async, Cur, RunsInShell
  <2> QED
    BY <1>3, <1>7, <2>1 DEF ParentAfterFork
<1>8. ASSUME NEW q \in Pids, ChildStep(q) \/ ProgramEnds(q) \/ Environment(q)
      PROVE  ForegroundInv'
  <2>1. UNCHANGED <<pc, line, i, pid>>
    BY <1>8, ProcessesKeepShell DEF shellVars
  <2>2. Cur' = Cur /\ Async(Cur)' = Async(Cur)
        /\ RunsInShell(Cur)' = RunsInShell(Cur) /\ AwaitsChild' = AwaitsChild
    BY <2>1 DEF Cur, Async, RunsInShell, InProcess, AwaitsChild
  <2>3. CASE AwaitsChild
    <3>1. /\ pid \in Foreground /\ pid \in Pids /\ ShellAlive /\ pc \in Running
          /\ ~Async(Cur) /\ ~RunsInShell(Cur) /\ IsOf(proc[pid], Cur)
      BY <1>0, <2>3, ForegroundInvMeans
         DEF AwaitsChild, Foreground, ShellAlive, Gone, Running, TypeOK
    <3>2. proc[pid].owner = "shell" /\ Cur \in Commands
      BY <1>0, <3>1, CurType DEF ChildrenInv, JobsAreTheChildren
    <3>3. IsOf(proc'[pid], Cur)
      <4>1. CASE q = pid
        BY <1>0, <1>8, <3>1, <3>2, <4>1, ChildKeepsToItsCommand DEF ChildrenInv
      <4>2. CASE q # pid
        BY <1>8, <3>1, <4>2, OthersLeaveForeground
      <4> QED
        BY <4>1, <4>2
    <3>4. IsOf(proc[pid], Cur)'
      BY <2>1, <2>2, <3>3 DEF IsOf, NoWriteEnd, CommandOutcomes, RunsInShell, Async, InProcess
    <3> QED
      BY <2>1, <2>2, <3>1, <3>4 DEF ForegroundInv, IsOf, NoWriteEnd, AwaitsChild
  <2>4. CASE ~AwaitsChild
    BY <2>1, <2>2, <2>4 DEF ForegroundInv, AwaitsChild
  <2> QED
    BY <2>3, <2>4
<1>9. CASE BuiltinSkipped \/ BuiltinLosesFd \/ BuiltinReturns \/ PipeFails
           \/ WaitForeground
  BY <1>3, <1>9 DEF BuiltinSkipped, BuiltinLosesFd, BuiltinReturns, PipeFails,
                    WaitForeground
<1>10. CASE BuiltinCrashes \/ BuiltinExec \/ BuiltinExit \/ ReadEof \/ ExecedEnds
            \/ ReadLine
  BY <1>3, <1>10 DEF BuiltinCrashes, BuiltinExec, BuiltinExit, ReadEof, ExecedEnds,
                     ReadLine, ExitPsh, Gone
<1> QED
  BY <1>1, <1>4, <1>5, <1>6, <1>7, <1>8, <1>9, <1>10 DEF Next, DoRun

-----------------------------------------------------------------------------
(* The mapping to PshShell *)

todoBar == SubSeq(line, i, Len(line))
startedBar == [n \in DOMAIN jobs |-> jobs[n].type]
phaseBar == IF pc = "prompt" THEN "idle" ELSE IF ShellAlive THEN "busy" ELSE "gone"

(* What is left of the line, while a command of it is current *)
LEMMA TodoFacts ==
    ASSUME TypeOK, pc \in Running
    PROVE  /\ Head(todoBar) = Cur
           /\ Tail(todoBar) = SubSeq(line, i + 1, Len(line))
           /\ Len(todoBar) = 1 <=> i = Len(line)
           /\ i = Len(line) => Tail(todoBar) = <<>>
<1>1. /\ line \in Seq(Commands) /\ Len(line) \in Nat
      /\ i \in 1 .. Len(line) /\ i \in Int /\ Len(line) \in i .. Len(line)
  BY CurType, ListsAssumption
<1>2. /\ Head(todoBar) = line[i]
      /\ Tail(todoBar) = SubSeq(line, i + 1, Len(line))
  BY <1>1, HeadTailOfSubSeq DEF todoBar
<1>3. Len(todoBar) = Len(line) - i + 1
  <2>1. \A n \in i .. Len(line) : line[n] \in Commands
    BY <1>1, ElementOfSeq
  <2> QED
    BY <1>1, <2>1, SubSeqProperties DEF todoBar
<1>4. i = Len(line) => Tail(todoBar) = <<>>
  BY <1>1, <1>2, SubSeqEmpty
<1> QED
  BY <1>1, <1>2, <1>3, <1>4 DEF Cur

LEMMA NothingToDo ==
    ASSUME line = <<>>, i = 1
    PROVE  todoBar = <<>>
BY SubSeqEmpty, EmptySeq DEF todoBar

LEMMA NothingStarted ==
    ASSUME jobs = <<>>
    PROVE  startedBar = <<>>
BY DEF startedBar

LEMMA StartedGrows ==
    ASSUME NEW js \in Seq(JobEntries), NEW e \in JobEntries
    PROVE  [n \in DOMAIN Append(js, e) |-> Append(js, e)[n].type]
             = Append([n \in DOMAIN js |-> js[n].type], e.type)
<1> DEFINE t == Append(js, e)
           a == [n \in DOMAIN js |-> js[n].type]
           T == {"BACKGROUND", "PIPED"}
<1>1. /\ Len(js) \in Nat /\ DOMAIN js = 1 .. Len(js)
      /\ DOMAIN t = 1 .. (Len(js) + 1)
      /\ \A n \in 1 .. Len(js) : t[n] = js[n]
      /\ t[Len(js) + 1] = e
      /\ \A n \in 1 .. Len(js) : js[n] \in JobEntries
  OBVIOUS
<1>2. /\ a \in Seq(T) /\ Len(a) = Len(js)
      /\ \A n \in 1 .. Len(js) : a[n] = js[n].type
  BY <1>1 DEF JobEntries
<1> HIDE DEF t, a
<1>3. e.type \in T
  BY DEF JobEntries
<1>4. /\ Append(a, e.type) \in Seq(T)
      /\ Len(Append(a, e.type)) = Len(js) + 1
      /\ \A n \in 1 .. Len(js) : Append(a, e.type)[n] = a[n]
      /\ Append(a, e.type)[Len(js) + 1] = e.type
  BY <1>1, <1>2, <1>3
<1>5. Append(a, e.type) = [n \in 1 .. (Len(js) + 1) |-> Append(a, e.type)[n]]
  BY <1>4, LenProperties
<1>6. \A n \in 1 .. (Len(js) + 1) : Append(a, e.type)[n] = t[n].type
  BY <1>1, <1>2, <1>4
<1> QED
  BY <1>1, <1>5, <1>6 DEF t, a

(* Advance and Leave drop the current command, Leave all of them. *)
LEMMA AdvanceDrops ==
    ASSUME TypeOK, pc \in Running, Advance
    PROVE  /\ todoBar' = Tail(todoBar)
           /\ phaseBar' = IF Len(todoBar) = 1 THEN "idle" ELSE "busy"
<1>1. CASE i < Len(line) /\ pc' = "cmd" /\ i' = i + 1 /\ UNCHANGED line
  <2>1. todoBar' = Tail(todoBar)
    BY <1>1, TodoFacts DEF todoBar
  <2>2. Len(todoBar) # 1
    BY <1>1, TodoFacts, CurType
  <2>3. phaseBar' = "busy"
    BY <1>1 DEF phaseBar, ShellAlive, Gone
  <2> QED
    BY <2>1, <2>2, <2>3
<1>2. CASE i = Len(line) /\ Leave
  <2>1. todoBar' = <<>>
    BY <1>2, SubSeqEmpty, EmptySeq DEF Leave, todoBar
  <2> QED
    BY <1>2, <2>1, TodoFacts DEF Leave, phaseBar
<1> QED
  BY <1>1, <1>2 DEF Advance

(* The steps of the abstract runner, in the terms of the mapping *)
dropsBar ==
    /\ todoBar' = Tail(todoBar)
    /\ phaseBar' = IF Len(todoBar) = 1 THEN "idle" ELSE "busy"
barUnchanged == UNCHANGED <<phaseBar, todoBar, startedBar, status>>

LEMMA AbstractSteps ==
    /\ phaseBar = "idle" /\ phaseBar' = "busy" /\ todoBar' \in Lists
         /\ UNCHANGED <<startedBar, status>> => Shell!Accept
    /\ phaseBar = "busy" /\ Head(todoBar).type \notin {"BACKGROUND", "PIPED"}
         /\ status' \in CommandOutcomes(Head(todoBar)) /\ dropsBar
         /\ UNCHANGED startedBar => Shell!Finish
    /\ phaseBar = "busy" /\ Head(todoBar).type \in {"BACKGROUND", "PIPED"}
         /\ startedBar' = Append(startedBar, Head(todoBar).type) /\ dropsBar
         /\ UNCHANGED status => Shell!Start
    /\ phaseBar = "busy" /\ dropsBar /\ UNCHANGED <<startedBar, status>>
         => Shell!Skip
    /\ phaseBar = "busy" /\ phaseBar' = "idle" /\ todoBar' = <<>>
         /\ UNCHANGED <<startedBar, status>> => Shell!GiveUp
    /\ phaseBar # "gone" /\ phaseBar' = "gone" /\ todoBar' = <<>>
         /\ startedBar' = <<>> /\ UNCHANGED status => Shell!Quit
BY DEF Shell!Accept, Shell!Finish, Shell!Start, Shell!Skip, Shell!GiveUp, Shell!Quit,
       Shell!Drop, Shell!LeftAlone, dropsBar, phaseBar, todoBar, startedBar

LEMMA SameIsStutter == barUnchanged => UNCHANGED Shell!shell
BY DEF Shell!shell, barUnchanged, phaseBar, todoBar, startedBar

(* A step that changes nothing the mapping looks at, but for the place in  *)
(* the work on one command, is a stutter.                                  *)
LEMMA QuietBar ==
    ASSUME UNCHANGED <<line, i, jobs, status>>,
           UNCHANGED pc \/ (pc \in Running /\ pc' \in Running)
                        \/ (pc \in Gone /\ pc' \in Gone)
    PROVE  barUnchanged
<1>1. UNCHANGED <<todoBar, startedBar, status>>
  BY DEF todoBar, startedBar
<1>2. UNCHANGED phaseBar
  BY DEF phaseBar, ShellAlive, Running, Gone
<1> QED
  BY <1>1, <1>2 DEF barUnchanged

LEMMA QuitBar ==
    ASSUME pc \notin Gone, pc' \in Gone, line' = <<>>, i' = 1, jobs' = <<>>,
           UNCHANGED status
    PROVE  Shell!Quit
<1>1. todoBar' = <<>>
  BY SubSeqEmpty, EmptySeq DEF todoBar
<1>2. startedBar' = <<>>
  BY DEF startedBar
<1>3. phaseBar # "gone" /\ phaseBar' = "gone"
  BY DEF phaseBar, ShellAlive, Gone
<1> QED
  BY <1>1, <1>2, <1>3, AbstractSteps

LEMMA StepSimulation ==
    ASSUME ChildrenInv, ForegroundInv, [Next]_vars
    PROVE  Shell!ShellNext \/ UNCHANGED Shell!shell
<1>0. TypeOK
  BY DEF ChildrenInv
<1>a. ASSUME barUnchanged PROVE UNCHANGED Shell!shell
  BY <1>a, SameIsStutter
<1>b. pc \in Running => phaseBar = "busy" /\ Head(todoBar) = Cur
  BY <1>0, TodoFacts DEF phaseBar, ShellAlive, Running, Gone
<1>c. pc \in Running /\ Advance => dropsBar
  BY <1>0, AdvanceDrops DEF dropsBar
<1>d. UNCHANGED jobs => UNCHANGED startedBar
  BY DEF startedBar
<1>1. CASE UNCHANGED vars
  BY <1>1, <1>a, QuietBar DEF vars
<1>2. CASE ReadLine
  <2>1. PICK l \in Lists : line' = l /\ i' = 1
    BY <1>2 DEF ReadLine
  <2>2. todoBar' = l
    BY <2>1, ListsAssumption, SubSeqFull DEF todoBar
  <2>3. phaseBar = "idle" /\ phaseBar' = "busy" /\ UNCHANGED <<jobs, status>>
    BY <1>2 DEF ReadLine, phaseBar, ShellAlive, Gone
  <2>4. Shell!Accept
    BY <1>d, <2>1, <2>2, <2>3, AbstractSteps
  <2> QED
    BY <2>4 DEF Shell!ShellNext
<1>3. CASE BuiltinSkipped \/ BuiltinLosesFd \/ PipeFails
  <2>1. pc = "cmd" /\ Advance /\ UNCHANGED <<jobs, status>>
    BY <1>3 DEF BuiltinSkipped, BuiltinLosesFd, PipeFails
  <2>2. Shell!Skip
    BY <1>b, <1>c, <1>d, <2>1, AbstractSteps DEF Running
  <2> QED
    BY <2>2 DEF Shell!ShellNext
<1>4. CASE BuiltinReturns
  <2>1. pc = "cmd" /\ RunsInShell(Cur) /\ Advance /\ UNCHANGED jobs
    BY <1>4 DEF BuiltinReturns
  <2>2. status' \in CommandOutcomes(Cur)
    BY <1>4, <2>1 DEF BuiltinReturns, CommandOutcomes
  <2>3. Cur.type \notin {"BACKGROUND", "PIPED"}
    BY <2>1 DEF RunsInShell, Async
  <2>4. Shell!Finish
    BY <1>b, <1>c, <1>d, <2>1, <2>2, <2>3, AbstractSteps DEF Running
  <2> QED
    BY <2>4 DEF Shell!ShellNext
<1>5. CASE BuiltinCrashes \/ BuiltinExec \/ BuiltinExit \/ ReadEof
  <2>1. /\ pc \notin Gone /\ pc' \in Gone /\ line' = <<>> /\ i' = 1
        /\ jobs' = <<>> /\ UNCHANGED status
    BY <1>5 DEF BuiltinCrashes, BuiltinExec, BuiltinExit, ReadEof, ExitPsh, Gone
  <2>2. Shell!Quit
    BY <2>1, QuitBar
  <2> QED
    BY <2>2 DEF Shell!ShellNext
<1>6. CASE MakePipe \/ Fork \/ ForkFails
  <2>1. /\ UNCHANGED <<line, i, jobs, status>>
        /\ pc \in Running /\ pc' \in Running
    BY <1>6 DEF MakePipe, Fork, ForkFails, AboutToFork, Running
  <2> QED
    BY <1>a, <2>1, QuietBar
<1>7. CASE ParentAfterFork
  <2>0. pc \in Running /\ UNCHANGED status
    BY <1>7 DEF ParentAfterFork, Running
  <2>1. CASE pid = NoPid /\ Leave /\ UNCHANGED jobs
    <3>1. todoBar' = <<>>
      BY <2>1, SubSeqEmpty, EmptySeq DEF Leave, todoBar
    <3>2. phaseBar' = "idle"
      BY <2>1 DEF Leave, phaseBar
    <3>3. Shell!GiveUp
      BY <1>b, <1>d, <2>0, <2>1, <3>1, <3>2, AbstractSteps
    <3> QED
      BY <3>3 DEF Shell!ShellNext
  <2>2. CASE pid # NoPid /\ Async(Cur) /\ JobsAdd /\ Advance
    <3> DEFINE e == [pid |-> pid, type |-> Cur.type]
    <3>1. e \in JobEntries /\ jobs \in Seq(JobEntries) /\ jobs' = Append(jobs, e)
      BY <1>0, <2>2 DEF TypeOK, JobEntries, Async, JobsAdd
    <3>2. startedBar' = Append(startedBar, Cur.type)
      BY <3>1, StartedGrows DEF startedBar
    <3>3. Shell!Start
      BY <1>b, <1>c, <2>0, <2>2, <3>2, AbstractSteps DEF Async
    <3> QED
      BY <3>3 DEF Shell!ShellNext
  <2>3. CASE pc' = "wait" /\ UNCHANGED <<line, i, pipeFd, jobs>>
    BY <1>a, <2>0, <2>3, QuietBar DEF Running
  <2> QED
    BY <1>7, <2>1, <2>2, <2>3 DEF ParentAfterFork
<1>8. CASE WaitForeground
  <2>1. pc = "wait" /\ Advance /\ UNCHANGED jobs /\ status' = proc[pid].status
        /\ proc[pid].state = "zombie"
    BY <1>8 DEF WaitForeground
  <2>2. pid # NoPid
    BY <1>0, <2>1, PidsAssumption DEF TypeOK
  <2>3. ~Async(Cur) /\ status' \in CommandOutcomes(Cur)
    BY <2>1, <2>2 DEF ForegroundInv
  <2>4. Shell!Finish
    BY <1>b, <1>c, <1>d, <2>1, <2>3, AbstractSteps DEF Running, Async
  <2> QED
    BY <2>4 DEF Shell!ShellNext
<1>9. CASE ExecedEnds
  BY <1>9, <1>a, QuietBar DEF ExecedEnds, Gone
<1>10. ASSUME NEW p \in Pids, ChildStep(p) \/ ProgramEnds(p) \/ Environment(p)
       PROVE  barUnchanged
  <2>1. UNCHANGED <<pc, line, i, jobs, status>>
    BY <1>10, ProcessesKeepShell DEF shellVars
  <2> QED
    BY <2>1, QuietBar
<1> QED
  BY <1>1, <1>2, <1>3, <1>4, <1>5, <1>6, <1>7, <1>8, <1>9, <1>10, <1>a
     DEF Next, DoRun

(* The runner implements PshShell: commands in order, a foreground one to  *)
(* its end before the next is taken, "?" set by foreground commands only,  *)
(* each to a value that command can give, jobs only ever added.            *)
THEOREM RunnerImplementsShell == Spec => RunsTheLine
<1>1. Init => Shell!ShellInit
  <2>1. Init => todoBar = <<>> /\ startedBar = <<>> /\ phaseBar = "idle"
    BY NothingToDo, NothingStarted DEF Init, phaseBar
  <2> QED
    BY <2>1 DEF Init, Shell!ShellInit, todoBar, startedBar, phaseBar
<1>2. Init => ChildrenInv /\ WriteEndsInv /\ ForegroundInv
  BY ChildrenInvInit, KindFacts DEF Init, InitFds, WriteEndsInv, ForegroundInv
<1>3. ChildrenInv /\ WriteEndsInv /\ ForegroundInv /\ [Next]_vars
        => ChildrenInv' /\ WriteEndsInv' /\ ForegroundInv'
  BY ChildrenInvStep, WriteEndsStep, ForegroundStep DEF ChildrenInv
<1>4. ChildrenInv /\ WriteEndsInv /\ ForegroundInv /\ [Next]_vars
        => [Shell!ShellNext]_(Shell!shell)
  BY StepSimulation
<1> QED
  BY <1>1, <1>2, <1>3, <1>4, PTL DEF Spec, RunsTheLine, Shell!ShellSpec
=============================================================================
