--------------------------- MODULE PshPathsProofs ---------------------------
(***************************************************************************)
(* Proofs about PshPaths, for every set of directories, links, files and   *)
(* texts, every PATH, and any number of changes by other processes.        *)
(***************************************************************************)
EXTENDS PshPaths, PshNumbers, FiniteSetTheorems, SequenceTheorems

-----------------------------------------------------------------------------
(* What a path leads to *)

LEMMA SameDirsSameFiles ==
    ASSUME NEW t, NEW c, UNCHANGED <<tree, cwd>>
    PROVE  /\ FileAt(t, c)' <=> FileAt(t, c)
           /\ RunsAt(t, c)' <=> RunsAt(t, c)
           /\ FirstInPath(t, c)' <=> FirstInPath(t, c)
BY DEF FirstInPath, RunsAt, FileAt, Resolve, Walk, StepTo, Entry, IsThere

(* An absolute path does not depend on the working directory. *)
LEMMA AbsolutePathsStay ==
    ASSUME NEW t, NEW c, IsAbsolute(t), UNCHANGED tree
    PROVE  FileAt(t, c)' <=> FileAt(t, c)
<1>1. Resolve(t) = Walk(Root, Parts(t)) /\ Resolve(t)' = Walk(Root, Parts(t))'
  BY DEF Resolve
<1>2. Walk(Root, Parts(t))' = Walk(Root, Parts(t))
  BY DEF Walk, StepTo, Entry, IsThere
<1> QED
  BY <1>1, <1>2 DEF FileAt

(* psh_search_path finds the first file there is. *)
LEMMA SearchFinds ==
    ASSUME NEW c, SearchPath(c) # NotSet
    PROVE  FirstInPath(SearchPath(c), c)
<1> DEFINE hits == {n \in DOMAIN Path : FileAt(InElement(n), c)}
<1>1. hits # {} /\ SearchPath(c) = InElement(Min(hits))
  BY DEF SearchPath
<1>2. hits \subseteq Nat /\ DOMAIN Path = 1 .. Len(Path) /\ Len(Path) \in Nat
  BY PathAssumption, LenProperties
<1>3. Min(hits) \in hits /\ \A k \in hits : Min(hits) <= k
  <2> HIDE DEF hits
  <2> QED
    BY <1>1, <1>2, MinIsLeast
<1>4. \A k \in 1 .. Min(hits) - 1 : k \notin hits /\ k \in DOMAIN Path
  <2>1. hits \subseteq DOMAIN Path
    OBVIOUS
  <2>2. Min(hits) \in 1 .. Len(Path)
    <3> HIDE DEF hits
    <3> QED
      BY <1>2, <1>3, <2>1
  <2> DEFINE m == Min(hits)
  <2> HIDE DEF hits, m
  <2>3. m \in 1 .. Len(Path) /\ \A k \in hits : m <= k
    BY <1>3, <2>2 DEF m
  <2>4. \A k \in 1 .. m - 1 : k \notin hits /\ k \in 1 .. Len(Path)
    BY <1>2, <2>3
  <2> QED
    BY <1>2, <2>4 DEF m
<1>5. \A k \in 1 .. Min(hits) - 1 : ~FileAt(InElement(k), c)
  BY <1>4
<1> QED
  BY <1>1, <1>3, <1>5 DEF FirstInPath

(* Through a cd an absolute path stays the first: a file that a relative   *)
(* element before it leads to by now does not count.                       *)
LEMMA FirstStays ==
    ASSUME NEW t, NEW c, IsAbsolute(t), FirstInPath(t, c), UNCHANGED tree
    PROVE  FirstInPath(t, c)'
<1>1. PICK n \in DOMAIN Path :
        /\ InElement(n) = t /\ FileAt(t, c)
        /\ \A k \in 1 .. n - 1 :
              FileAt(InElement(k), c) => IsAbsolute(t) /\ ~IsAbsolute(InElement(k))
  BY DEF FirstInPath
<1>2. \A k \in 1 .. n - 1 : FileAt(InElement(k), c)' => ~IsAbsolute(InElement(k))
  BY <1>1, AbsolutePathsStay
<1>3. FileAt(t, c)'
  BY <1>1, AbsolutePathsStay
<1> QED
  BY <1>1, <1>2, <1>3 DEF FirstInPath

-----------------------------------------------------------------------------
(* A command counts as found while its remembered path is the first in     *)
(* PATH with a file of its name.  A job that executes it has that path.    *)
FoundAreFirst ==
    /\ seen.found \subseteq Commands
    /\ job.do # "fault" => \A c \in seen.found : FirstInPath(remembered[c], c)

JobHasThePath ==
    job.do \in {"exec", "failed"} =>
        \E c \in Commands :
            job.cmd = {c} /\ (c \in seen.found => job.argv[1] = remembered[c])

FailedDoNotRun ==
    job.do = "failed" => \A c \in job.cmd \cap seen.found : ~RunsAt(job.argv[1], c)

FoundInv ==
    /\ DOMAIN remembered = Commands
    /\ DOMAIN seen = {"pwd", "old", "found"}
    /\ FoundAreFirst /\ JobHasThePath /\ FailedDoNotRun

LEMMA PromptRuns == Prompt.do = "prompt" /\ Fault.do = "fault"
BY DEF Prompt, Fault

LEMMA CdKeepsFound ==
    ASSUME FoundInv, Cd
    PROVE  FoundInv'
<1>1. job.do = "cd" /\ UNCHANGED <<tree, remembered>>
  BY DEF Cd, Stays, Moved
<1>2. CASE job' \in {Prompt, Fault} /\ UNCHANGED <<cwd, seen>>
  <2>1. job'.do \in {"prompt", "fault"}
    BY <1>2, PromptRuns
  <2>2. FoundAreFirst'
    BY <1>1, <1>2, SameDirsSameFiles DEF FoundInv, FoundAreFirst
  <2> QED
    BY <1>1, <1>2, <2>1, <2>2 DEF FoundInv, JobHasThePath, FailedDoNotRun
<1>3. CASE job' = Fault /\ UNCHANGED seen
  BY <1>1, <1>3, PromptRuns DEF FoundInv, FoundAreFirst, JobHasThePath, FailedDoNotRun
<1>4. CASE /\ job' = Prompt
           /\ seen' = [pwd |-> TRUE, old |-> IF seen.pwd THEN cwd ELSE NoDir,
                       found |-> {c \in seen.found : IsAbsolute(remembered[c])}]
  <2>1. \A c \in seen'.found : c \in seen.found /\ IsAbsolute(remembered[c])
    BY <1>4
  <2>2. \A c \in seen'.found : FirstInPath(remembered[c], c)'
    BY <1>1, <2>1, FirstStays DEF FoundInv, FoundAreFirst
  <2>3. DOMAIN seen' = {"pwd", "old", "found"}
    BY <1>4
  <2> QED
    BY <1>1, <1>4, <2>1, <2>2, <2>3, PromptRuns
       DEF FoundInv, FoundAreFirst, JobHasThePath, FailedDoNotRun
<1>5. ASSUME NEW dest, Moved(dest)
      PROVE  \/ job' = Fault /\ UNCHANGED seen
             \/ /\ job' = Prompt
                /\ seen' = [pwd |-> TRUE, old |-> IF seen.pwd THEN cwd ELSE NoDir,
                            found |-> {c \in seen.found : IsAbsolute(remembered[c])}]
  BY <1>5 DEF Moved
<1>6. ASSUME NEW next \in {Prompt, Fault}, Stays(next)
      PROVE  job' \in {Prompt, Fault} /\ UNCHANGED <<cwd, seen>>
  BY <1>6 DEF Stays
<1>7. Stays(Prompt) \/ Stays(Fault) \/ \E dest : Moved(dest)
  BY DEF Cd
<1> QED
  BY <1>2, <1>3, <1>4, <1>5, <1>6, <1>7

LEMMA LookUpKeepsFound ==
    ASSUME FoundInv, NEW c \in Commands, LookUp(c)
    PROVE  FoundInv'
<1>1. job = Prompt /\ UNCHANGED <<tree, cwd>>
  BY DEF LookUp
<1>2. \A t, d : FirstInPath(t, d)' <=> FirstInPath(t, d)
  BY <1>1, SameDirsSameFiles
<1>3. CASE UNCHANGED <<job, remembered, seen>>
  BY <1>1, <1>2, <1>3, PromptRuns DEF FoundInv, FoundAreFirst, JobHasThePath, FailedDoNotRun
<1>4. CASE /\ SearchPath(c) # NotSet
           /\ remembered' = [remembered EXCEPT ![c] = SearchPath(c)]
           /\ seen' = [seen EXCEPT !.found = @ \cup {c}]
           /\ job' = [do |-> "exec", argv |-> <<SearchPath(c)>>, cmd |-> {c}]
  <2>1. /\ DOMAIN remembered' = Commands /\ remembered'[c] = SearchPath(c)
        /\ \A d \in Commands \ {c} : remembered'[d] = remembered[d]
    BY <1>4 DEF FoundInv
  <2>2. DOMAIN seen' = DOMAIN seen /\ seen'.found = seen.found \cup {c}
    BY <1>4 DEF FoundInv
  <2>3. job'.do = "exec" /\ job'.cmd = {c} /\ job'.argv[1] = SearchPath(c)
    BY <1>4
  <2>4. FirstInPath(SearchPath(c), c)
    BY <1>4, SearchFinds
  <2>5. \A d \in seen'.found : FirstInPath(remembered'[d], d)
    BY <1>1, <2>1, <2>2, <2>4, PromptRuns DEF FoundInv, FoundAreFirst
  <2>6. FoundAreFirst'
    BY <1>2, <2>2, <2>5 DEF FoundInv, FoundAreFirst
  <2> QED
    BY <2>1, <2>2, <2>3, <2>6 DEF FoundInv, JobHasThePath, FailedDoNotRun
<1>5. CASE /\ job' = [do |-> "exec", argv |-> <<remembered[c]>>, cmd |-> {c}]
           /\ UNCHANGED <<remembered, seen>>
  <2>1. job'.do = "exec" /\ job'.cmd = {c} /\ job'.argv[1] = remembered[c]
    BY <1>5
  <2>2. FoundAreFirst'
    BY <1>1, <1>2, <1>5, PromptRuns DEF FoundInv, FoundAreFirst
  <2> QED
    BY <1>5, <2>1, <2>2 DEF FoundInv, JobHasThePath, FailedDoNotRun
<1> QED
  BY <1>3, <1>4, <1>5 DEF LookUp

LEMMA HashKeepsFound ==
    ASSUME FoundInv, NEW options \in SUBSET {"d", "p", "r", "t"}, NEW t,
           NEW names \in SUBSET Commands, Hash(options, t, names)
    PROVE  FoundInv'
<1>1. job = Prompt /\ UNCHANGED <<tree, cwd, job>>
  BY DEF Hash
<1>2. \A u, d : FirstInPath(u, d)' <=> FirstInPath(u, d)
  BY <1>1, SameDirsSameFiles
<1>3. CASE UNCHANGED <<remembered, seen>>
  BY <1>1, <1>2, <1>3, PromptRuns DEF FoundInv, FoundAreFirst, JobHasThePath, FailedDoNotRun
<1>4. ASSUME NEW m \in SUBSET Commands, NEW u, Sets(m, u)
      PROVE  FoundInv'
  <2>1. /\ DOMAIN remembered' = Commands
        /\ \A d \in Commands \ m : remembered'[d] = remembered[d]
    BY <1>4 DEF Sets
  <2>2. DOMAIN seen' = DOMAIN seen /\ seen'.found = seen.found \ m
    BY <1>4 DEF Sets, FoundInv
  <2>3. FoundAreFirst'
    BY <1>1, <1>2, <2>1, <2>2, PromptRuns DEF FoundInv, FoundAreFirst
  <2> QED
    BY <1>1, <2>1, <2>2, <2>3, PromptRuns DEF FoundInv, JobHasThePath, FailedDoNotRun
<1>5. CASE SearchesAll(names)
  <2> DEFINE hits == {c \in names : SearchPath(c) # NotSet}
  <2>1. /\ DOMAIN remembered' = Commands
        /\ \A d \in Commands :
             remembered'[d] = IF d \in hits THEN SearchPath(d) ELSE remembered[d]
    BY <1>5 DEF SearchesAll
  <2>2. DOMAIN seen' = DOMAIN seen /\ seen'.found = seen.found \cup hits
    BY <1>5 DEF SearchesAll, FoundInv
  <2>3. \A d \in hits : d \in Commands /\ FirstInPath(SearchPath(d), d)
    BY SearchFinds
  <2> HIDE DEF hits
  <2>4. \A d \in seen'.found : FirstInPath(remembered'[d], d)
    BY <1>1, <2>1, <2>2, <2>3, PromptRuns DEF FoundInv, FoundAreFirst
  <2>5. FoundAreFirst'
    BY <1>2, <2>2, <2>3, <2>4 DEF FoundInv, FoundAreFirst
  <2> QED
    BY <1>1, <2>1, <2>2, <2>5, PromptRuns DEF FoundInv, JobHasThePath, FailedDoNotRun
<1>6. \/ \E m \in SUBSET Commands : \E u : Sets(m, u)
      \/ SearchesAll(names)
      \/ UNCHANGED <<remembered, seen>>
  <2>1. \/ "r" \in options \/ "p" \in options
        \/ options \cap {"r", "p", "d"} = {"d"} \/ options = {"t"} \/ options = {}
    <3>1. CASE "d" \in options
      BY <3>1
    <3>2. CASE "d" \notin options
      BY <3>2
    <3> QED
      BY <3>1, <3>2
  <2>2. \/ Sets(Commands, NotSet) \/ Sets(names, t) \/ Sets(names, NotSet)
        \/ UNCHANGED <<remembered, seen>> \/ SearchesAll(names)
    BY <2>1 DEF Hash
  <2> QED
    BY <2>2
<1> QED
  BY <1>3, <1>4, <1>5, <1>6

(* The child executes the path it was given; nothing has changed since it  *)
(* was found, or the command does not count as found.                      *)
LEMMA ExecKeepsFound ==
    ASSUME FoundInv, Exec \/ ExecFailed
    PROVE  FoundInv'
<1>1. UNCHANGED <<tree, cwd, remembered, seen>> /\ job.do \in {"exec", "failed"}
  BY DEF Exec, ExecFailed, Stays
<1>2. \A u, d : FirstInPath(u, d)' <=> FirstInPath(u, d)
  BY <1>1, SameDirsSameFiles
<1>3. FoundAreFirst'
  BY <1>1, <1>2 DEF FoundInv, FoundAreFirst
<1>4. CASE job' = Prompt
  BY <1>1, <1>3, <1>4, PromptRuns DEF FoundInv, JobHasThePath, FailedDoNotRun
<1>5. CASE /\ job.do = "exec" /\ job' = [job EXCEPT !.do = "failed"]
           /\ \E c \in job.cmd : ~RunsAt(job.argv[1], c)
  <2>1. PICK c \in Commands :
          job.cmd = {c} /\ (c \in seen.found => job.argv[1] = remembered[c])
    BY <1>5 DEF FoundInv, JobHasThePath
  <2>2. ~RunsAt(job.argv[1], c)
    BY <1>5, <2>1
  <2>3. job'.cmd = {c} /\ job'.argv = job.argv
    BY <1>5, <2>1
  <2>4. \A u, d : RunsAt(u, d)' <=> RunsAt(u, d)
    BY <1>1, SameDirsSameFiles
  <2> QED
    BY <1>1, <1>3, <2>1, <2>2, <2>3, <2>4 DEF FoundInv, JobHasThePath, FailedDoNotRun
<1> QED
  BY <1>4, <1>5 DEF Exec, ExecFailed, Stays

LEMMA ChangeKeepsFound ==
    ASSUME FoundInv, NEW t, Changed(t), seen'.found = {},
           DOMAIN seen' = {"pwd", "old", "found"}
    PROVE  FoundInv'
BY DEF Changed, FoundInv, FoundAreFirst, JobHasThePath, FailedDoNotRun

LEMMA FoundStep ==
    ASSUME FoundInv, [Next]_vars
    PROVE  FoundInv'
<1>1. CASE Restart
  <2>1. job' = Prompt /\ DOMAIN remembered' = Commands
    BY <1>1 DEF Restart, NoCommands
  <2>2. seen'.found = {} /\ DOMAIN seen' = {"pwd", "old", "found"}
    BY <1>1 DEF Restart
  <2> QED
    BY <2>1, <2>2, PromptRuns DEF FoundInv, FoundAreFirst, JobHasThePath, FailedDoNotRun
<1>2. CASE UNCHANGED vars
  <2>1. UNCHANGED <<tree, cwd, remembered, seen, job>>
    BY <1>2 DEF vars
  <2>2. \A u, d : /\ FirstInPath(u, d)' <=> FirstInPath(u, d)
                  /\ RunsAt(u, d)' <=> RunsAt(u, d)
    BY <2>1, SameDirsSameFiles
  <2> QED
    BY <2>1, <2>2 DEF FoundInv, FoundAreFirst, JobHasThePath, FailedDoNotRun
<1>3. ASSUME NEW argv, Call(argv)
      PROVE  FoundInv'
  <2>1. job = Prompt /\ job'.do = "cd" /\ UNCHANGED <<tree, cwd, remembered, seen>>
    BY <1>3 DEF Call, Stays, Prompt
  <2>2. \A u, d : FirstInPath(u, d)' <=> FirstInPath(u, d)
    BY <2>1, SameDirsSameFiles
  <2> QED
    BY <2>1, <2>2, PromptRuns DEF FoundInv, FoundAreFirst, JobHasThePath, FailedDoNotRun
<1>4. ASSUME NEW t, DirsChanged(t)
      PROVE  FoundInv'
  BY <1>4, ChangeKeepsFound DEF DirsChanged
<1>5. ASSUME NEW files, FilesChanged(files)
      PROVE  FoundInv'
  <2>1. seen'.found = {} /\ DOMAIN seen' = {"pwd", "old", "found"}
    BY <1>5 DEF FilesChanged, FoundInv
  <2> QED
    BY <1>5, <2>1, ChangeKeepsFound DEF FilesChanged
<1> QED
  BY <1>1, <1>2, <1>3, <1>4, <1>5, CdKeepsFound, LookUpKeepsFound, HashKeepsFound,
     ExecKeepsFound DEF Next, RenameDir, RemoveDir, MoveFile, ChangeFile

(* A command whose path was found executes the first file of its name in   *)
(* PATH, while nothing changes: get_cmd_realpath, cd and hash keep the     *)
(* remembered paths right.  It fails only if this cannot be executed.      *)
THEOREM FoundCommandsRun == Spec => []RunsFirstInPath
<1>1. Init => FoundInv
  BY PromptRuns
     DEF Init, Starts, NoCommands, FoundInv, FoundAreFirst, JobHasThePath, FailedDoNotRun
<1>2. FoundInv /\ [Next]_vars => FoundInv'
  BY FoundStep
<1>3. FoundInv => RunsFirstInPath
  BY DEF FoundInv, FoundAreFirst, JobHasThePath, FailedDoNotRun, RunsFirstInPath
<1> QED
  BY <1>1, <1>2, <1>3, PTL DEF Spec

-----------------------------------------------------------------------------
(* Texts and their parts *)

(* What a part can be *)
Words == {p \in Texts : p # <<>> /\ \A i \in DOMAIN p : p[i] # "/"}

LEMMA Characters == Slash \in Texts /\ Dot \in Texts /\ DotDot \in Texts /\ Dash \in Texts
<1>1. "/" \in Chars /\ "." \in Chars /\ "-" \in Chars
  BY CharsAssumption
<1>2. ASSUME NEW c \in Chars
      PROVE  <<c>> \in Seq(Chars) /\ <<c, c>> \in Seq(Chars)
  OBVIOUS
<1> QED
  BY <1>1, <1>2 DEF Slash, Dot, DotDot, Dash, Texts

LEMMA OneWord ==
    ASSUME NEW c \in Chars, c # "/"
    PROVE  <<c>> \in Words
BY DEF Words, Texts

LEMMA LongerWord ==
    ASSUME NEW w \in Words, NEW c \in Chars, c # "/"
    PROVE  Append(w, c) \in Words
<1>1. Append(w, c) \in Texts /\ Append(w, c) # <<>>
  BY AppendProperties DEF Words, Texts
<1>2. ASSUME NEW i \in DOMAIN Append(w, c)
      PROVE  Append(w, c)[i] # "/"
  BY <1>2, AppendProperties DEF Words, Texts
<1> QED
  BY <1>1, <1>2 DEF Words

(* The parts of the first n characters, for each n *)
PartsUpto(t) ==
    LET upto[n \in 0 .. Len(t)] ==
            IF n = 0 THEN <<>> ELSE Extended(upto[n - 1], t, n)
    IN  upto

(* After a character that is no slash the last part has just been extended. *)
PartsAt(t) == [n \in 0 .. Len(t) |->
                 {ps \in Seq(Words) : n # 0 /\ t[n] # "/" => ps # <<>>}]

LEMMA ExtendedIs ==
    ASSUME NEW t \in Texts, NEW n \in 1 .. Len(t), NEW ps \in PartsAt(t)[n - 1]
    PROVE  Extended(ps, t, n) \in PartsAt(t)[n]
<1>1. t[n] \in Chars /\ n \in 0 .. Len(t) /\ n - 1 \in 0 .. Len(t) /\ n # 0 /\ ps \in Seq(Words)
  BY DEF Texts, PartsAt
<1>2. CASE t[n] = "/"
  BY <1>1, <1>2 DEF Extended, PartsAt
<1>3. CASE t[n] # "/" /\ (n = 1 \/ t[n - 1] = "/")
  <2>1. Extended(ps, t, n) = Append(ps, <<t[n]>>)
    BY <1>3 DEF Extended
  <2>2. <<t[n]>> \in Words
    BY <1>1, <1>3, OneWord
  <2>3. Append(ps, <<t[n]>>) \in Seq(Words) /\ Append(ps, <<t[n]>>) # <<>>
    BY <1>1, <2>2, AppendProperties
  <2> QED
    BY <1>1, <2>1, <2>3 DEF PartsAt
<1>4. CASE t[n] # "/" /\ n # 1 /\ t[n - 1] # "/"
  <2>1. Extended(ps, t, n) = Append(Front(ps), Append(Last(ps), t[n]))
    BY <1>4 DEF Extended
  <2>2. ps # <<>>
    BY <1>1, <1>4 DEF PartsAt
  <2>3. Last(ps) \in Words /\ Front(ps) \in Seq(Words)
    <3>1. Len(ps) \in Nat \ {0}
      BY <1>1, <2>2
    <3> QED
      BY <1>1, <3>1 DEF Last, Front
  <2>4. Append(Last(ps), t[n]) \in Words
    BY <1>1, <1>4, <2>3, LongerWord
  <2>5. /\ Append(Front(ps), Append(Last(ps), t[n])) \in Seq(Words)
        /\ Append(Front(ps), Append(Last(ps), t[n])) # <<>>
    BY <2>3, <2>4, AppendProperties
  <2> QED
    BY <1>1, <2>1, <2>5 DEF PartsAt
<1> QED
  BY <1>2, <1>3, <1>4

LEMMA PartsAre ==
    ASSUME NEW t \in Texts
    PROVE  /\ Parts(t) = PartsUpto(t)[Len(t)]
           /\ PartsUpto(t) = [n \in 0 .. Len(t) |->
                                IF n = 0 THEN <<>> ELSE Extended(PartsUpto(t)[n - 1], t, n)]
           /\ \A n \in 0 .. Len(t) : PartsUpto(t)[n] \in PartsAt(t)[n]
<1> DEFINE E(f) == [n \in 0 .. Len(t) |-> IF n = 0 THEN <<>> ELSE Extended(f[n - 1], t, n)]
           G == [z \in Seq(Words) \X (1 .. Len(t)) |-> Extended(z[1], t, z[2])]
<1>1. Len(t) \in Nat
  BY DEF Texts
<1>2. <<>> \in PartsAt(t)[0]
  BY <1>1 DEF PartsAt
<1>3. ASSUME NEW n \in 1 .. Len(t), NEW ps \in PartsAt(t)[n - 1]
      PROVE  G[<<ps, n>>] = Extended(ps, t, n)
  <2>1. n - 1 \in 0 .. Len(t)
    BY <1>1
  <2>2. ps \in Seq(Words)
    BY <2>1 DEF PartsAt
  <2> QED
    BY <2>2
<1> HIDE DEF G
<1>4. PICK f : /\ f[0] = <<>> /\ \A n \in 1 .. Len(t) : f[n] = G[<<f[n - 1], n>>]
               /\ \A n \in 0 .. Len(t) : f[n] \in PartsAt(t)[n]
  <2>1. \A n \in 1 .. Len(t) : \A ps \in PartsAt(t)[n - 1] : G[<<ps, n>>] \in PartsAt(t)[n]
    BY <1>3, ExtendedIs
  <2> DEFINE S == PartsAt(t)  n == Len(t)
  <2>2. n \in Nat /\ <<>> \in S[0] /\ StepsIn(n, S, G)
    BY <1>1, <1>2, <2>1 DEF StepsIn
  <2> HIDE DEF S, n
  <2>3. \E f : RunOf(f, n, S, <<>>, G)
    BY <2>2, Recursion
  <2> QED
    BY <2>3 DEF S, n, RunOf
<1> DEFINE g == [n \in 0 .. Len(t) |-> IF n = 0 THEN <<>> ELSE Extended(f[n - 1], t, n)]
<1>5. g = E(g)
  <2>1. ASSUME NEW n \in 0 .. Len(t)
        PROVE  g[n] = f[n]
    <3>1. CASE n # 0
      <4>1. n \in 1 .. Len(t) /\ n - 1 \in 0 .. Len(t)
        BY <1>1, <3>1
      <4> QED
        BY <1>3, <1>4, <4>1
    <3> QED
      BY <1>4, <3>1
  <2>2. \A n \in 0 .. Len(t) : n # 0 => g[n - 1] = f[n - 1]
    <3>1. \A n \in 0 .. Len(t) : n # 0 => n - 1 \in 0 .. Len(t)
      BY <1>1
    <3> HIDE DEF g
    <3> QED
      BY <2>1, <3>1
  <2> QED
    BY <2>2
<1>6. PartsUpto(t) = E(PartsUpto(t))
  BY <1>5 DEF PartsUpto
<1>7. \A n \in 0 .. Len(t) : PartsUpto(t)[n] \in PartsAt(t)[n]
  <2>1. PartsUpto(t)[0] = <<>>
    BY <1>1, <1>6
  <2>2. \A n \in 1 .. Len(t) : PartsUpto(t)[n] = Extended(PartsUpto(t)[n - 1], t, n)
    BY <1>1, <1>6
  <2> QED
    <3>1. \A n \in 1 .. Len(t) :
             PartsUpto(t)[n - 1] \in PartsAt(t)[n - 1] => PartsUpto(t)[n] \in PartsAt(t)[n]
      BY <2>2, ExtendedIs
    <3> DEFINE r == PartsUpto(t)  S == PartsAt(t)  n == Len(t)
    <3>2. n \in Nat /\ r[0] \in S[0] /\ \A i \in 1 .. n : r[i - 1] \in S[i - 1] => r[i] \in S[i]
      BY <1>1, <1>2, <2>1, <3>1
    <3>3. \A i \in 0 .. n : r[i] \in S[i]
      <4> HIDE DEF r, S, n
      <4> QED
        BY <3>2, Along
    <3> QED
      BY <3>3
<1> QED
  BY <1>6, <1>7 DEF Parts, PartsUpto

LEMMA PartsOfNone == Parts(<<>>) = <<>>
<1>1. <<>> \in Texts /\ Len(<<>>) = 0
  BY DEF Texts
<1> QED
  BY <1>1, PartsAre

LEMMA PartsType ==
    ASSUME NEW t \in Texts
    PROVE  Parts(t) \in Seq(Words) /\ (t # <<>> /\ t[Len(t)] # "/" => Parts(t) # <<>>)
<1>1. Len(t) \in Nat /\ Len(t) \in 0 .. Len(t) /\ (t # <<>> => Len(t) # 0)
  BY DEF Texts
<1> QED
  BY <1>1, PartsAre DEF PartsAt

(* What the parts of a longer text begin with *)
LEMMA PartsOfPrefix ==
    ASSUME NEW t \in Texts, NEW u \in Texts, Len(t) <= Len(u),
           \A i \in 1 .. Len(t) : u[i] = t[i]
    PROVE  Parts(t) = PartsUpto(u)[Len(t)]
<1>1. Len(t) \in Nat /\ Len(u) \in Nat
  BY DEF Texts
<1> DEFINE S == [n \in 0 .. Len(t) |-> {PartsUpto(t)[n]}]  g == PartsUpto(u)  n == Len(t)
<1>2. g[0] \in S[0]
  BY <1>1, PartsAre
<1>3. ASSUME NEW i \in 1 .. n, g[i - 1] \in S[i - 1]
      PROVE  g[i] \in S[i]
  <2>1. i \in 0 .. n /\ i - 1 \in 0 .. n /\ i # 0 /\ i \in 0 .. Len(u)
    BY <1>1
  <2>2. g[i - 1] = PartsUpto(t)[i - 1]
    BY <1>3, <2>1
  <2>3. g[i] = Extended(g[i - 1], u, i) /\ PartsUpto(t)[i] = Extended(PartsUpto(t)[i - 1], t, i)
    BY <2>1, PartsAre
  <2>4. u[i] = t[i] /\ (i # 1 => u[i - 1] = t[i - 1])
    BY <1>1
  <2>5. Extended(g[i - 1], u, i) = Extended(g[i - 1], t, i)
    BY <2>4 DEF Extended
  <2>6. g[i] = PartsUpto(t)[i]
    BY <2>2, <2>3, <2>5
  <2> QED
    BY <2>1, <2>6
<1>4. \A i \in 0 .. n : g[i] \in S[i]
  <2>1. n \in Nat
    BY <1>1
  <2> HIDE DEF g, S, n
  <2> QED
    BY <2>1, <1>2, <1>3, Along
<1>5. n \in 0 .. n
  BY <1>1
<1> QED
  BY <1>4, <1>5, PartsAre

LEMMA PartsOfAppend ==
    ASSUME NEW t \in Texts, NEW c \in Chars
    PROVE  Parts(Append(t, c)) =
              IF c = "/" THEN Parts(t)
              ELSE IF t = <<>> \/ t[Len(t)] = "/" THEN Append(Parts(t), <<c>>)
              ELSE Append(Front(Parts(t)), Append(Last(Parts(t)), c))
<1> DEFINE u == Append(t, c)
<1>1. /\ u \in Texts /\ Len(u) = Len(t) + 1 /\ Len(t) \in Nat /\ u[Len(u)] = c
      /\ \A i \in 1 .. Len(t) : u[i] = t[i]
  BY AppendProperties DEF Texts
<1> HIDE DEF u
<1>2. Parts(t) = PartsUpto(u)[Len(u) - 1]
  BY <1>1, PartsOfPrefix
<1>3. Parts(u) = Extended(PartsUpto(u)[Len(u) - 1], u, Len(u))
  <2>1. Len(u) \in 0 .. Len(u) /\ Len(u) # 0
    BY <1>1
  <2> QED
    BY <1>1, <2>1, PartsAre
<1>4. Parts(u) = Extended(Parts(t), u, Len(u))
  BY <1>2, <1>3
<1>5. CASE t = <<>>
  <2>1. Len(u) = 1
    BY <1>1, <1>5
  <2> QED
    BY <1>1, <1>4, <1>5, <2>1 DEF Extended, u
<1>6. CASE t # <<>>
  <2>1. Len(u) # 1 /\ u[Len(u) - 1] = t[Len(t)]
    BY <1>1, <1>6 DEF Texts
  <2> QED
    BY <1>1, <1>4, <1>6, <2>1 DEF Extended, u
<1> QED
  BY <1>5, <1>6

(* A slash and a word behind a text are one more part. *)
LEMMA PartsOfLonger ==
    ASSUME NEW t \in Texts, NEW w \in Words
    PROVE  Parts((t \o Slash) \o w) = Append(Parts(t), w)
<1> DEFINE u == t \o Slash
           T == {k \in Nat : k \in 1 .. Len(w) =>
                    Parts(u \o SubSeq(w, 1, k)) = Append(Parts(t), SubSeq(w, 1, k))}
<1>1. Len(w) \in Nat \ {0} /\ w \in Texts /\ \A i \in 1 .. Len(w) : w[i] \in Chars /\ w[i] # "/"
  BY DEF Words, Texts
<1>2. "/" \in Chars
  BY CharsAssumption
<1>3. u = Append(t, "/")
  BY <1>2, AppendIsConcat DEF Texts, Slash
<1>4. u \in Texts /\ u # <<>> /\ u[Len(u)] = "/"
  BY <1>2, <1>3, AppendProperties DEF Texts
<1>5. Parts(u) = Parts(t) /\ Parts(t) \in Seq(Words)
  BY <1>2, <1>3, PartsOfAppend, PartsType
<1> HIDE DEF u
<1>6. 0 \in T
  OBVIOUS
<1>7. ASSUME NEW k \in Nat, k \in T
      PROVE  k + 1 \in T
  <2> SUFFICES ASSUME k + 1 \in 1 .. Len(w)
               PROVE  Parts(u \o SubSeq(w, 1, k + 1)) = Append(Parts(t), SubSeq(w, 1, k + 1))
    BY DEF T
  <2> DEFINE v == u \o SubSeq(w, 1, k)  c == w[k + 1]
  <2>1. c \in Chars /\ c # "/"
    BY <1>1
  <2>2. SubSeq(w, 1, k + 1) = Append(SubSeq(w, 1, k), c) /\ SubSeq(w, 1, k) \in Texts
    BY <1>1 DEF Texts
  <2>3. v \in Texts /\ u \o SubSeq(w, 1, k + 1) = Append(v, c)
    BY <1>4, <2>1, <2>2 DEF Texts
  <2>4. CASE k = 0
    <3>1. SubSeq(w, 1, k) = <<>> /\ v = u
      BY <1>1, <1>4, <2>4 DEF Texts
    <3>2. Parts(Append(v, c)) = Append(Parts(t), <<c>>)
      BY <1>4, <1>5, <2>1, <3>1, PartsOfAppend
    <3>3. SubSeq(w, 1, k + 1) = <<c>>
      <4>1. Append(<<>>, c) = <<c>>
        OBVIOUS
      <4> QED
        BY <2>2, <3>1, <4>1
    <3> QED
      BY <2>3, <3>2, <3>3
  <2>5. CASE k # 0
    <3>1. k \in 1 .. Len(w)
      BY <1>1, <2>5
    <3>2. Parts(v) = Append(Parts(t), SubSeq(w, 1, k))
      BY <1>7, <3>1
    <3>3. v # <<>> /\ v[Len(v)] = w[k] /\ w[k] # "/"
      BY <1>1, <1>4, <3>1 DEF Texts
    <3>4. Parts(Append(v, c)) = Append(Front(Parts(v)), Append(Last(Parts(v)), c))
      <4> HIDE DEF v, c
      <4> QED
        BY <2>1, <2>3, <3>3, PartsOfAppend
    <3>5. ASSUME NEW ps \in Seq(Words), NEW x
          PROVE  Front(Append(ps, x)) = ps /\ Last(Append(ps, x)) = x
      BY DEF Front, Last
    <3> QED
      BY <1>5, <2>2, <2>3, <3>2, <3>4, <3>5
  <2> QED
    BY <2>4, <2>5
<1> HIDE DEF T
<1>8. Len(w) \in T
  BY <1>1, <1>6, <1>7, Induction
<1>9. SubSeq(w, 1, Len(w)) = w
  BY <1>1, SubSeqFull DEF Texts
<1>10. Len(w) \in 1 .. Len(w)
  BY <1>1
<1>11. Parts(u \o SubSeq(w, 1, Len(w))) = Append(Parts(t), SubSeq(w, 1, Len(w)))
  BY <1>8, <1>10 DEF T
<1> QED
  BY <1>9, <1>11 DEF u

-----------------------------------------------------------------------------
(* Parts joined to a text *)

JoinUpto(ps) ==
    LET upto[n \in 0 .. Len(ps)] ==
            IF n = 0 THEN <<>> ELSE upto[n - 1] \o Slash \o ps[n]
    IN  upto
Joined(ps) == JoinUpto(ps)[Len(ps)]

LEMMA JoinIs ==
    ASSUME NEW ps \in Seq(Texts)
    PROVE  /\ JoinUpto(ps)[0] = <<>>
           /\ \A n \in 1 .. Len(ps) : JoinUpto(ps)[n] = (JoinUpto(ps)[n - 1] \o Slash) \o ps[n]
           /\ \A n \in 0 .. Len(ps) : JoinUpto(ps)[n] \in Texts
<1> DEFINE E(f) == [n \in 0 .. Len(ps) |-> IF n = 0 THEN <<>> ELSE f[n - 1] \o Slash \o ps[n]]
           G == [z \in Texts \X (1 .. Len(ps)) |-> (z[1] \o Slash) \o ps[z[2]]]
           S == [n \in 0 .. Len(ps) |-> Texts]
<1>1. Len(ps) \in Nat /\ <<>> \in Texts /\ <<>> \in S[0]
  BY DEF Texts
<1>2. ASSUME NEW n \in 1 .. Len(ps), NEW t \in Texts
      PROVE  (t \o Slash) \o ps[n] \in Texts
  <2>1. ps[n] \in Texts
    OBVIOUS
  <2> QED
    BY <2>1, Characters DEF Texts
<1>3. ASSUME NEW n \in 1 .. Len(ps), NEW t \in Texts
      PROVE  G[<<t, n>>] = (t \o Slash) \o ps[n]
  OBVIOUS
<1>4. \A n \in 1 .. Len(ps) : S[n - 1] = Texts /\ S[n] = Texts
  BY <1>1
<1> HIDE DEF G
<1>5. PICK f : RunOf(f, Len(ps), S, <<>>, G)
  <2>1. StepsIn(Len(ps), S, G)
    <3> HIDE DEF S
    <3> QED
      BY <1>2, <1>3, <1>4 DEF StepsIn
  <2> HIDE DEF S
  <2> QED
    BY <1>1, <2>1, Recursion
<1> DEFINE g == [n \in 0 .. Len(ps) |-> IF n = 0 THEN <<>> ELSE f[n - 1] \o Slash \o ps[n]]
<1>6. g = E(g)
  <2>1. ASSUME NEW n \in 0 .. Len(ps)
        PROVE  g[n] = f[n]
    <3>1. CASE n # 0
      <4>1. n \in 1 .. Len(ps) /\ n - 1 \in 0 .. Len(ps)
        BY <1>1, <3>1
      <4>2. f[n - 1] \in Texts /\ f[n] = G[<<f[n - 1], n>>]
        BY <1>5, <4>1 DEF RunOf
      <4> QED
        BY <1>3, <3>1, <4>1, <4>2
    <3> QED
      BY <1>5, <3>1 DEF RunOf
  <2>2. \A n \in 0 .. Len(ps) : n # 0 => g[n - 1] = f[n - 1]
    <3>1. \A n \in 0 .. Len(ps) : n # 0 => n - 1 \in 0 .. Len(ps)
      BY <1>1
    <3> HIDE DEF g
    <3> QED
      BY <2>1, <3>1
  <2> QED
    BY <2>2
<1>7. JoinUpto(ps) = E(JoinUpto(ps))
  BY <1>6 DEF JoinUpto
<1>8. /\ JoinUpto(ps)[0] = <<>>
      /\ \A n \in 1 .. Len(ps) : JoinUpto(ps)[n] = (JoinUpto(ps)[n - 1] \o Slash) \o ps[n]
  BY <1>1, <1>7
<1>9. \A n \in 0 .. Len(ps) : JoinUpto(ps)[n] \in Texts
  <2> DEFINE q == JoinUpto(ps)  m == Len(ps)
  <2>1. m \in Nat /\ q[0] \in S[0] /\ \A i \in 1 .. m : q[i - 1] \in S[i - 1] => q[i] \in S[i]
    BY <1>1, <1>2, <1>4, <1>8
  <2>2. \A i \in 0 .. m : q[i] \in S[i]
    <3> HIDE DEF q, S, m
    <3> QED
      BY <2>1, Along
  <2> QED
    BY <2>2
<1> QED
  BY <1>8, <1>9

LEMMA JoinedType ==
    ASSUME NEW ps \in Seq(Texts)
    PROVE  Joined(ps) \in Texts
<1>1. Len(ps) \in 0 .. Len(ps)
  OBVIOUS
<1> QED
  BY <1>1, JoinIs DEF Joined

LEMMA JoinedNone == Joined(<<>>) = <<>>
<1>1. <<>> \in Seq(Texts) /\ Len(<<>>) = 0
  OBVIOUS
<1> QED
  BY <1>1, JoinIs DEF Joined

LEMMA JoinedAppend ==
    ASSUME NEW ps \in Seq(Texts), NEW w \in Texts
    PROVE  Joined(Append(ps, w)) = (Joined(ps) \o Slash) \o w
<1> DEFINE qs == Append(ps, w)  n == Len(ps)  f == JoinUpto(ps)  g == JoinUpto(qs)
<1>1. /\ qs \in Seq(Texts) /\ Len(qs) = n + 1 /\ n \in Nat /\ qs[n + 1] = w
      /\ \A i \in 1 .. n : qs[i] = ps[i]
  BY AppendProperties
<1> HIDE DEF qs
<1>2. f[0] = g[0]
  BY <1>1, JoinIs
<1>3. ASSUME NEW i \in 1 .. n, f[i - 1] = g[i - 1]
      PROVE  f[i] = g[i]
  <2>1. i \in 1 .. Len(qs)
    BY <1>1
  <2> QED
    BY <1>1, <1>3, <2>1, JoinIs
<1>4. f[n] = g[n]
  <2>1. \A i \in 0 .. n : f[i] = g[i]
    <3>1. n \in Nat /\ StayAlike(n, f, g)
      BY <1>1, <1>2, <1>3 DEF StayAlike
    <3> HIDE DEF f, g, n
    <3> QED
      BY ONLY <3>1, Alike
  <2> QED
    BY <1>1, <2>1
<1>5. g[n + 1] = (g[n] \o Slash) \o qs[n + 1]
  <2>1. n + 1 \in 1 .. Len(qs) /\ (n + 1) - 1 = n
    BY <1>1
  <2>2. g[n + 1] = (g[(n + 1) - 1] \o Slash) \o qs[n + 1]
    BY <1>1, <2>1, JoinIs
  <2> QED
    BY <2>1, <2>2
<1> QED
  BY <1>1, <1>4, <1>5 DEF Joined, qs

LEMMA JoinIsJoined ==
    ASSUME NEW ps \in Seq(Texts)
    PROVE  Join(ps) = IF ps = <<>> THEN Slash ELSE Joined(ps)
BY DEF Join, Joined, JoinUpto

LEMMA WordsAreTexts == Words \subseteq Texts /\ Seq(Words) \subseteq Seq(Texts)
<1>1. Words \subseteq Texts
  BY DEF Words
<1> QED
  BY <1>1

(* Joined parts come apart again. *)
LEMMA PartsOfJoined ==
    ASSUME NEW ps \in Seq(Words)
    PROVE  Parts(Joined(ps)) = ps
<1> DEFINE T == {n \in Nat : \A qs \in Seq(Words) : Len(qs) = n => Parts(Joined(qs)) = qs}
<1>1. 0 \in T
  <2> SUFFICES ASSUME NEW qs \in Seq(Words), Len(qs) = 0 PROVE Parts(Joined(qs)) = qs
    OBVIOUS
  <2>1. qs = <<>>
    OBVIOUS
  <2> QED
    BY <2>1, JoinedNone, PartsOfNone
<1>2. ASSUME NEW n \in Nat, n \in T
      PROVE  n + 1 \in T
  <2> SUFFICES ASSUME NEW qs \in Seq(Words), Len(qs) = n + 1
               PROVE  Parts(Joined(qs)) = qs
    OBVIOUS
  <2>1. qs # <<>>
    OBVIOUS
  <2>2. PICK rs \in Seq(Words), w \in Words : qs = Append(rs, w)
    BY <2>1, SequenceEmptyOrAppend
  <2>3. Len(rs) = n
    BY <2>2
  <2>4. Parts(Joined(rs)) = rs
    BY <1>2, <2>3
  <2>5. Joined(qs) = (Joined(rs) \o Slash) \o w /\ Joined(rs) \in Texts
    BY <2>2, WordsAreTexts, JoinedAppend, JoinedType
  <2> QED
    BY <2>2, <2>4, <2>5, PartsOfLonger
<1> HIDE DEF T
<1>3. Len(ps) \in T
  <2>1. Len(ps) \in Nat
    OBVIOUS
  <2> QED
    BY <1>1, <1>2, <2>1, Induction
<1> QED
  BY <1>3 DEF T

LEMMA PartsOfSlash == Parts(Slash) = <<>>
<1>1. "/" \in Chars /\ <<>> \in Texts
  BY CharsAssumption DEF Texts
<1>2. Append(<<>>, "/") = Slash
  BY DEF Slash
<1>3. Parts(Append(<<>>, "/")) = Parts(<<>>)
  BY <1>1, PartsOfAppend
<1> QED
  BY <1>2, <1>3, PartsOfNone

LEMMA PartsOfJoin ==
    ASSUME NEW ps \in Seq(Words)
    PROVE  Parts(Join(ps)) = ps /\ Join(ps) \in Texts /\ IsAbsolute(Join(ps))
<1>1. ps \in Seq(Texts)
  BY WordsAreTexts
<1>2. CASE ps = <<>>
  <2>1. Join(ps) = Slash
    BY <1>1, <1>2, JoinIsJoined
  <2> QED
    BY <1>2, <2>1, PartsOfSlash, Characters DEF IsAbsolute, Slash
<1>3. CASE ps # <<>>
  <2>1. Join(ps) = Joined(ps)
    BY <1>1, <1>3, JoinIsJoined
  <2>2. Joined(ps)[1] = "/"
    <3> DEFINE T == {n \in Nat : \A qs \in Seq(Texts) : Len(qs) = n + 1 =>
                                    Joined(qs) # <<>> /\ Joined(qs)[1] = "/"}
    <3>1. ASSUME NEW n \in Nat, NEW qs \in Seq(Texts), Len(qs) = n + 1, n = 0 \/ n - 1 \in T
          PROVE  Joined(qs) # <<>> /\ Joined(qs)[1] = "/"
      <4>1. PICK rs \in Seq(Texts), w \in Texts : qs = Append(rs, w)
        <5>1. qs # <<>>
          BY <3>1
        <5> QED
          BY <5>1, SequenceEmptyOrAppend
      <4>2. Joined(qs) = (Joined(rs) \o Slash) \o w /\ Joined(rs) \in Texts /\ Len(rs) = n
        BY <3>1, <4>1, JoinedAppend, JoinedType
      <4>3. CASE n = 0
        <5>1. rs = <<>>
          BY <4>2, <4>3
        <5>2. Joined(rs) = <<>>
          BY <5>1, JoinedNone
        <5> QED
          BY <4>2, <5>2, Characters DEF Texts, Slash
      <4>4. CASE n # 0
        <5>1. Joined(rs) # <<>> /\ Joined(rs)[1] = "/"
          BY <3>1, <4>2, <4>4
        <5> QED
          BY <4>2, <5>1, Characters DEF Texts, Slash
      <4> QED
        BY <4>3, <4>4
    <3>2. 0 \in T
      BY <3>1
    <3>3. ASSUME NEW n \in Nat, n \in T
          PROVE  n + 1 \in T
      BY <3>1, <3>3
    <3>4. Len(ps) - 1 \in Nat
      BY <1>3
    <3>5. Len(ps) - 1 \in T
      <4> HIDE DEF T
      <4> QED
        BY <3>2, <3>3, <3>4, Induction
    <3> QED
      BY <1>1, <3>4, <3>5
  <2>3. Joined(ps) # <<>> /\ Joined(ps) \in Texts
    <3>1. Parts(Joined(ps)) # <<>>
      BY <1>3, PartsOfJoined
    <3> QED
      BY <1>1, <3>1, PartsOfNone, JoinedType
  <2> QED
    BY <2>1, <2>2, <2>3, PartsOfJoined DEF IsAbsolute, Texts
<1> QED
  BY <1>2, <1>3

-----------------------------------------------------------------------------
(* Directories *)

(* Directories that are there, or none *)
Reached == {d \in Dirs : IsThere(d)} \cup {NoDir}

LEMMA StepStays ==
    ASSUME IsTree(tree), NEW d \in Reached, NEW w
    PROVE  StepTo(d, w) \in Reached
<1>1. CASE d = NoDir
  BY <1>1 DEF StepTo, Reached
<1>2. CASE d # NoDir
  <2>1. d \in Dirs /\ IsThere(d)
    BY <1>2 DEF Reached
  <2>2. ASSUME NEW e \in Dirs, tree.parent[e] = d
        PROVE  e \in Reached
    BY <1>2, <2>2 DEF Reached, IsThere
  <2>3. Entry(d, w) \in Reached
    <3>1. CASE \E e \in Dirs : tree.parent[e] = d /\ tree.name[e] = w
      BY <2>2, <3>1 DEF Entry
    <3>2. CASE ~\E e \in Dirs : tree.parent[e] = d /\ tree.name[e] = w
      <4>1. CASE w \in Names /\ tree.link[d][w] # NoDir /\ IsThere(tree.link[d][w])
        <5>1. tree.link[d][w] \in Dirs
          BY <2>1, <4>1 DEF IsTree
        <5> QED
          BY <3>2, <4>1, <5>1 DEF Entry, Reached
      <4>2. CASE ~(w \in Names /\ tree.link[d][w] # NoDir /\ IsThere(tree.link[d][w]))
        BY <3>2, <4>2 DEF Entry, Reached
      <4> QED
        BY <4>1, <4>2
    <3> QED
      BY <3>1, <3>2
  <2>4. d # Root => tree.parent[d] \in Reached
    <3> SUFFICES ASSUME d # Root PROVE tree.parent[d] \in Reached
      OBVIOUS
    <3>1. tree.parent[d] # NoDir /\ tree.parent[d] \in Dirs
      BY <2>1 DEF IsThere, IsTree
    <3>2. tree.parent[tree.parent[d]] # NoDir
      BY <2>1, <3>1 DEF IsTree
    <3> QED
      BY <3>1, <3>2 DEF Reached, IsThere
  <2>5. Root \in Reached
    BY DirsAssumption DEF Reached, IsThere
  <2> QED
    BY <1>2, <2>3, <2>4, <2>5 DEF StepTo, Reached
<1> QED
  BY <1>1, <1>2

WalkUpto(d, ps) ==
    LET at[n \in 0 .. Len(ps)] == IF n = 0 THEN d ELSE StepTo(at[n - 1], ps[n])
    IN  at

LEMMA WalkIs ==
    ASSUME IsTree(tree), NEW d \in Reached, NEW ps, Len(ps) \in Nat
    PROVE  /\ Walk(d, ps) = WalkUpto(d, ps)[Len(ps)]
           /\ WalkUpto(d, ps)[0] = d
           /\ \A n \in 1 .. Len(ps) : WalkUpto(d, ps)[n] = StepTo(WalkUpto(d, ps)[n - 1], ps[n])
           /\ \A n \in 0 .. Len(ps) : WalkUpto(d, ps)[n] \in Reached
<1> DEFINE E(f) == [n \in 0 .. Len(ps) |-> IF n = 0 THEN d ELSE StepTo(f[n - 1], ps[n])]
           G == [z \in Reached \X (1 .. Len(ps)) |-> StepTo(z[1], ps[z[2]])]
           S == [n \in 0 .. Len(ps) |-> Reached]
<1>1. d \in S[0]
  OBVIOUS
<1>2. ASSUME NEW n \in 1 .. Len(ps), NEW e \in Reached
      PROVE  G[<<e, n>>] = StepTo(e, ps[n]) /\ StepTo(e, ps[n]) \in Reached
  BY StepStays
<1>3. \A n \in 1 .. Len(ps) : S[n - 1] = Reached /\ S[n] = Reached
  OBVIOUS
<1> HIDE DEF G
<1>4. PICK f : RunOf(f, Len(ps), S, d, G)
  <2>1. StepsIn(Len(ps), S, G)
    <3> HIDE DEF S
    <3> QED
      BY <1>2, <1>3 DEF StepsIn
  <2> HIDE DEF S
  <2> QED
    BY <1>1, <2>1, Recursion
<1> DEFINE g == [n \in 0 .. Len(ps) |-> IF n = 0 THEN d ELSE StepTo(f[n - 1], ps[n])]
<1>5. g = E(g)
  <2>1. ASSUME NEW n \in 0 .. Len(ps)
        PROVE  g[n] = f[n]
    <3>1. CASE n # 0
      <4>1. n \in 1 .. Len(ps) /\ n - 1 \in 0 .. Len(ps)
        BY <3>1
      <4>2. f[n - 1] \in Reached /\ f[n] = G[<<f[n - 1], n>>]
        BY <1>4, <4>1 DEF RunOf
      <4> QED
        BY <1>2, <3>1, <4>1, <4>2
    <3> QED
      BY <1>4, <3>1 DEF RunOf
  <2>2. \A n \in 0 .. Len(ps) : n # 0 => g[n - 1] = f[n - 1]
    <3>1. \A n \in 0 .. Len(ps) : n # 0 => n - 1 \in 0 .. Len(ps)
      OBVIOUS
    <3> HIDE DEF g
    <3> QED
      BY <2>1, <3>1
  <2> QED
    BY <2>2
<1>6. WalkUpto(d, ps) = E(WalkUpto(d, ps))
  BY <1>5 DEF WalkUpto
<1>7. /\ WalkUpto(d, ps)[0] = d
      /\ \A n \in 1 .. Len(ps) : WalkUpto(d, ps)[n] = StepTo(WalkUpto(d, ps)[n - 1], ps[n])
  BY <1>6
<1>8. \A n \in 0 .. Len(ps) : WalkUpto(d, ps)[n] \in Reached
  <2> DEFINE q == WalkUpto(d, ps)  m == Len(ps)
  <2>1. m \in Nat /\ q[0] \in S[0] /\ \A i \in 1 .. m : q[i - 1] \in S[i - 1] => q[i] \in S[i]
    BY <1>1, <1>2, <1>3, <1>7
  <2>2. \A i \in 0 .. m : q[i] \in S[i]
    <3> HIDE DEF q, S, m
    <3> QED
      BY <2>1, Along
  <2> QED
    BY <2>2
<1> QED
  BY <1>7, <1>8 DEF Walk, WalkUpto

LEMMA WalkNone ==
    ASSUME IsTree(tree), NEW d \in Reached
    PROVE  Walk(d, <<>>) = d
<1>1. Len(<<>>) = 0
  OBVIOUS
<1> QED
  BY <1>1, WalkIs

LEMMA WalkAppend ==
    ASSUME IsTree(tree), NEW d \in Reached, NEW ps \in Seq(Texts), NEW w \in Texts
    PROVE  /\ Walk(d, ps) \in Reached
           /\ Walk(d, Append(ps, w)) = StepTo(Walk(d, ps), w)
<1> DEFINE qs == Append(ps, w)  n == Len(ps)  f == WalkUpto(d, ps)  g == WalkUpto(d, qs)
<1>1. /\ qs \in Seq(Texts) /\ Len(qs) = n + 1 /\ n \in Nat /\ qs[n + 1] = w
      /\ \A i \in 1 .. n : qs[i] = ps[i]
  BY AppendProperties
<1>3. Walk(d, ps) \in Reached /\ Walk(d, ps) = f[n]
  <2>1. n \in 0 .. n
    BY <1>1
  <2> QED
    BY <1>1, <2>1, WalkIs
<1> HIDE DEF qs
<1>4. f[0] = g[0]
  BY <1>1, WalkIs
<1>5. ASSUME NEW i \in 1 .. n, f[i - 1] = g[i - 1]
      PROVE  f[i] = g[i]
  <2>1. i \in 1 .. Len(qs) /\ Len(qs) \in Nat /\ Len(ps) \in Nat /\ qs[i] = ps[i]
    BY <1>1
  <2>2. g[i] = StepTo(g[i - 1], qs[i])
    BY <2>1, WalkIs
  <2>3. f[i] = StepTo(f[i - 1], ps[i])
    BY <2>1, WalkIs
  <2> QED
    BY <1>5, <2>1, <2>2, <2>3
<1>6. f[n] = g[n]
  <2>1. \A i \in 0 .. n : f[i] = g[i]
    <3>1. n \in Nat /\ StayAlike(n, f, g)
      BY <1>1, <1>4, <1>5 DEF StayAlike
    <3> HIDE DEF f, g, n
    <3> QED
      BY ONLY <3>1, Alike
  <2> QED
    BY <1>1, <2>1
<1>7. g[n + 1] = StepTo(g[n], qs[n + 1])
  <2>1. n + 1 \in 1 .. Len(qs) /\ (n + 1) - 1 = n
    BY <1>1
  <2>2. g[n + 1] = StepTo(g[(n + 1) - 1], qs[n + 1])
    BY <1>1, <2>1, WalkIs
  <2> QED
    BY <2>1, <2>2
<1>8. Walk(d, qs) = g[n + 1]
  <2>1. Len(qs) \in Nat
    BY <1>1
  <2>2. Walk(d, qs) = g[Len(qs)]
    BY <2>1, WalkIs
  <2> QED
    BY <1>1, <2>2
<1> QED
  BY <1>1, <1>3, <1>6, <1>7, <1>8 DEF qs

(* The names from the root to each directory that is there *)
Up(f, d) ==
    IF d = Root THEN {<<>>}
    ELSE IF tree.parent[d] = NoDir THEN {}
    ELSE {Append(p, tree.name[d]) : p \in f[tree.parent[d]]}
Ups ==
    LET up[d \in Dirs] ==
            IF d = Root THEN {<<>>}
            ELSE IF tree.parent[d] = NoDir THEN {}
            ELSE {Append(p, tree.name[d]) : p \in up[tree.parent[d]]}
    IN  up

(* Going up ends at the root. *)
Rooted == \E k \in Nat : \E h \in [Dirs -> 0 .. k] : Rises(tree, h)

LEMMA UpsAre ==
    ASSUME IsTree(tree), Rooted
    PROVE  \A d \in Dirs : Ups[d] = Up(Ups, d)
<1>0. PICK k \in Nat : \E h \in [Dirs -> 0 .. k] : Rises(tree, h)
  BY DEF Rooted
<1>1. PICK h \in [Dirs -> 0 .. k] : Rises(tree, h)
  BY <1>0
<1>2. ASSUME NEW d \in Dirs, d # Root, tree.parent[d] # NoDir
      PROVE  tree.parent[d] \in Dirs /\ h[tree.parent[d]] < h[d]
  BY <1>1, <1>2 DEF IsTree, Rises
<1> DEFINE Upto(n, f) == \A d \in Dirs : h[d] < n => f[d] = Up(f, d)
           T == {n \in Nat : \E f : Upto(n, f)}
<1>3. 0 \in T
  <2>1. \A d \in Dirs : ~(h[d] < 0)
    BY <1>1
  <2>2. Upto(0, <<>>)
    BY <2>1
  <2> HIDE DEF Upto
  <2> QED
    BY <2>2
<1>4. ASSUME NEW n \in Nat, n \in T
      PROVE  n + 1 \in T
  <2>1. PICK f : Upto(n, f)
    <3> HIDE DEF Upto
    <3> QED
      BY <1>4
  <2> DEFINE g == [d \in Dirs |-> IF h[d] < n THEN f[d] ELSE Up(f, d)]
  <2>2. ASSUME NEW d \in Dirs, h[d] < n + 1
        PROVE  g[d] = Up(g, d)
    <3>1. g[d] = Up(f, d)
      BY <2>1, <2>2
    <3>2. d # Root /\ tree.parent[d] # NoDir => g[tree.parent[d]] = f[tree.parent[d]]
      <4> SUFFICES ASSUME d # Root, tree.parent[d] # NoDir
                   PROVE  g[tree.parent[d]] = f[tree.parent[d]]
        OBVIOUS
      <4>1. tree.parent[d] \in Dirs /\ h[tree.parent[d]] < n
        <5>1. h[d] \in Nat /\ tree.parent[d] \in Dirs /\ h[tree.parent[d]] \in Nat
          BY <1>1, <1>2
        <5> QED
          BY <1>2, <2>2, <5>1
      <4> QED
        BY <4>1
    <3>3. Up(g, d) = Up(f, d)
      <4> HIDE DEF g
      <4> QED
        BY <3>2 DEF Up
    <3> QED
      BY <3>1, <3>3
  <2>3. Upto(n + 1, g)
    BY <2>2
  <2> HIDE DEF Upto, g
  <2> QED
    BY <1>4, <2>3
<1>5. PICK f : Upto(k + 1, f)
  <2>1. k + 1 \in T
    <3> HIDE DEF T
    <3> QED
      BY <1>3, <1>4, Induction
  <2> HIDE DEF Upto
  <2> QED
    BY <2>1
<1> DEFINE g == [d \in Dirs |-> Up(f, d)]
<1>6. \A d \in Dirs : g[d] = f[d]
  <2>1. \A d \in Dirs : h[d] < k + 1
    BY <1>1
  <2> QED
    BY <1>5, <2>1
<1>7. g = [d \in Dirs |-> Up(g, d)]
  <2>1. ASSUME NEW d \in Dirs
        PROVE  Up(g, d) = Up(f, d)
    <3>1. d # Root /\ tree.parent[d] # NoDir => g[tree.parent[d]] = f[tree.parent[d]]
      <4> HIDE DEF g
      <4> QED
        BY <1>2, <1>6
    <3> HIDE DEF g
    <3> QED
      BY <3>1 DEF Up
  <2> QED
    BY <2>1
<1>8. Ups = [d \in Dirs |-> Up(Ups, d)]
  <2>1. \E q : q = [d \in Dirs |-> Up(q, d)]
    <3> HIDE DEF g
    <3> QED
      BY <1>7
  <2> QED
    BY <2>1 DEF Ups, Up
<1> QED
  BY <1>8

LEMMA NamesAreWords == Names \subseteq Words /\ \A n \in Names : n # Dot /\ n # DotDot
BY NamesAssumption DEF Words

(* The path of a directory that is there leads to it and has no dots. *)
LEMMA UpsLead ==
    ASSUME IsTree(tree), Rooted, NEW d \in Dirs, NEW p \in Ups[d]
    PROVE  p \in Seq(Names) /\ Walk(Root, p) = d
<1>0. PICK k \in Nat : \E h \in [Dirs -> 0 .. k] : Rises(tree, h)
  BY DEF Rooted
<1>1. PICK h \in [Dirs -> 0 .. k] : Rises(tree, h)
  BY <1>0
<1> DEFINE T == {n \in Nat : \A e \in Dirs : h[e] < n =>
                    \A q \in Ups[e] : q \in Seq(Names) /\ Walk(Root, q) = e}
<1>2. 0 \in T
  BY <1>1
<1>3. ASSUME NEW n \in Nat, n \in T
      PROVE  n + 1 \in T
  <2> SUFFICES ASSUME NEW e \in Dirs, h[e] < n + 1, NEW q \in Ups[e]
               PROVE  q \in Seq(Names) /\ Walk(Root, q) = e
    BY DEF T
  <2>1. Root \in Reached
    BY DirsAssumption DEF Reached, IsThere
  <2>2. CASE e = Root
    <3>1. q = <<>>
      BY <2>2, UpsAre DEF Up
    <3>2. q \in Seq(Names)
      BY <3>1
    <3> QED
      BY <2>1, <2>2, <3>1, <3>2, WalkNone
  <2>3. CASE e # Root
    <3> DEFINE u == tree.parent[e]
    <3>1. u # NoDir /\ \E r \in Ups[u] : q = Append(r, tree.name[e])
      <4>1. q \in Up(Ups, e)
        BY UpsAre
      <4>2. u # NoDir
        BY <2>3, <4>1 DEF Up
      <4>3. q \in {Append(r, tree.name[e]) : r \in Ups[u]}
        BY <2>3, <4>1, <4>2 DEF Up
      <4> HIDE DEF u
      <4> QED
        BY <4>2, <4>3
    <3>2. PICK r \in Ups[u] : q = Append(r, tree.name[e])
      BY <3>1
    <3>3. u \in Dirs /\ h[u] < n
      <4>1. u \in Dirs /\ h[u] < h[e]
        BY <1>1, <2>3, <3>1 DEF IsTree, Rises
      <4>2. h[u] \in Nat /\ h[e] \in Nat
        BY <1>1, <4>1
      <4> QED
        BY <4>1, <4>2
    <3>4. r \in Seq(Names) /\ Walk(Root, r) = u
      <4>1. \A x \in Dirs : h[x] < n => \A y \in Ups[x] : y \in Seq(Names) /\ Walk(Root, y) = x
        BY <1>3
      <4> HIDE DEF u, T
      <4> QED
        BY <3>2, <3>3, <4>1
    <3>5. tree.name[e] \in Names
      BY <2>3, <3>1 DEF IsTree
    <3>6. r \in Seq(Texts) /\ tree.name[e] \in Texts
      <4>1. Names \subseteq Texts
        BY NamesAreWords, WordsAreTexts
      <4> QED
        BY <3>4, <3>5, <4>1
    <3>7. Walk(Root, q) = StepTo(u, tree.name[e])
      BY <2>1, <3>2, <3>4, <3>6, WalkAppend
    <3>8. StepTo(u, tree.name[e]) = Entry(u, tree.name[e])
      BY <3>1, <3>5, NamesAreWords DEF StepTo
    <3>9. Entry(u, tree.name[e]) = e
      <4>1. \A x \in Dirs : tree.parent[x] = u /\ tree.name[x] = tree.name[e] => x = e
        BY <2>3, <3>1 DEF IsTree
      <4> QED
        BY <4>1 DEF Entry
    <3> QED
      BY <3>2, <3>4, <3>5, <3>7, <3>8, <3>9, AppendProperties
  <2> QED
    BY <2>2, <2>3
<1>4. k + 1 \in T
  <2> HIDE DEF T
  <2> QED
    BY <1>2, <1>3, Induction
<1>5. h[d] < k + 1
  BY <1>1
<1> QED
  BY <1>4, <1>5 DEF T

(* getcwd in a directory that is there *)
LEMMA GetCwdNames ==
    ASSUME IsTree(tree), Rooted, cwd \in Dirs, IsThere(cwd), NEW t \in GetCwd
    PROVE  /\ t \in Texts /\ IsAbsolute(t) /\ Resolve(t) = cwd
           /\ Parts(t) \in Seq(Names) /\ {Dot, DotDot} \cap ToSet(Parts(t)) = {}
<1>1. PICK p \in Ups[cwd] : t = Join(p)
  BY DEF GetCwd, PathsOf, Ups
<1>2. p \in Seq(Names) /\ Walk(Root, p) = cwd
  BY UpsLead
<1>3. Parts(t) = p /\ t \in Texts /\ IsAbsolute(t)
  BY <1>1, <1>2, NamesAreWords, PartsOfJoin
<1>4. Resolve(t) = cwd
  BY <1>2, <1>3 DEF Resolve
<1>5. {Dot, DotDot} \cap ToSet(p) = {}
  BY <1>2, NamesAreWords DEF ToSet
<1> QED
  BY <1>2, <1>3, <1>4, <1>5

-----------------------------------------------------------------------------
(* What . and .. mean *)

NormUpto(ps) ==
    LET upto[n \in 0 .. Len(ps)] ==
            IF n = 0 THEN <<>> ELSE Pushed(upto[n - 1], ps[n])
    IN  upto
Norm(ps) == NormUpto(ps)[Len(ps)]

LEMMA PushedIs ==
    ASSUME NEW qs \in Seq(Words), NEW w \in Words
    PROVE  Pushed(qs, w) \in Seq(Words)
<1>1. qs # <<>> => Front(qs) \in Seq(Words)
  BY DEF Front
<1> QED
  BY <1>1 DEF Pushed

LEMMA NormIs ==
    ASSUME NEW ps \in Seq(Words)
    PROVE  /\ NormUpto(ps)[0] = <<>>
           /\ \A n \in 1 .. Len(ps) : NormUpto(ps)[n] = Pushed(NormUpto(ps)[n - 1], ps[n])
           /\ \A n \in 0 .. Len(ps) : NormUpto(ps)[n] \in Seq(Words)
<1> DEFINE E(f) == [n \in 0 .. Len(ps) |-> IF n = 0 THEN <<>> ELSE Pushed(f[n - 1], ps[n])]
           G == [z \in Seq(Words) \X (1 .. Len(ps)) |-> Pushed(z[1], ps[z[2]])]
           S == [n \in 0 .. Len(ps) |-> Seq(Words)]
<1>1. Len(ps) \in Nat /\ <<>> \in Seq(Words) /\ <<>> \in S[0]
  OBVIOUS
<1>2. ASSUME NEW n \in 1 .. Len(ps), NEW qs \in Seq(Words)
      PROVE  G[<<qs, n>>] = Pushed(qs, ps[n]) /\ Pushed(qs, ps[n]) \in Seq(Words)
  <2>1. ps[n] \in Words
    OBVIOUS
  <2> QED
    BY <2>1, PushedIs
<1>3. \A n \in 1 .. Len(ps) : S[n - 1] = Seq(Words) /\ S[n] = Seq(Words)
  BY <1>1
<1> HIDE DEF G
<1>4. PICK f : RunOf(f, Len(ps), S, <<>>, G)
  <2>1. StepsIn(Len(ps), S, G)
    <3> HIDE DEF S
    <3> QED
      BY <1>2, <1>3 DEF StepsIn
  <2> HIDE DEF S
  <2> QED
    BY <1>1, <2>1, Recursion
<1> DEFINE g == [n \in 0 .. Len(ps) |-> IF n = 0 THEN <<>> ELSE Pushed(f[n - 1], ps[n])]
<1>5. g = E(g)
  <2>1. ASSUME NEW n \in 0 .. Len(ps)
        PROVE  g[n] = f[n]
    <3>1. CASE n # 0
      <4>1. n \in 1 .. Len(ps) /\ n - 1 \in 0 .. Len(ps)
        BY <1>1, <3>1
      <4>2. f[n - 1] \in Seq(Words) /\ f[n] = G[<<f[n - 1], n>>]
        BY <1>4, <4>1 DEF RunOf
      <4> QED
        BY <1>2, <3>1, <4>1, <4>2
    <3> QED
      BY <1>4, <3>1 DEF RunOf
  <2>2. \A n \in 0 .. Len(ps) : n # 0 => g[n - 1] = f[n - 1]
    <3>1. \A n \in 0 .. Len(ps) : n # 0 => n - 1 \in 0 .. Len(ps)
      BY <1>1
    <3> HIDE DEF g
    <3> QED
      BY <2>1, <3>1
  <2> QED
    BY <2>2
<1>6. NormUpto(ps) = E(NormUpto(ps))
  BY <1>5 DEF NormUpto
<1>7. /\ NormUpto(ps)[0] = <<>>
      /\ \A n \in 1 .. Len(ps) : NormUpto(ps)[n] = Pushed(NormUpto(ps)[n - 1], ps[n])
  BY <1>1, <1>6
<1>8. \A n \in 0 .. Len(ps) : NormUpto(ps)[n] \in Seq(Words)
  <2> DEFINE q == NormUpto(ps)  m == Len(ps)
  <2>1. m \in Nat /\ q[0] \in S[0] /\ \A i \in 1 .. m : q[i - 1] \in S[i - 1] => q[i] \in S[i]
    <3>1. \A i \in 1 .. m : q[i - 1] \in Seq(Words) => q[i] \in Seq(Words)
      BY <1>2, <1>7
    <3>2. m \in Nat /\ q[0] \in S[0]
      BY <1>1, <1>7
    <3> HIDE DEF q, S, m
    <3> QED
      BY <1>3, <3>1, <3>2 DEF m
  <2>2. \A i \in 0 .. m : q[i] \in S[i]
    <3> HIDE DEF q, S, m
    <3> QED
      BY <2>1, Along
  <2> QED
    BY <2>2
<1> QED
  BY <1>7, <1>8

LEMMA NormType ==
    ASSUME NEW ps \in Seq(Words)
    PROVE  Norm(ps) \in Seq(Words)
<1>1. Len(ps) \in 0 .. Len(ps)
  OBVIOUS
<1> QED
  BY <1>1, NormIs DEF Norm

LEMMA NormNone == Norm(<<>>) = <<>>
<1>1. <<>> \in Seq(Words) /\ Len(<<>>) = 0
  OBVIOUS
<1> QED
  BY <1>1, NormIs DEF Norm

LEMMA NormAppend ==
    ASSUME NEW ps \in Seq(Words), NEW w \in Words
    PROVE  Norm(Append(ps, w)) = Pushed(Norm(ps), w)
<1> DEFINE qs == Append(ps, w)  n == Len(ps)  f == NormUpto(ps)  g == NormUpto(qs)
<1>1. /\ qs \in Seq(Words) /\ Len(qs) = n + 1 /\ n \in Nat /\ qs[n + 1] = w
      /\ \A i \in 1 .. n : qs[i] = ps[i]
  BY AppendProperties
<1> HIDE DEF qs
<1>2. f[0] = g[0]
  BY <1>1, NormIs
<1>3. ASSUME NEW i \in 1 .. n, f[i - 1] = g[i - 1]
      PROVE  f[i] = g[i]
  <2>1. i \in 1 .. Len(qs) /\ i \in 1 .. Len(ps) /\ qs[i] = ps[i]
    BY <1>1
  <2>2. g[i] = Pushed(g[i - 1], qs[i])
    BY <1>1, <2>1, NormIs
  <2>3. f[i] = Pushed(f[i - 1], ps[i])
    BY <2>1, NormIs
  <2> QED
    BY <1>3, <2>1, <2>2, <2>3
<1>4. f[n] = g[n]
  <2>1. \A i \in 0 .. n : f[i] = g[i]
    <3>1. n \in Nat /\ StayAlike(n, f, g)
      BY <1>1, <1>2, <1>3 DEF StayAlike
    <3> HIDE DEF f, g, n
    <3> QED
      BY ONLY <3>1, Alike
  <2> QED
    BY <1>1, <2>1
<1>5. g[n + 1] = Pushed(g[n], qs[n + 1])
  <2>1. n + 1 \in 1 .. Len(qs) /\ (n + 1) - 1 = n
    BY <1>1
  <2>2. g[n + 1] = Pushed(g[(n + 1) - 1], qs[n + 1])
    BY <1>1, <2>1, NormIs
  <2> QED
    BY <2>1, <2>2
<1> QED
  BY <1>1, <1>4, <1>5 DEF Norm, qs

LEMMA NormalIs ==
    ASSUME NEW t \in Texts
    PROVE  /\ Normal(t) = Join(Norm(Parts(t))) /\ Norm(Parts(t)) \in Seq(Words)
           /\ Normal(t) \in Texts /\ IsAbsolute(Normal(t))
           /\ Parts(Normal(t)) = Norm(Parts(t))
<1>1. Normal(t) = Join(Norm(Parts(t)))
  BY DEF Normal, Norm, NormUpto
<1>2. Norm(Parts(t)) \in Seq(Words)
  BY PartsType, NormType
<1> QED
  BY <1>1, <1>2, PartsOfJoin

-----------------------------------------------------------------------------
(* canonicalize_path *)

(* What new_path holds for some parts *)
Shown(ps) == Joined(ps) \o Slash

LEMMA ShownIs ==
    ASSUME NEW ps \in Seq(Words)
    PROVE  /\ Shown(ps) \in Texts
           /\ ps = <<>> => Shown(ps) = Slash
           /\ ps # <<>> => Len(Shown(ps)) # 1
           /\ Join(ps) = IF Len(Shown(ps)) = 1 THEN Shown(ps) ELSE Front(Shown(ps))
<1>1. ps \in Seq(Texts) /\ Joined(ps) \in Texts
  BY WordsAreTexts, JoinedType
<1>2. Shown(ps) \in Texts /\ Len(Shown(ps)) = Len(Joined(ps)) + 1 /\ Front(Shown(ps)) = Joined(ps)
  BY <1>1, Characters DEF Shown, Slash, Front, Texts
<1>3. CASE ps = <<>>
  <2>1. Shown(ps) = Slash /\ Len(Slash) = 1
    <3>1. Joined(ps) = <<>> /\ Slash \in Seq(Chars)
      BY <1>3, JoinedNone, Characters DEF Texts
    <3>2. <<>> \o Slash = Slash
      BY <3>1, ConcatEmptySeq
    <3> QED
      BY <3>1, <3>2 DEF Shown, Slash
  <2>2. Join(ps) = Slash
    BY <1>1, <1>3, JoinIsJoined
  <2>3. Len(Shown(ps)) = 1
    BY <2>1
  <2> QED
    BY <1>2, <1>3, <2>1, <2>2, <2>3
<1>4. CASE ps # <<>>
  <2>1. Joined(ps) # <<>>
    BY <1>4, PartsOfJoined, PartsOfNone
  <2>2. Len(Joined(ps)) \in Nat \ {0}
    BY <1>1, <2>1 DEF Texts
  <2>3. Len(Shown(ps)) # 1
    BY <1>2, <2>2
  <2>4. Join(ps) = Joined(ps)
    BY <1>1, <1>4, JoinIsJoined
  <2> QED
    BY <1>2, <1>4, <2>3, <2>4
<1> QED
  BY <1>3, <1>4

LEMMA ShownAppend ==
    ASSUME NEW ps \in Seq(Words), NEW w \in Words
    PROVE  Shown(Append(ps, w)) = (Shown(ps) \o w) \o Slash
<1>1. ps \in Seq(Texts) /\ w \in Texts
  BY WordsAreTexts
<1> QED
  BY <1>1, JoinedAppend DEF Shown

(* Stepping back over a part *)
LEMMA UpOneIs ==
    ASSUME NEW ps \in Seq(Words)
    PROVE  UpOne(Shown(ps)) = Shown(IF ps = <<>> THEN <<>> ELSE Front(ps))
<1>1. CASE ps = <<>>
  <2>1. Shown(ps) = Slash /\ Len(Slash) = 1
    BY <1>1, ShownIs DEF Slash
  <2> QED
    BY <1>1, <2>1 DEF UpOne
<1>2. CASE ps # <<>>
  <2>1. PICK rs \in Seq(Words), w \in Words : ps = Append(rs, w)
    BY <1>2, SequenceEmptyOrAppend
  <2>2. Front(ps) = rs
    BY <2>1 DEF Front
  <2> DEFINE out == Shown(ps)  s == Shown(rs)  back == {n \in 1 .. Len(out) - 1 : out[n] = "/"}
  <2>3. s \in Texts /\ out = (s \o w) \o Slash /\ w \in Texts
    BY <2>1, ShownIs, ShownAppend, WordsAreTexts
  <2>4. Len(s) \in Nat \ {0} /\ s[Len(s)] = "/"
    <3>1. Joined(rs) \in Texts
      BY WordsAreTexts, JoinedType
    <3> QED
      BY <3>1, Characters DEF Shown, Slash, Texts
  <2>5. Len(w) \in Nat \ {0} /\ \A i \in 1 .. Len(w) : w[i] # "/"
    BY <2>3 DEF Words, Texts
  <2> HIDE DEF s, out
  <2>6. /\ Len(out) = (Len(s) + Len(w)) + 1
        /\ \A n \in 1 .. Len(s) : out[n] = s[n]
        /\ \A n \in 1 .. Len(w) : out[Len(s) + n] = w[n]
    BY <2>3, <2>4, <2>5, Characters DEF Texts, Slash
  <2>7. Len(s) \in back /\ \A n \in back : n <= Len(s)
    <3>1. Len(s) \in back
      BY <2>4, <2>5, <2>6
    <3>2. ASSUME NEW n \in back, n > Len(s)
          PROVE  FALSE
      <4>1. n - Len(s) \in 1 .. Len(w) /\ n = Len(s) + (n - Len(s))
        BY <2>4, <2>5, <2>6, <3>2
      <4>2. out[n] = w[n - Len(s)]
        BY <2>6, <4>1
      <4> QED
        BY <2>5, <3>2, <4>1, <4>2
    <3>3. back \subseteq Nat /\ Len(s) \in Nat
      BY <2>4, <2>5, <2>6
    <3> HIDE DEF back
    <3>4. \A n \in back : n \in Nat /\ ~(n > Len(s))
      BY <3>2, <3>3
    <3> QED
      BY <3>1, <3>3, <3>4
  <2>8. Max(back) = Len(s)
    <3>1. back \subseteq Nat
      BY <2>4, <2>5, <2>6
    <3> HIDE DEF back
    <3>2. Max(back) \in back /\ \A n \in back : n <= Max(back)
      BY <2>4, <2>7, <3>1, MaxIsGreatest
    <3>3. /\ Max(back) \in Nat /\ Len(s) \in Nat
          /\ Max(back) <= Len(s) /\ Len(s) <= Max(back)
      BY <2>4, <2>7, <3>1, <3>2
    <3> QED
      BY <3>3
  <2>9. Len(out) # 1
    BY <2>4, <2>5, <2>6
  <2>10. UpOne(out) = SubSeq(out, 1, Len(s))
    BY <2>8, <2>9 DEF UpOne
  <2>11. SubSeq(out, 1, Len(s)) = s
    BY <2>3, <2>4, <2>5, <2>6, Characters DEF Texts
  <2> QED
    BY <1>2, <2>2, <2>10, <2>11 DEF out, s
<1> QED
  BY <1>1, <1>2

(* A word that the text has from a to b is its last part there. *)
LEMMA RunOfWord ==
    ASSUME NEW t \in Texts, NEW a \in 1 .. Len(t), NEW b \in a .. Len(t),
           \A i \in a .. b : t[i] # "/", a = 1 \/ t[a - 1] = "/"
    PROVE  /\ SubSeq(t, a, b) \in Words /\ Len(SubSeq(t, a, b)) = (b - a) + 1
           /\ PartsUpto(t)[b] = Append(PartsUpto(t)[a - 1], SubSeq(t, a, b))
           /\ PartsUpto(t)[a - 1] \in Seq(Words)
<1>1. /\ Len(t) \in Nat /\ a \in Nat \ {0} /\ b \in Nat
      /\ a <= b /\ b <= Len(t) /\ a - 1 \in 0 .. Len(t)
  BY DEF Texts
<1>2. PartsUpto(t)[a - 1] \in Seq(Words)
  BY <1>1, PartsAre DEF PartsAt
<1>3. \A n \in 1 .. Len(t) : PartsUpto(t)[n] = Extended(PartsUpto(t)[n - 1], t, n)
  BY <1>1, PartsAre
<1> DEFINE T == {k \in Nat : a + k <= b =>
                    /\ SubSeq(t, a, a + k) \in Words
                    /\ PartsUpto(t)[a + k] = Append(PartsUpto(t)[a - 1], SubSeq(t, a, a + k))}
<1>4. 0 \in T
  <2>1. a + 0 = a /\ t[a] \in Chars /\ t[a] # "/"
    BY <1>1 DEF Texts
  <2>2. SubSeq(t, a, a) = <<t[a]>>
    <3> DEFINE u == SubSeq(t, a, a)  v == <<t[a]>>
    <3>1. u \in Seq(Chars) /\ Len(u) = 1 /\ u[1] = t[a]
      BY <1>1 DEF Texts
    <3>2. v \in Seq(Chars) /\ Len(v) = 1 /\ v[1] = t[a]
      BY <2>1
    <3>3. \A i \in 1 .. Len(u) : u[i] = v[i]
      BY <3>1, <3>2
    <3> HIDE DEF u, v
    <3>4. u = v
      BY <3>1, <3>2, <3>3, SeqEqual
    <3> QED
      BY <3>4 DEF u, v
  <2>3. <<t[a]>> \in Words
    BY <2>1, OneWord
  <2>4. PartsUpto(t)[a] = Extended(PartsUpto(t)[a - 1], t, a)
    BY <1>1, <1>3
  <2>5. Extended(PartsUpto(t)[a - 1], t, a) = Append(PartsUpto(t)[a - 1], <<t[a]>>)
    BY <2>1 DEF Extended
  <2> QED
    BY <2>1, <2>2, <2>3, <2>4, <2>5
<1>5. ASSUME NEW k \in Nat, k \in T
      PROVE  k + 1 \in T
  <2> SUFFICES ASSUME a + (k + 1) <= b
               PROVE  /\ SubSeq(t, a, a + (k + 1)) \in Words
                      /\ PartsUpto(t)[a + (k + 1)]
                            = Append(PartsUpto(t)[a - 1], SubSeq(t, a, a + (k + 1)))
    BY DEF T
  <2> DEFINE n == a + (k + 1)  w == SubSeq(t, a, a + k)  ps == PartsUpto(t)[a - 1]
  <2>1. /\ n \in 1 .. Len(t) /\ n - 1 = a + k /\ n # 1 /\ n \in a .. b /\ n - 1 \in a .. b
        /\ a + k <= b
    BY <1>1
  <2>2. w \in Words /\ PartsUpto(t)[n - 1] = Append(ps, w)
    BY <1>5, <2>1
  <2>3. t[n] \in Chars /\ t[n] # "/" /\ t[n - 1] # "/"
    BY <2>1 DEF Texts
  <2>4. SubSeq(t, a, n) = Append(w, t[n])
    BY <1>1, <2>1 DEF Texts
  <2>5. Append(w, t[n]) \in Words
    BY <2>2, <2>3, LongerWord
  <2>6. PartsUpto(t)[n] = Extended(PartsUpto(t)[n - 1], t, n)
    BY <1>3, <2>1
  <2> HIDE DEF n, w, ps
  <2>7. Extended(Append(ps, w), t, n)
           = Append(Front(Append(ps, w)), Append(Last(Append(ps, w)), t[n]))
    BY <2>1, <2>3 DEF Extended
  <2>8. Front(Append(ps, w)) = ps /\ Last(Append(ps, w)) = w
    BY <1>2, <2>2 DEF Front, Last, ps
  <2>9. SubSeq(t, a, n) \in Words /\ PartsUpto(t)[n] = Append(ps, SubSeq(t, a, n))
    BY <2>2, <2>4, <2>5, <2>6, <2>7, <2>8
  <2> QED
    BY <2>9 DEF n, ps
<1> HIDE DEF T
<1>6. b - a \in T
  <2>1. b - a \in Nat
    BY <1>1
  <2> QED
    BY <1>4, <1>5, <2>1, Induction
<1>7. a + (b - a) = b
  BY <1>1
<1>8. Len(SubSeq(t, a, b)) = (b - a) + 1
  BY <1>1 DEF Texts
<1> QED
  BY <1>1, <1>2, <1>6, <1>7, <1>8 DEF T

(* Between two rounds new_path has what the parts before xpath mean, and   *)
(* xpath is not inside a part.                                             *)
BetweenParts(t, s) ==
    /\ s \in [x : 1 .. Len(t) + 1, out : Texts]
    /\ s.out = Shown(Norm(PartsUpto(t)[s.x - 1]))
    /\ s.x = 1 \/ s.x = Len(t) + 1 \/ t[s.x - 1] = "/" \/ t[s.x] = "/"

LEMMA MadeState ==
    ASSUME NEW t, NEW x \in 1 .. Len(t) + 1, NEW out \in Texts,
           out = Shown(Norm(PartsUpto(t)[x - 1])),
           x = 1 \/ x = Len(t) + 1 \/ t[x - 1] = "/" \/ t[x] = "/"
    PROVE  BetweenParts(t, [x |-> x, out |-> out])
BY DEF BetweenParts

(* A dot or two that are a whole part *)
LEMMA PartIs ==
    ASSUME NEW t \in Texts, NEW n \in 1 .. Len(t)
    PROVE  /\ IsPart(t, n, Dot) <=> t[n] = "." /\ (n = Len(t) \/ t[n + 1] = "/")
           /\ IsPart(t, n, DotDot) <=>
                 /\ n + 1 <= Len(t) /\ t[n] = "." /\ t[n + 1] = "."
                 /\ n + 1 = Len(t) \/ t[n + 2] = "/"
<1>1. Len(t) \in Nat /\ t \in Seq(Chars)
  BY DEF Texts
<1>2. SubSeq(t, n, n) = Dot <=> t[n] = "."
  <2> DEFINE u == SubSeq(t, n, n)
  <2>1. u \in Seq(Chars) /\ Len(u) = 1 /\ u[1] = t[n]
    BY <1>1
  <2>2. Dot \in Seq(Chars) /\ Len(Dot) = 1 /\ Dot[1] = "."
    BY Characters DEF Dot, Texts
  <2> HIDE DEF u
  <2>3. u[1] = Dot[1] => \A i \in 1 .. Len(u) : u[i] = Dot[i]
    BY <2>1, <2>2
  <2>4. u[1] = Dot[1] => u = Dot
    BY <2>1, <2>2, <2>3, SeqEqual
  <2> QED
    BY <2>1, <2>2, <2>4 DEF u
<1>3. ASSUME n + 1 <= Len(t)
      PROVE  SubSeq(t, n, n + 1) = DotDot <=> t[n] = "." /\ t[n + 1] = "."
  <2> DEFINE u == SubSeq(t, n, n + 1)
  <2>1. u \in Seq(Chars) /\ Len(u) = 2 /\ u[1] = t[n] /\ u[2] = t[n + 1]
    BY <1>1, <1>3
  <2>2. DotDot \in Seq(Chars) /\ Len(DotDot) = 2 /\ DotDot[1] = "." /\ DotDot[2] = "."
    BY Characters DEF DotDot, Texts
  <2> HIDE DEF u
  <2>3. u[1] = DotDot[1] /\ u[2] = DotDot[2] => \A i \in 1 .. Len(u) : u[i] = DotDot[i]
    BY <2>1, <2>2
  <2>4. u[1] = DotDot[1] /\ u[2] = DotDot[2] => u = DotDot
    BY <2>1, <2>2, <2>3, SeqEqual
  <2> QED
    BY <2>1, <2>2, <2>4 DEF u
<1>4. Len(Dot) = 1 /\ Len(DotDot) = 2
  BY DEF Dot, DotDot
<1>5. IsPart(t, n, Dot) <=> t[n] = "." /\ (n = Len(t) \/ t[n + 1] = "/")
  <2>1. (n + 1) - 1 = n
    OBVIOUS
  <2> QED
    BY <1>1, <1>2, <1>4, <2>1 DEF IsPart
<1>6. IsPart(t, n, DotDot) <=>
         /\ n + 1 <= Len(t) /\ t[n] = "." /\ t[n + 1] = "."
         /\ n + 1 = Len(t) \/ t[n + 2] = "/"
  <2>1. (n + 2) - 1 = n + 1 /\ (n + 1) + 1 = n + 2
    OBVIOUS
  <2> QED
    BY <1>1, <1>3, <1>4, <2>1 DEF IsPart
<1> QED
  BY <1>5, <1>6

(* Where the part at x ends *)
PartEnd(t, x) == Min({Len(t) + 1} \cup {n \in x .. Len(t) : t[n] = "/"})

LEMMA RoundIs ==
    ASSUME NEW t \in Texts, NEW s, s = [x |-> s.x, out |-> s.out], s.x \in 1 .. Len(t)
    PROVE  /\ t[s.x] = "/" \/ IsPart(t, s.x, Dot) =>
                 Round(t, s) = [x |-> s.x + 1, out |-> s.out]
           /\ IsPart(t, s.x, DotDot) => Round(t, s) = [x |-> s.x + 2, out |-> UpOne(s.out)]
           /\ t[s.x] # "/" /\ ~IsPart(t, s.x, Dot) /\ ~IsPart(t, s.x, DotDot) =>
                 Round(t, s) = [x |-> PartEnd(t, s.x),
                                out |-> (s.out \o SubSeq(t, s.x, PartEnd(t, s.x) - 1)) \o Slash]
<1>1. Len(t) \in Nat /\ s.x \in Nat /\ ~(s.x > Len(t)) /\ s.x <= Len(t)
  BY DEF Texts
<1>2. "." # "/"
  OBVIOUS
<1>3. /\ ~(t[s.x] = "/" /\ IsPart(t, s.x, Dot)) /\ ~(t[s.x] = "/" /\ IsPart(t, s.x, DotDot))
      /\ ~(IsPart(t, s.x, Dot) /\ IsPart(t, s.x, DotDot))
  BY <1>1, <1>2, PartIs
<1>4. CASE t[s.x] = "/"
  BY <1>1, <1>3, <1>4, SMT DEF Round
<1>5. CASE IsPart(t, s.x, Dot)
  BY <1>1, <1>3, <1>5, SMT DEF Round
<1>6. CASE IsPart(t, s.x, DotDot)
  BY <1>1, <1>3, <1>6, SMT DEF Round
<1>7. CASE t[s.x] # "/" /\ ~IsPart(t, s.x, Dot) /\ ~IsPart(t, s.x, DotDot)
  BY <1>1, <1>7, SMT DEF Round, PartEnd
<1> QED
  BY <1>4, <1>5, <1>6, <1>7

LEMMA RoundKeeps ==
    ASSUME NEW t \in Texts, NEW s, BetweenParts(t, s)
    PROVE  /\ BetweenParts(t, Round(t, s))
           /\ Round(t, s).x > s.x \/ Round(t, s).x = Len(t) + 1
<1> DEFINE q == PartsUpto(t)[s.x - 1]
<1>1. /\ Len(t) \in Nat /\ s.x \in 1 .. Len(t) + 1 /\ s.x \in Nat /\ s.out \in Texts
      /\ s = [x |-> s.x, out |-> s.out] /\ s.x - 1 \in 0 .. Len(t)
  BY DEF BetweenParts, Texts
<1>2. q \in Seq(Words) /\ Norm(q) \in Seq(Words) /\ s.out = Shown(Norm(q))
  BY <1>1, PartsAre, NormType DEF PartsAt, BetweenParts
<1>3. \A n \in 1 .. Len(t) : PartsUpto(t)[n] = Extended(PartsUpto(t)[n - 1], t, n)
  BY <1>1, PartsAre
<1>4. CASE s.x > Len(t)
  <2>1. Round(t, s) = s
    BY <1>1, <1>4, SMT DEF Round
  <2> QED
    BY <1>1, <1>4, <2>1
<1>5. CASE s.x \in 1 .. Len(t) /\ t[s.x] = "/"
  <2>1. Round(t, s) = [x |-> s.x + 1, out |-> s.out]
    BY <1>1, <1>5, RoundIs
  <2>2. s.x + 1 \in 1 .. Len(t) + 1 /\ (s.x + 1) - 1 = s.x
    BY <1>1, <1>5
  <2>3. PartsUpto(t)[s.x] = q
    BY <1>3, <1>5, <2>2 DEF Extended
  <2>4. BetweenParts(t, [x |-> s.x + 1, out |-> s.out])
    BY <1>1, <1>2, <1>5, <2>2, <2>3, MadeState
  <2>5. Round(t, s).x = s.x + 1 /\ s.x + 1 > s.x
    BY <1>1, <2>1
  <2> QED
    BY <2>1, <2>4, <2>5
<1>6. ASSUME s.x \in 1 .. Len(t), t[s.x] # "/"
      PROVE  s.x = 1 \/ t[s.x - 1] = "/"
  BY <1>1, <1>6 DEF BetweenParts
<1>7. CASE s.x \in 1 .. Len(t) /\ IsPart(t, s.x, Dot)
  <2>1. Round(t, s) = [x |-> s.x + 1, out |-> s.out]
    BY <1>1, <1>7, RoundIs
  <2>2. t[s.x] = "." /\ (s.x = Len(t) \/ t[s.x + 1] = "/")
    BY <1>7, PartIs
  <2>3. s.x + 1 \in 1 .. Len(t) + 1 /\ (s.x + 1) - 1 = s.x
    BY <1>1, <1>7
  <2>4. s.x = 1 \/ t[s.x - 1] = "/"
    BY <1>6, <1>7, <2>2
  <2>5. PartsUpto(t)[s.x] = Append(q, Dot)
    BY <1>3, <1>7, <2>2, <2>4 DEF Extended, Dot
  <2>6. Dot \in Words
    BY Characters, CharsAssumption, OneWord DEF Dot
  <2>7. Norm(Append(q, Dot)) = Norm(q)
    <3>1. Norm(Append(q, Dot)) = Pushed(Norm(q), Dot)
      BY <1>2, <2>6, NormAppend
    <3>2. Dot # DotDot
      BY DEF Dot, DotDot
    <3> QED
      BY <3>1, <3>2 DEF Pushed
  <2>8. BetweenParts(t, [x |-> s.x + 1, out |-> s.out])
    BY <1>1, <1>2, <2>2, <2>3, <2>5, <2>7, MadeState
  <2>9. Round(t, s).x = s.x + 1 /\ s.x + 1 > s.x
    BY <1>1, <2>1
  <2> QED
    BY <2>1, <2>8, <2>9
<1>8. CASE s.x \in 1 .. Len(t) /\ IsPart(t, s.x, DotDot)
  <2>1. Round(t, s) = [x |-> s.x + 2, out |-> UpOne(s.out)]
    BY <1>1, <1>8, RoundIs
  <2>2. /\ s.x + 1 <= Len(t) /\ t[s.x] = "." /\ t[s.x + 1] = "."
        /\ s.x + 1 = Len(t) \/ t[s.x + 2] = "/"
    BY <1>8, PartIs
  <2>3. /\ s.x + 2 \in 1 .. Len(t) + 1 /\ (s.x + 2) - 1 = s.x + 1 /\ s.x + 1 \in s.x .. Len(t)
        /\ ((s.x + 1) - s.x) + 1 = 2
        /\ \A i \in s.x .. s.x + 1 : i = s.x \/ i = s.x + 1
    BY <1>1, <1>8, <2>2
  <2>4. \A i \in s.x .. s.x + 1 : t[i] # "/"
    BY <2>2, <2>3
  <2>5. s.x = 1 \/ t[s.x - 1] = "/"
    BY <1>6, <1>8, <2>2
  <2>6. /\ SubSeq(t, s.x, s.x + 1) \in Words
        /\ PartsUpto(t)[s.x + 1] = Append(q, SubSeq(t, s.x, s.x + 1))
    BY <1>8, <2>3, <2>4, <2>5, RunOfWord
  <2>7. SubSeq(t, s.x, s.x + 1) = DotDot
    BY <1>1, <1>8 DEF IsPart, DotDot
  <2>8. Norm(Append(q, DotDot)) = IF Norm(q) = <<>> THEN <<>> ELSE Front(Norm(q))
    <3>1. Norm(Append(q, DotDot)) = Pushed(Norm(q), DotDot) /\ DotDot # Dot
      BY <1>2, <2>6, <2>7, NormAppend DEF Dot, DotDot
    <3> QED
      BY <3>1 DEF Pushed
  <2>9. UpOne(s.out) = Shown(Norm(Append(q, DotDot)))
    BY <1>2, <2>8, UpOneIs
  <2>10. Append(q, DotDot) \in Seq(Words)
    <3> HIDE DEF q
    <3> QED
      BY <1>2, <2>6, <2>7, AppendProperties
  <2>11. UpOne(s.out) \in Texts
    BY <2>9, <2>10, NormType, ShownIs
  <2>12. BetweenParts(t, [x |-> s.x + 2, out |-> UpOne(s.out)])
    <3>1. PartsUpto(t)[(s.x + 2) - 1] = Append(q, DotDot)
      BY <2>3, <2>6, <2>7
    <3>2. s.x + 2 = Len(t) + 1 \/ t[s.x + 2] = "/"
      BY <1>1, <2>2
    <3> HIDE DEF q
    <3> QED
      BY <2>3, <2>9, <2>11, <3>1, <3>2, MadeState
  <2>13. Round(t, s).x = s.x + 2 /\ s.x + 2 > s.x
    BY <1>1, <2>1
  <2> QED
    BY <2>1, <2>12, <2>13
<1>9. CASE /\ s.x \in 1 .. Len(t) /\ t[s.x] # "/"
           /\ ~IsPart(t, s.x, Dot) /\ ~IsPart(t, s.x, DotDot)
  <2> DEFINE ends == {Len(t) + 1} \cup {n \in s.x .. Len(t) : t[n] = "/"}
             end == PartEnd(t, s.x)
             w == SubSeq(t, s.x, end - 1)
  <2>1. Round(t, s) = [x |-> end, out |-> (s.out \o w) \o Slash]
    BY <1>1, <1>9, RoundIs
  <2>2. ends \subseteq Nat /\ ends # {}
    BY <1>1
  <2>3. end \in ends /\ \A n \in ends : end <= n
    <3>1. end = Min(ends)
      BY DEF PartEnd
    <3> HIDE DEF ends, end
    <3> QED
      BY <2>2, <3>1, MinIsLeast
  <2>4. /\ end \in Nat /\ end <= Len(t) + 1 /\ s.x <= end /\ end # s.x
        /\ end = Len(t) + 1 \/ t[end] = "/"
    BY <1>1, <1>9, <2>3
  <2>5. /\ end \in 1 .. Len(t) + 1 /\ end - 1 \in s.x .. Len(t) /\ end > s.x
        /\ ((end - 1) - s.x) + 1 = end - s.x
    BY <1>1, <2>4
  <2>6. \A i \in s.x .. end - 1 : t[i] # "/"
    <3> SUFFICES ASSUME NEW i \in s.x .. end - 1, t[i] = "/"
                 PROVE  FALSE
      OBVIOUS
    <3>1. i \in s.x .. Len(t) /\ i < end
      BY <1>1, <2>4, <2>5
    <3>2. end <= i
      BY <2>3, <3>1
    <3> QED
      BY <1>1, <2>4, <3>1, <3>2
  <2>7. /\ w \in Words /\ Len(w) = end - s.x
        /\ PartsUpto(t)[end - 1] = Append(q, w)
    <3>1. s.x = 1 \/ t[s.x - 1] = "/"
      BY <1>6, <1>9
    <3> HIDE DEF end
    <3> QED
      BY <1>9, <2>5, <2>6, <3>1, RunOfWord
  <2> HIDE DEF end, w
  <2>8. w # Dot /\ w # DotDot
    <3>1. \A i \in 1 .. end - s.x : w[i] = t[(s.x + i) - 1]
      BY SMTT(30), <1>1, <2>4, <2>5 DEF w, Texts
    <3>2. w # Dot
      <4> SUFFICES ASSUME w = Dot PROVE FALSE
        OBVIOUS
      <4>1. Len(w) = 1 /\ w[1] = "."
        BY DEF Dot
      <4>2. end = s.x + 1
        BY <1>1, <2>4, <2>7, <4>1
      <4>3. 1 \in 1 .. end - s.x /\ (s.x + 1) - 1 = s.x
        BY <1>1, <4>2
      <4>4. t[s.x] = "."
        BY <3>1, <4>1, <4>3
      <4>5. s.x = Len(t) \/ t[s.x + 1] = "/"
        BY <1>1, <2>4, <4>2
      <4> QED
        BY <1>9, <4>4, <4>5, PartIs
    <3>3. w # DotDot
      <4> SUFFICES ASSUME w = DotDot PROVE FALSE
        OBVIOUS
      <4>1. Len(w) = 2 /\ w[1] = "." /\ w[2] = "."
        BY DEF DotDot
      <4>2. end = s.x + 2
        <5>1. end - s.x = 2
          BY <2>7, <4>1
        <5> QED
          BY <1>1, <2>4, <5>1
      <4>3. /\ 1 \in 1 .. end - s.x /\ (s.x + 1) - 1 = s.x
            /\ 2 \in 1 .. end - s.x /\ (s.x + 2) - 1 = s.x + 1
        BY <1>1, <4>2
      <4>4. t[s.x] = "." /\ t[s.x + 1] = "."
        BY <3>1, <4>1, <4>3
      <4>5. s.x + 1 <= Len(t) /\ (s.x + 1 = Len(t) \/ t[s.x + 2] = "/")
        BY <1>1, <2>4, <4>2
      <4> QED
        BY <1>9, <4>4, <4>5, PartIs
    <3> QED
      BY <3>2, <3>3

  <2>9. Norm(Append(q, w)) = Append(Norm(q), w)
    <3>1. Norm(Append(q, w)) = Pushed(Norm(q), w)
      BY <1>2, <2>7, NormAppend
    <3> QED
      BY <2>8, <3>1 DEF Pushed
  <2>10. (s.out \o w) \o Slash = Shown(Norm(Append(q, w)))
    BY <1>2, <2>7, <2>9, ShownAppend
  <2>11. (s.out \o w) \o Slash \in Texts
    <3>1. Append(q, w) \in Seq(Words)
      BY <1>2, <2>7, AppendProperties
    <3> QED
      BY <2>10, <3>1, NormType, ShownIs
  <2>12. BetweenParts(t, [x |-> end, out |-> (s.out \o w) \o Slash])
    BY <2>4, <2>5, <2>7, <2>10, <2>11, MadeState
  <2> QED
    BY <2>1, <2>5, <2>12 DEF end, w
<1> QED
  BY <1>1, <1>4, <1>5, <1>7, <1>8, <1>9

CanonUpto(t) ==
    LET at[n \in 0 .. Len(t)] ==
            IF n = 0 THEN [x |-> 1, out |-> Slash] ELSE Round(t, at[n - 1])
    IN  at

(* After n rounds xpath is n characters on, or at the end. *)
CanonAt(t) ==
    [n \in 0 .. Len(t) |-> {s \in [x : 1 .. Len(t) + 1, out : Texts] :
                              BetweenParts(t, s) /\ (s.x > n \/ s.x = Len(t) + 1)}]

LEMMA CanonAtIs ==
    ASSUME NEW t \in Texts, NEW n \in 0 .. Len(t), NEW s
    PROVE  s \in CanonAt(t)[n] <=> BetweenParts(t, s) /\ (s.x > n \/ s.x = Len(t) + 1)
BY DEF CanonAt, BetweenParts

LEMMA CanonSteps ==
    ASSUME NEW t \in Texts
    PROVE  /\ [x |-> 1, out |-> Slash] \in CanonAt(t)[0]
           /\ \A n \in 1 .. Len(t) : \A s \in CanonAt(t)[n - 1] : Round(t, s) \in CanonAt(t)[n]
<1>1. Len(t) \in Nat /\ 1 \in 1 .. Len(t) + 1 /\ 0 \in 0 .. Len(t) /\ 1 - 1 = 0
  BY DEF Texts
<1>2. [x |-> 1, out |-> Slash] \in CanonAt(t)[0]
  <2>1. PartsUpto(t)[0] = <<>>
    BY <1>1, PartsAre
  <2>2. Shown(Norm(<<>>)) = Slash
    <3>1. <<>> \in Seq(Words)
      OBVIOUS
    <3> QED
      BY <3>1, NormNone, ShownIs
  <2>3. BetweenParts(t, [x |-> 1, out |-> Slash])
    BY <1>1, <2>1, <2>2, Characters, MadeState
  <2> QED
    BY <1>1, <2>3, CanonAtIs
<1>3. ASSUME NEW n \in 1 .. Len(t), NEW s \in CanonAt(t)[n - 1]
      PROVE  Round(t, s) \in CanonAt(t)[n]
  <2>1. n - 1 \in 0 .. Len(t) /\ n \in 0 .. Len(t)
    BY <1>1
  <2>2. BetweenParts(t, s) /\ (s.x > n - 1 \/ s.x = Len(t) + 1)
    BY <2>1, CanonAtIs
  <2> DEFINE r == Round(t, s)
  <2>3. BetweenParts(t, r) /\ (r.x > s.x \/ r.x = Len(t) + 1)
    BY <2>2, RoundKeeps
  <2>4. s.x \in 1 .. Len(t) + 1 /\ r.x \in 1 .. Len(t) + 1
    BY <2>2, <2>3 DEF BetweenParts
  <2> HIDE DEF r
  <2>5. r.x > n \/ r.x = Len(t) + 1
    BY <1>1, <2>2, <2>3, <2>4
  <2>6. r \in CanonAt(t)[n]
    BY <2>1, <2>3, <2>5, CanonAtIs
  <2> QED
    BY <2>6 DEF r
<1> QED
  BY <1>2, <1>3

LEMMA CanonIs ==
    ASSUME NEW t \in Texts
    PROVE  \A n \in 0 .. Len(t) : CanonUpto(t)[n] \in CanonAt(t)[n]
<1> DEFINE b == [x |-> 1, out |-> Slash]
           E(f) == [n \in 0 .. Len(t) |-> IF n = 0 THEN b ELSE Round(t, f[n - 1])]
           U == [x : 1 .. Len(t) + 1, out : Texts]
           G == [z \in U \X (1 .. Len(t)) |-> Round(t, z[1])]
           S == CanonAt(t)
<1>1. Len(t) \in Nat /\ b \in S[0]
  BY CanonSteps DEF Texts
<1>2. \A n \in 0 .. Len(t) : S[n] \subseteq U
  BY DEF CanonAt
<1>3. ASSUME NEW n \in 1 .. Len(t), NEW s \in S[n - 1]
      PROVE  G[<<s, n>>] = Round(t, s) /\ Round(t, s) \in S[n]
  <2>1. n - 1 \in 0 .. Len(t)
    BY <1>1
  <2>2. s \in U
    <3> HIDE DEF U, S
    <3> QED
      BY <1>2, <2>1
  <2>3. Round(t, s) \in S[n]
    BY CanonSteps
  <2> HIDE DEF U, S
  <2> QED
    BY <2>2, <2>3
<1> HIDE DEF G, S, U, b
<1>4. PICK f : RunOf(f, Len(t), S, b, G)
  <2>1. StepsIn(Len(t), S, G)
    BY <1>3 DEF StepsIn
  <2> QED
    BY <1>1, <2>1, Recursion
<1> DEFINE g == [n \in 0 .. Len(t) |-> IF n = 0 THEN b ELSE Round(t, f[n - 1])]
<1>5. g = E(g)
  <2>1. ASSUME NEW n \in 0 .. Len(t)
        PROVE  g[n] = f[n]
    <3>1. CASE n # 0
      <4>1. n \in 1 .. Len(t) /\ n - 1 \in 0 .. Len(t)
        BY <1>1, <3>1
      <4>2. f[n - 1] \in S[n - 1] /\ f[n] = G[<<f[n - 1], n>>]
        BY <1>4, <4>1 DEF RunOf
      <4> QED
        BY <1>3, <3>1, <4>1, <4>2
    <3> QED
      BY <1>4, <3>1 DEF RunOf
  <2>2. \A n \in 0 .. Len(t) : n # 0 => g[n - 1] = f[n - 1]
    <3>1. \A n \in 0 .. Len(t) : n # 0 => n - 1 \in 0 .. Len(t)
      BY <1>1
    <3> HIDE DEF g
    <3> QED
      BY <2>1, <3>1
  <2> QED
    BY <2>2
<1>6. CanonUpto(t) = E(CanonUpto(t))
  BY <1>5 DEF CanonUpto, b
<1>7. /\ CanonUpto(t)[0] = b
      /\ \A n \in 1 .. Len(t) : CanonUpto(t)[n] = Round(t, CanonUpto(t)[n - 1])
  BY <1>1, <1>6
<1> DEFINE q == CanonUpto(t)  m == Len(t)
<1>8. m \in Nat /\ q[0] \in S[0] /\ \A i \in 1 .. m : q[i - 1] \in S[i - 1] => q[i] \in S[i]
  BY <1>1, <1>3, <1>7
<1>9. \A i \in 0 .. m : q[i] \in S[i]
  <2> HIDE DEF q, m
  <2> QED
    BY <1>8, Along
<1> QED
  BY <1>9 DEF S

(* canonicalize_path, which works on characters, does to a text what . and *)
(* .. mean part by part.                                                   *)
THEOREM CanonicalTextIsNormal ==
    ASSUME NEW t \in Texts
    PROVE  CanonicalText(t) = Normal(t)
<1> DEFINE s == CanonUpto(t)[Len(t)]  ps == Norm(Parts(t))
<1>1. Len(t) \in Nat /\ Len(t) \in 0 .. Len(t)
  BY DEF Texts
<1>2. BetweenParts(t, s) /\ (s.x > Len(t) \/ s.x = Len(t) + 1)
  BY <1>1, CanonIs, CanonAtIs
<1>3. s.x = Len(t) + 1
  <2>1. s.x \in 1 .. Len(t) + 1
    BY <1>2 DEF BetweenParts
  <2> HIDE DEF s
  <2> QED
    BY <1>1, <1>2, <2>1
<1>4. s.out = Shown(ps)
  <2>1. s.x - 1 = Len(t)
    BY <1>1, <1>3
  <2>2. PartsUpto(t)[Len(t)] = Parts(t)
    BY PartsAre
  <2> HIDE DEF s
  <2> QED
    BY <1>2, <2>1, <2>2 DEF BetweenParts
<1>5. CanonicalText(t) = IF Len(s.out) = 1 THEN s.out ELSE Front(s.out)
  BY DEF CanonicalText, CanonUpto
<1>6. Normal(t) = Join(ps) /\ ps \in Seq(Words)
  BY NormalIs
<1> HIDE DEF s, ps
<1> QED
  BY <1>4, <1>5, <1>6, ShownIs

-----------------------------------------------------------------------------
(* What cd is asked *)

Askings == [path : Texts \cup {NotSet}, physical : BOOLEAN, bad : BOOLEAN]

LEMMA WordIs ==
    ASSUME NEW o \in Askings, NEW w \in Texts
    PROVE  Word(o, w) \in Askings
<1>1. /\ o.path \in Texts \cup {NotSet} /\ o.physical \in BOOLEAN /\ o.bad \in BOOLEAN
      /\ Dash \in Texts
  BY Characters DEF Askings
<1>2. Options(o, w) \in Askings
  BY <1>1 DEF Options, Askings
<1>3. [o EXCEPT !.path = Dash] \in Askings /\ [o EXCEPT !.path = w] \in Askings
      /\ [o EXCEPT !.bad = TRUE] \in Askings
  BY <1>1 DEF Askings
<1>4. Word(o, w) \in {o, [o EXCEPT !.path = Dash], Options(o, w), [o EXCEPT !.path = w],
                      [o EXCEPT !.bad = TRUE]}
  BY <1>1 DEF Word, Dash
<1> HIDE DEF Askings
<1> QED
  BY <1>2, <1>3, <1>4

CdUpto(argv) ==
    LET upto[n \in 0 .. Len(argv)] ==
            IF n = 0 THEN [path |-> NotSet, physical |-> FALSE, bad |-> FALSE]
            ELSE Word(upto[n - 1], argv[n])
    IN  upto

LEMMA CdOptionsAre ==
    ASSUME NEW argv \in Seq(Texts)
    PROVE  CdOptions(argv) \in Askings
<1> DEFINE b == [path |-> NotSet, physical |-> FALSE, bad |-> FALSE]
           E(f) == [n \in 0 .. Len(argv) |-> IF n = 0 THEN b ELSE Word(f[n - 1], argv[n])]
           G == [z \in Askings \X (1 .. Len(argv)) |-> Word(z[1], argv[z[2]])]
           S == [n \in 0 .. Len(argv) |-> Askings]
<1>1. Len(argv) \in Nat /\ b \in Askings /\ S[0] = Askings
  <2>1. b \in Askings
    BY DEF Askings
  <2>2. Len(argv) \in Nat /\ 0 \in 0 .. Len(argv)
    OBVIOUS
  <2> QED
    BY <2>1, <2>2
<1>2. \A n \in 1 .. Len(argv) : S[n - 1] = Askings /\ S[n] = Askings
  BY <1>1
<1>3. ASSUME NEW n \in 1 .. Len(argv), NEW o \in Askings
      PROVE  G[<<o, n>>] = Word(o, argv[n]) /\ Word(o, argv[n]) \in Askings
  <2>1. argv[n] \in Texts
    OBVIOUS
  <2> QED
    BY <2>1, WordIs
<1> HIDE DEF G, S, b
<1>4. PICK f : RunOf(f, Len(argv), S, b, G)
  <2>1. StepsIn(Len(argv), S, G)
    BY <1>2, <1>3 DEF StepsIn
  <2> QED
    BY <1>1, <2>1, Recursion
<1> DEFINE g == [n \in 0 .. Len(argv) |-> IF n = 0 THEN b ELSE Word(f[n - 1], argv[n])]
<1>5. g = E(g)
  <2>1. ASSUME NEW n \in 0 .. Len(argv)
        PROVE  g[n] = f[n]
    <3>1. CASE n # 0
      <4>1. n \in 1 .. Len(argv) /\ n - 1 \in 0 .. Len(argv)
        BY <1>1, <3>1
      <4>2. f[n - 1] \in S[n - 1] /\ f[n] = G[<<f[n - 1], n>>]
        BY <1>4, <4>1 DEF RunOf
      <4>3. f[n - 1] \in Askings
        BY <1>2, <4>1, <4>2
      <4> QED
        BY <1>3, <3>1, <4>1, <4>2, <4>3
    <3> QED
      BY <1>4, <3>1 DEF RunOf
  <2>2. \A n \in 0 .. Len(argv) : n # 0 => g[n - 1] = f[n - 1]
    <3>1. \A n \in 0 .. Len(argv) : n # 0 => n - 1 \in 0 .. Len(argv)
      BY <1>1
    <3> HIDE DEF g
    <3> QED
      BY <2>1, <3>1
  <2> QED
    BY <2>2
<1>6. CdUpto(argv) = E(CdUpto(argv))
  BY <1>5 DEF CdUpto, b
<1>7. /\ CdUpto(argv)[0] = b
      /\ \A n \in 1 .. Len(argv) : CdUpto(argv)[n] = Word(CdUpto(argv)[n - 1], argv[n])
  BY <1>1, <1>6
<1> DEFINE q == CdUpto(argv)  m == Len(argv)
<1>8. m \in Nat /\ q[0] \in S[0] /\ \A i \in 1 .. m : q[i - 1] \in S[i - 1] => q[i] \in S[i]
  <2>1. \A i \in 1 .. m : q[i - 1] \in Askings => q[i] \in Askings
    BY <1>3, <1>7
  <2> QED
    BY <1>1, <1>2, <1>7, <2>1
<1>9. \A i \in 0 .. m : q[i] \in S[i]
  <2> HIDE DEF q, m
  <2> QED
    BY <1>8, Along
<1>10. m \in 0 .. m /\ S[m] = Askings
  BY <1>1 DEF S
<1> QED
  BY <1>9, <1>10 DEF CdOptions, CdUpto

-----------------------------------------------------------------------------
(* A path behind another *)

LEMMA AppendBehind ==
    ASSUME NEW S, NEW p \in Seq(S), NEW r \in Seq(S), NEW z \in S
    PROVE  Append(p \o r, z) = p \o Append(r, z)
OBVIOUS

LEMMA PartsOfConcat ==
    ASSUME NEW t \in Texts, NEW u \in Texts
    PROVE  Parts((t \o Slash) \o u) = Parts(t) \o Parts(u)
<1> DEFINE s == t \o Slash  P == Parts(t)
           T == {n \in Nat : \A v \in Texts : Len(v) = n => Parts(s \o v) = P \o Parts(v)}
<1>1. "/" \in Chars
  BY CharsAssumption
<1>2. s = Append(t, "/")
  BY <1>1, AppendIsConcat DEF Texts, Slash
<1>3. s \in Texts /\ s # <<>> /\ s[Len(s)] = "/" /\ Len(s) \in Nat
  BY <1>1, <1>2, AppendProperties DEF Texts
<1>4. Parts(s) = P /\ P \in Seq(Words)
  BY <1>1, <1>2, PartsOfAppend, PartsType
<1> HIDE DEF s, P
<1>5. 0 \in T
  <2> SUFFICES ASSUME NEW v \in Texts, Len(v) = 0
               PROVE  Parts(s \o v) = P \o Parts(v)
    OBVIOUS
  <2>1. v = <<>> /\ s \o v = s
    BY <1>3, ConcatEmptySeq DEF Texts
  <2>2. P \o <<>> = P
    BY <1>4, ConcatEmptySeq
  <2> QED
    BY <1>4, <2>1, <2>2, PartsOfNone
<1>6. ASSUME NEW n \in Nat, n \in T
      PROVE  n + 1 \in T
  <2> SUFFICES ASSUME NEW v \in Texts, Len(v) = n + 1
               PROVE  Parts(s \o v) = P \o Parts(v)
    OBVIOUS
  <2>1. PICK x \in Texts, c \in Chars : v = Append(x, c)
    <3>1. v # <<>> /\ v \in Seq(Chars)
      BY DEF Texts
    <3> QED
      BY <3>1, SequenceEmptyOrAppend DEF Texts
  <2>2. Len(x) = n /\ Len(x) \in Nat /\ x \in Seq(Chars)
    BY <2>1 DEF Texts
  <2> DEFINE y == s \o x  Q == Parts(x)
  <2>3. Parts(y) = P \o Q /\ Q \in Seq(Words)
    BY <1>6, <2>2, PartsType
  <2>4. y \in Texts /\ s \o v = Append(y, c) /\ y # <<>> /\ Len(y) = Len(s) + Len(x)
    <3>1. s \in Seq(Chars) /\ Len(s) \in Nat \ {0}
      BY <1>3 DEF Texts
    <3>2. y \in Seq(Chars) /\ Len(y) = Len(s) + Len(x)
      BY <2>2, <3>1
    <3>3. s \o Append(x, c) = Append(y, c)
      BY <2>1, <2>2, <3>1, AppendBehind
    <3>4. y # <<>>
      BY <2>2, <3>1, <3>2
    <3> QED
      BY <2>1, <3>2, <3>3, <3>4 DEF Texts
  <2>5. y[Len(y)] = IF x = <<>> THEN "/" ELSE x[Len(x)]
    <3>1. CASE x = <<>>
      <4>1. y = s
        BY <1>3, <3>1, ConcatEmptySeq DEF Texts
      <4> QED
        BY <1>3, <3>1, <4>1
    <3>2. CASE x # <<>>
      <4>1. Len(x) \in 1 .. Len(x) /\ s \in Seq(Chars)
        BY <1>3, <2>2, <3>2 DEF Texts
      <4>2. y[Len(s) + Len(x)] = x[Len(x)]
        BY <1>3, <2>2, <4>1
      <4> QED
        BY <2>4, <3>2, <4>2
    <3> QED
      BY <3>1, <3>2
  <2> HIDE DEF y, Q
  <2>6. CASE c = "/"
    BY <2>1, <2>3, <2>4, <2>6, PartsOfAppend DEF Q
  <2>7. CASE c # "/" /\ (x = <<>> \/ x[Len(x)] = "/")
    <3>1. Parts(Append(y, c)) = Append(P \o Q, <<c>>)
      BY <2>3, <2>4, <2>5, <2>7, PartsOfAppend
    <3>2. Parts(v) = Append(Q, <<c>>)
      BY <2>1, <2>7, PartsOfAppend DEF Q
    <3>3. Append(P \o Q, <<c>>) = P \o Append(Q, <<c>>)
      <4>1. <<c>> \in Words
        BY <2>7, OneWord
      <4> QED
        BY <1>4, <2>3, <4>1
    <3> QED
      BY <2>4, <3>1, <3>2, <3>3
  <2>8. CASE c # "/" /\ x # <<>> /\ x[Len(x)] # "/"
    <3>1. Parts(Append(y, c)) = Append(Front(P \o Q), Append(Last(P \o Q), c))
      BY <2>3, <2>4, <2>5, <2>8, PartsOfAppend
    <3>2. Parts(v) = Append(Front(Q), Append(Last(Q), c))
      BY <2>1, <2>8, PartsOfAppend DEF Q
    <3>3. Q # <<>>
      BY <2>8, PartsType DEF Q
    <3>4. PICK R \in Seq(Words), w \in Words : Q = Append(R, w)
      BY <2>3, <3>3, SequenceEmptyOrAppend
    <3>5. Front(Q) = R /\ Last(Q) = w
      BY <3>4 DEF Front, Last
    <3>6. P \o Q = Append(P \o R, w) /\ P \o R \in Seq(Words)
      BY <1>4, <3>4
    <3>7. Front(P \o Q) = P \o R /\ Last(P \o Q) = w
      BY <3>6 DEF Front, Last
    <3>8. Append(w, c) \in Words
      BY <2>8, <3>4, LongerWord
    <3>9. Append(P \o R, Append(w, c)) = P \o Append(R, Append(w, c))
      <4> DEFINE z == Append(w, c)
      <4>1. z \in Words
        BY <3>8
      <4> HIDE DEF z
      <4>2. Append(P \o R, z) = P \o Append(R, z)
        <5>1. P \in Seq(Words) /\ R \in Seq(Words) /\ z \in Words
          BY <1>4, <3>4, <4>1
        <5> QED
          BY ONLY <5>1
      <4> QED
        BY <4>2 DEF z
    <3>10. Parts(Append(y, c)) = Append(P \o R, Append(w, c))
      BY <3>1, <3>7
    <3>11. Parts(v) = Append(R, Append(w, c))
      BY <3>2, <3>5
    <3> QED
      BY <2>4, <3>9, <3>10, <3>11
  <2> QED
    BY <2>6, <2>7, <2>8
<1> HIDE DEF T
<1>7. Len(u) \in T
  <2>1. Len(u) \in Nat
    BY DEF Texts
  <2> QED
    BY <1>5, <1>6, <2>1, Induction
<1> QED
  BY <1>7 DEF T, s, P

LEMMA WalkConcat ==
    ASSUME IsTree(tree), NEW d \in Reached, NEW ps \in Seq(Texts), NEW qs \in Seq(Texts)
    PROVE  Walk(d, ps \o qs) = Walk(Walk(d, ps), qs)
<1> DEFINE e == Walk(d, ps)
           T == {n \in Nat : \A rs \in Seq(Texts) : Len(rs) = n => Walk(d, ps \o rs) = Walk(e, rs)}
<1>1. e \in Reached
  <2>1. <<>> \in Texts
    BY DEF Texts
  <2> QED
    BY <2>1, WalkAppend
<1> HIDE DEF e
<1>2. 0 \in T
  <2> SUFFICES ASSUME NEW rs \in Seq(Texts), Len(rs) = 0
               PROVE  Walk(d, ps \o rs) = Walk(e, rs)
    OBVIOUS
  <2>1. rs = <<>> /\ ps \o rs = ps
    BY ConcatEmptySeq
  <2> QED
    BY <1>1, <2>1, WalkNone DEF e
<1>3. ASSUME NEW n \in Nat, n \in T
      PROVE  n + 1 \in T
  <2> SUFFICES ASSUME NEW rs \in Seq(Texts), Len(rs) = n + 1
               PROVE  Walk(d, ps \o rs) = Walk(e, rs)
    OBVIOUS
  <2>1. PICK xs \in Seq(Texts), w \in Texts : rs = Append(xs, w)
    <3>1. rs # <<>>
      OBVIOUS
    <3> QED
      BY <3>1, SequenceEmptyOrAppend
  <2>2. Len(xs) = n
    BY <2>1
  <2>3. Walk(d, ps \o xs) = Walk(e, xs)
    BY <1>3, <2>2
  <2>4. ps \o rs = Append(ps \o xs, w) /\ ps \o xs \in Seq(Texts)
    BY <2>1
  <2>5. Walk(d, Append(ps \o xs, w)) = StepTo(Walk(d, ps \o xs), w)
    BY <2>4, WalkAppend
  <2>6. Walk(e, Append(xs, w)) = StepTo(Walk(e, xs), w)
    BY <1>1, WalkAppend
  <2> QED
    BY <2>1, <2>3, <2>4, <2>5, <2>6
<1> HIDE DEF T
<1>4. Len(qs) \in T
  <2>1. Len(qs) \in Nat
    OBVIOUS
  <2> QED
    BY <1>2, <1>3, <2>1, Induction
<1> QED
  BY <1>4 DEF T, e

(* Without .. nothing is taken out but what leads nowhere. *)
LEMMA NormLeads ==
    ASSUME IsTree(tree), NEW d \in Reached, NEW ps \in Seq(Words), DotDot \notin ToSet(ps)
    PROVE  Walk(d, Norm(ps)) = Walk(d, ps)
<1> DEFINE T == {n \in Nat : \A rs \in Seq(Words) :
                    Len(rs) = n /\ (\A i \in 1 .. n : rs[i] # DotDot) =>
                        Walk(d, Norm(rs)) = Walk(d, rs)}
<1>1. 0 \in T
  <2> SUFFICES ASSUME NEW rs \in Seq(Words), Len(rs) = 0
               PROVE  Walk(d, Norm(rs)) = Walk(d, rs)
    OBVIOUS
  <2>1. rs = <<>>
    OBVIOUS
  <2> QED
    BY <2>1, NormNone
<1>2. ASSUME NEW n \in Nat, n \in T
      PROVE  n + 1 \in T
  <2> SUFFICES ASSUME NEW rs \in Seq(Words), Len(rs) = n + 1, \A i \in 1 .. n + 1 : rs[i] # DotDot
               PROVE  Walk(d, Norm(rs)) = Walk(d, rs)
    OBVIOUS
  <2>1. PICK xs \in Seq(Words), w \in Words : rs = Append(xs, w)
    <3>1. rs # <<>>
      OBVIOUS
    <3> QED
      BY <3>1, SequenceEmptyOrAppend
  <2>2. Len(xs) = n /\ rs[n + 1] = w /\ \A i \in 1 .. n : rs[i] = xs[i]
    BY <2>1
  <2>3. w # DotDot /\ \A i \in 1 .. n : xs[i] # DotDot
    BY <2>2
  <2>4. Walk(d, Norm(xs)) = Walk(d, xs)
    BY <1>2, <2>2, <2>3
  <2>5. /\ Norm(xs) \in Seq(Words) /\ Norm(xs) \in Seq(Texts) /\ xs \in Seq(Texts) /\ w \in Texts
    BY NormType, WordsAreTexts
  <2>6. Norm(rs) = Pushed(Norm(xs), w)
    BY <2>1, NormAppend
  <2>7. Walk(d, rs) = StepTo(Walk(d, xs), w)
    BY <2>1, <2>5, WalkAppend
  <2>8. CASE w = Dot
    <3>1. Norm(rs) = Norm(xs)
      BY <2>3, <2>6, <2>8 DEF Pushed
    <3>2. StepTo(Walk(d, xs), w) = Walk(d, xs)
      <4>1. CASE Walk(d, xs) = NoDir
        BY <4>1 DEF StepTo
      <4>2. CASE Walk(d, xs) # NoDir
        BY <2>3, <2>8, <4>2 DEF StepTo
      <4> QED
        BY <4>1, <4>2
    <3> QED
      BY <2>4, <2>7, <3>1, <3>2
  <2>9. CASE w # Dot
    <3>1. Norm(rs) = Append(Norm(xs), w)
      BY <2>3, <2>6, <2>9 DEF Pushed
    <3>2. Walk(d, Append(Norm(xs), w)) = StepTo(Walk(d, Norm(xs)), w)
      BY <2>5, WalkAppend
    <3> QED
      BY <2>4, <2>7, <3>1, <3>2
  <2> QED
    BY <2>8, <2>9
<1> HIDE DEF T
<1>3. Len(ps) \in T
  <2>1. Len(ps) \in Nat
    OBVIOUS
  <2> QED
    BY <1>1, <1>2, <2>1, Induction
<1>4. \A i \in 1 .. Len(ps) : ps[i] # DotDot
  BY DEF ToSet
<1> QED
  BY <1>3, <1>4 DEF T

-----------------------------------------------------------------------------
(* Where the shell is *)

(* What PWD and OLDPWD can be relied on for: TypeOK and PwdNamesCwd do not *)
(* say that a directory's path ends at the root, nor that PWD is absolute. *)
PwdHolds ==
    job.do # "fault" =>
        /\ seen.pwd => IsAbsolute(pwd) /\ Resolve(pwd) = cwd
        /\ seen.old # NoDir => IsAbsolute(oldpwd) /\ Resolve(oldpwd) = seen.old

PathsInv == TypeOK /\ Rooted /\ PwdHolds

(* Where a path leads depends on what the directories are, and that of an  *)
(* absolute one on nothing else.                                           *)
LEMMA SameWalk ==
    ASSUME NEW d, NEW ps, tree'.parent = tree.parent, tree'.name = tree.name,
           tree'.link = tree.link
    PROVE  Walk(d, ps)' = Walk(d, ps)
BY DEF Walk, StepTo, Entry, IsThere

LEMMA SameResolve ==
    ASSUME NEW t, tree'.parent = tree.parent, tree'.name = tree.name,
           tree'.link = tree.link, IsAbsolute(t) \/ cwd' = cwd
    PROVE  Resolve(t)' = Resolve(t)
<1>1. PICK d : d = IF IsAbsolute(t) THEN Root ELSE cwd
  OBVIOUS
<1>2. Resolve(t) = Walk(d, Parts(t)) /\ Resolve(t)' = Walk(d, Parts(t))'
  BY <1>1 DEF Resolve
<1>3. Walk(d, Parts(t))' = Walk(d, Parts(t))
  BY SameWalk
<1> QED
  BY <1>2, <1>3

LEMMA RootReached == Root \in Reached /\ \A d \in Dirs : d \in Reached <=> IsThere(d)
BY DirsAssumption DEF Reached, IsThere

(* An absolute path leads to a directory that is there, or nowhere. *)
LEMMA ResolveIs ==
    ASSUME IsTree(tree), NEW t \in Texts, IsAbsolute(t)
    PROVE  Resolve(t) \in Reached /\ Resolve(t) = Walk(Root, Parts(t))
<1>1. Resolve(t) = Walk(Root, Parts(t))
  BY DEF Resolve
<1>2. Parts(t) \in Seq(Texts) /\ <<>> \in Texts
  BY PartsType, WordsAreTexts DEF Texts
<1>3. Walk(Root, Parts(t)) \in Reached
  BY <1>2, RootReached, WalkAppend
<1> QED
  BY <1>1, <1>3

(* What getcwd may say *)
LEMMA GetCwdType ==
    ASSUME IsTree(tree), Rooted, cwd \in Dirs
    PROVE  GetCwd \subseteq Texts
<1>1. CASE IsThere(cwd)
  BY <1>1, GetCwdNames
<1>2. CASE ~IsThere(cwd)
  BY <1>2, TextsAssumption DEF GetCwd
<1> QED
  BY <1>1, <1>2

-----------------------------------------------------------------------------
(* What other processes do keeps the directories a tree. *)

LEMMA BelowIs ==
    ASSUME IsTree(tree), NEW d \in Dirs
    PROVE  /\ d \in Below(d) /\ Below(d) \subseteq Dirs
           /\ \A x \in Dirs : tree.parent[x] \in Below(d) => x \in Below(d)
BY DEF Below

LEMMA EntryNone ==
    ASSUME NEW d, NEW n, Entry(d, n) = NoDir
    PROVE  \A x \in Dirs : ~(tree.parent[x] = d /\ tree.name[x] = n)
<1> SUFFICES ASSUME NEW x \in Dirs, tree.parent[x] = d, tree.name[x] = n
             PROVE  FALSE
  OBVIOUS
<1>1. Entry(d, n) \in Dirs
  BY DEF Entry
<1> QED
  BY <1>1, DirsAssumption

LEMMA RenameKeepsTree ==
    ASSUME IsTree(tree), Rooted, NEW d \in Dirs, NEW e \in Dirs, NEW n \in Names, RenameDir(d, e, n)
    PROVE  IsTree(tree)' /\ Rooted'
<1>1. /\ d # Root /\ IsThere(e) /\ e \notin Below(d) /\ Entry(e, n) = NoDir
      /\ tree' = [tree EXCEPT !.parent[d] = e, !.name[d] = n]
  BY DEF RenameDir, DirsChanged, Changed
<1>2. /\ tree.parent \in [Dirs -> Dirs \cup {NoDir}] /\ tree.name \in [Dirs -> Texts]
      /\ tree.link \in [Dirs -> [Names -> Dirs \cup {NoDir}]]
      /\ tree.files \in [Dirs -> [Commands -> Kinds]]
      /\ tree.parent[Root] = Root /\ tree.name[Root] = <<>>
  BY DEF IsTree
<1>3. /\ tree'.parent = [tree.parent EXCEPT ![d] = e] /\ tree'.name = [tree.name EXCEPT ![d] = n]
      /\ tree'.link = tree.link /\ tree'.files = tree.files
      /\ tree' = [parent |-> tree'.parent, name |-> tree'.name, link |-> tree'.link,
                  files |-> tree'.files]
  BY <1>1 DEF IsTree
<1>4. /\ tree'.parent[d] = e /\ tree'.name[d] = n
      /\ \A x \in Dirs \ {d} : tree'.parent[x] = tree.parent[x] /\ tree'.name[x] = tree.name[x]
  BY <1>2, <1>3
<1>5. n \in Texts /\ n # <<>> /\ e # d /\ tree.parent[e] # NoDir
  <2>1. n \in Texts /\ n # <<>>
    BY NamesAssumption
  <2>2. e # d
    BY <1>1, BelowIs
  <2>3. tree.parent[e] # NoDir
    BY <1>1, <1>2, DirsAssumption DEF IsThere
  <2> QED
    BY <2>1, <2>2, <2>3
<1>6. \A x \in Dirs : ~(tree.parent[x] = e /\ tree.name[x] = n)
  BY <1>1, EntryNone
<1>7. ASSUME NEW x \in Dirs \ {Root}, tree'.parent[x] # NoDir
      PROVE  /\ tree'.parent[tree'.parent[x]] # NoDir
             /\ tree'.name[x] \in Names
             /\ \A y \in Dirs : tree'.parent[y] = tree'.parent[x] /\ tree'.name[y] = tree'.name[x]
                                   => y = x
  <2>1. CASE x = d
    BY <1>4, <1>5, <1>6, <2>1
  <2>2. CASE x # d
    <3>1. tree'.parent[x] = tree.parent[x] /\ tree'.name[x] = tree.name[x]
      BY <1>4, <2>2
    <3>2. /\ tree.parent[tree.parent[x]] # NoDir /\ tree.name[x] \in Names
          /\ \A y \in Dirs : tree.parent[y] = tree.parent[x] /\ tree.name[y] = tree.name[x]
                                => y = x
      BY <1>7, <3>1 DEF IsTree
    <3>3. tree.parent[x] \in Dirs
      BY <1>2, <1>7, <3>1
    <3>4. tree'.parent[tree.parent[x]] # NoDir
      BY <1>4, <3>2, <3>3, DirsAssumption
    <3>5. \A y \in Dirs : tree'.parent[y] = tree.parent[x] /\ tree'.name[y] = tree.name[x] => y = x
      BY <1>4, <1>6, <3>2
    <3> QED
      BY <3>1, <3>2, <3>4, <3>5
  <2> QED
    BY <2>1, <2>2
<1>8. IsTree(tree)'
  <2>1. tree' \in [parent : [Dirs -> Dirs \cup {NoDir}], name : [Dirs -> Texts],
                   link : [Dirs -> [Names -> Dirs \cup {NoDir}]],
                   files : [Dirs -> [Commands -> Kinds]]]
    <3>1. tree'.parent \in [Dirs -> Dirs \cup {NoDir}]
      BY <1>2, <1>3
    <3>2. tree'.name \in [Dirs -> Texts]
      BY <1>2, <1>3, <1>5
    <3> QED
      BY <1>2, <1>3, <3>1, <3>2
  <2>2. tree'.parent[Root] = Root /\ tree'.name[Root] = <<>>
    BY <1>1, <1>2, <1>4, DirsAssumption
  <2> QED
    BY <1>7, <2>1, <2>2 DEF IsTree
<1>9. Rooted'
  <2>1. PICK k \in Nat : \E h \in [Dirs -> 0 .. k] : Rises(tree, h)
    BY DEF Rooted
  <2>2. PICK h \in [Dirs -> 0 .. k] : Rises(tree, h)
    BY <2>1
  <2> DEFINE g == [x \in Dirs |-> IF x \in Below(d) THEN (h[x] + h[e]) + 1 ELSE h[x]]
  <2>3. \A x \in Dirs : h[x] \in Nat /\ h[x] <= k
    BY <2>2
  <2>4. g \in [Dirs -> 0 .. (k + k) + 1]
    BY <2>3
  <2>5. ASSUME NEW x \in Dirs \ {Root}, tree'.parent[x] # NoDir
        PROVE  g[tree'.parent[x]] < g[x]
    <3>1. CASE x = d
      <4>1. g[e] = h[e] /\ g[d] = (h[d] + h[e]) + 1
        BY <1>1, BelowIs
      <4> QED
        BY <1>4, <2>3, <3>1, <4>1
    <3>2. CASE x # d
      <4> DEFINE u == tree.parent[x]
      <4>1. u \in Dirs /\ tree'.parent[x] = u /\ h[u] < h[x]
        BY <1>2, <1>4, <2>2, <2>5, <3>2 DEF Rises
      <4>2. u \in Below(d) => x \in Below(d)
        BY BelowIs
      <4> HIDE DEF u
      <4> QED
        BY <2>3, <4>1, <4>2
    <3> QED
      BY <3>1, <3>2
  <2>6. Rises(tree', g)
    <3> HIDE DEF g
    <3> QED
      BY <2>5 DEF Rises
  <2>7. (k + k) + 1 \in Nat
    OBVIOUS
  <2> HIDE DEF g
  <2> QED
    BY <2>4, <2>6, <2>7 DEF Rooted, Rises
<1> QED
  BY <1>8, <1>9

LEMMA RemoveKeepsTree ==
    ASSUME IsTree(tree), Rooted, NEW d \in Dirs, RemoveDir(d)
    PROVE  IsTree(tree)' /\ Rooted'
<1>1. /\ d # Root /\ Below(d) = {d} /\ tree' = [tree EXCEPT !.parent[d] = NoDir]
  BY DEF RemoveDir, DirsChanged, Changed
<1>2. /\ tree.parent \in [Dirs -> Dirs \cup {NoDir}] /\ tree.name \in [Dirs -> Texts]
      /\ tree.link \in [Dirs -> [Names -> Dirs \cup {NoDir}]]
      /\ tree.files \in [Dirs -> [Commands -> Kinds]]
      /\ tree.parent[Root] = Root /\ tree.name[Root] = <<>>
  BY DEF IsTree
<1>3. /\ tree'.parent = [tree.parent EXCEPT ![d] = NoDir] /\ tree'.name = tree.name
      /\ tree'.link = tree.link /\ tree'.files = tree.files
      /\ tree' = [parent |-> tree'.parent, name |-> tree'.name, link |-> tree'.link,
                  files |-> tree'.files]
  BY <1>1 DEF IsTree
<1>4. /\ tree'.parent[d] = NoDir
      /\ \A x \in Dirs \ {d} : tree'.parent[x] = tree.parent[x] /\ tree.parent[x] # d
  BY <1>1, <1>2, <1>3, BelowIs
<1>5. ASSUME NEW x \in Dirs \ {Root}, tree'.parent[x] # NoDir
      PROVE  /\ tree'.parent[tree'.parent[x]] # NoDir
             /\ tree'.name[x] \in Names
             /\ \A y \in Dirs : tree'.parent[y] = tree'.parent[x] /\ tree'.name[y] = tree'.name[x]
                                   => y = x
  <2>1. x # d /\ tree'.parent[x] = tree.parent[x] /\ tree.parent[x] # d
    BY <1>4, <1>5
  <2>2. /\ tree.parent[tree.parent[x]] # NoDir /\ tree.name[x] \in Names
        /\ \A y \in Dirs : tree.parent[y] = tree.parent[x] /\ tree.name[y] = tree.name[x]
                              => y = x
    BY <1>5, <2>1 DEF IsTree
  <2>3. tree.parent[x] \in Dirs
    BY <1>2, <1>5, <2>1
  <2> QED
    BY <1>3, <1>4, <1>5, <2>1, <2>2, <2>3
<1>6. IsTree(tree)'
  <2>1. tree' \in [parent : [Dirs -> Dirs \cup {NoDir}], name : [Dirs -> Texts],
                   link : [Dirs -> [Names -> Dirs \cup {NoDir}]],
                   files : [Dirs -> [Commands -> Kinds]]]
    BY <1>2, <1>3
  <2>2. tree'.parent[Root] = Root /\ tree'.name[Root] = <<>>
    BY <1>1, <1>2, <1>3, <1>4, DirsAssumption
  <2> QED
    BY <1>5, <2>1, <2>2 DEF IsTree
<1>7. Rooted'
  <2>1. PICK k \in Nat : \E h \in [Dirs -> 0 .. k] : Rises(tree, h)
    BY DEF Rooted
  <2>2. PICK h \in [Dirs -> 0 .. k] : Rises(tree, h)
    BY <2>1
  <2>3. Rises(tree', h)
    BY <1>4, <2>2 DEF Rises
  <2> QED
    BY <2>3 DEF Rooted, Rises
<1> QED
  BY <1>6, <1>7

FileTables == [Dirs -> [Commands -> Kinds]]

LEMMA FileChangesAreTables ==
    ASSUME IsTree(tree), NEW c \in Commands, NEW d \in Dirs, NEW e \in Dirs, NEW kind \in Kinds
    PROVE  /\ [tree.files EXCEPT ![d][c] = kind] \in FileTables
           /\ [tree.files EXCEPT ![d][c] = "none", ![e][c] = tree.files[d][c]] \in FileTables
<1>1. tree.files \in FileTables
  BY DEF IsTree, FileTables
<1>2. ASSUME NEW f \in FileTables, NEW b \in Dirs, NEW k \in Kinds
      PROVE  [f EXCEPT ![b][c] = k] \in FileTables
  BY <1>2 DEF FileTables
<1>3. tree.files[d][c] \in Kinds /\ "none" \in Kinds
  BY <1>1 DEF FileTables, Kinds
<1>4. [tree.files EXCEPT ![d][c] = "none"] \in FileTables
  BY <1>1, <1>2, <1>3
<1>5. [[tree.files EXCEPT ![d][c] = "none"] EXCEPT ![e][c] = tree.files[d][c]] \in FileTables
  BY <1>2, <1>3, <1>4
<1> QED
  BY <1>1, <1>2, <1>5

LEMMA FilesKeepTree ==
    ASSUME IsTree(tree), Rooted, NEW files \in FileTables, FilesChanged(files)
    PROVE  /\ IsTree(tree)' /\ Rooted'
           /\ tree'.parent = tree.parent /\ tree'.name = tree.name /\ tree'.link = tree.link
<1>1. tree' = [tree EXCEPT !.files = files]
  BY DEF FilesChanged, Changed
<1>2. /\ tree.parent \in [Dirs -> Dirs \cup {NoDir}] /\ tree.name \in [Dirs -> Texts]
      /\ tree.link \in [Dirs -> [Names -> Dirs \cup {NoDir}]]
      /\ tree.files \in [Dirs -> [Commands -> Kinds]]
  BY DEF IsTree
<1>3. /\ tree'.parent = tree.parent /\ tree'.name = tree.name /\ tree'.link = tree.link
      /\ tree' = [parent |-> tree'.parent, name |-> tree'.name, link |-> tree'.link,
                  files |-> tree'.files]
      /\ tree'.files \in [Dirs -> [Commands -> Kinds]]
  BY <1>1, <1>2 DEF IsTree, FileTables
<1>4. IsTree(tree)'
  BY <1>2, <1>3 DEF IsTree
<1>5. Rooted'
  BY <1>3 DEF Rooted, Rises
<1> QED
  BY <1>3, <1>4, <1>5

-----------------------------------------------------------------------------
(* What cd does *)

(* Where it goes from a directory's text *)
Destination(base, t) == Normal(IF IsAbsolute(t) THEN t ELSE (base \o Slash) \o t)

LEMMA BehindIsText ==
    ASSUME NEW base \in Texts, NEW t \in Texts
    PROVE  (base \o Slash) \o t \in Texts
BY Characters DEF Texts

LEMMA CanonicalPathIs ==
    ASSUME NEW base \in Texts, NEW t \in Texts
    PROVE  /\ t = <<>> => CanonicalPath(base, t) = NotSet
           /\ t # <<>> => CanonicalPath(base, t) = Destination(base, t)
           /\ Destination(base, t) \in Texts /\ IsAbsolute(Destination(base, t))
           /\ Parts(Destination(base, t))
                 = Norm(IF IsAbsolute(t) THEN Parts(t) ELSE Parts(base) \o Parts(t))
<1>1. (base \o Slash) \o t \in Texts
  BY BehindIsText
<1>2. /\ Destination(base, t) \in Texts /\ IsAbsolute(Destination(base, t))
      /\ Parts(Destination(base, t))
            = Norm(IF IsAbsolute(t) THEN Parts(t) ELSE Parts(base) \o Parts(t))
  BY <1>1, NormalIs, PartsOfConcat DEF Destination
<1>3. t = <<>> => CanonicalPath(base, t) = NotSet
  BY DEF CanonicalPath, IsAbsolute
<1>4. t # <<>> => CanonicalPath(base, t) = Destination(base, t)
  <2>1. CASE t # <<>> /\ IsAbsolute(t)
    BY <2>1, CanonicalTextIsNormal DEF CanonicalPath, Destination
  <2>2. CASE t # <<>> /\ ~IsAbsolute(t)
    <3>1. CanonicalPath(base, t) = CanonicalText((base \o Slash) \o t)
      BY <2>2 DEF CanonicalPath
    <3> QED
      BY <1>1, <2>2, <3>1, CanonicalTextIsNormal DEF Destination
  <2> QED
    BY <2>1, <2>2
<1> QED
  BY <1>2, <1>3, <1>4

LEMMA AskedIs ==
    ASSUME TypeOK
    PROVE  /\ Asked \in Askings
           /\ Operand(Asked) \in Texts \cup {NotSet}
           /\ Target(Asked) \in Texts \cup {NotSet}
           /\ Operand(Asked) = NotSet => Target(Asked) = NotSet
           /\ Operand(Asked) # Dash => Target(Asked) = Operand(Asked)
           /\ Operand(Asked) = Dash => Target(Asked) = oldpwd
<1>1. job.argv \in Seq(Texts) /\ oldpwd \in Texts \cup {NotSet}
  BY DEF TypeOK
<1>2. Asked \in Askings
  BY <1>1, CdOptionsAre DEF Asked
<1>3. Operand(Asked) \in Texts \cup {NotSet}
  BY <1>2, TextsAssumption DEF Operand, Askings
<1>4. Dash # NotSet
  BY Characters, TextsAssumption
<1> QED
  BY <1>1, <1>2, <1>3, <1>4 DEF Target

(* builtin_cd, and what it finds *)
LEMMA CdDoes ==
    ASSUME TypeOK, Rooted, Cd
    PROVE  \/ Stays(Prompt) /\ (Asked.bad \/ Target(Asked) = NotSet)
           \/ Stays(Fault)
           \/ /\ Target(Asked) \in Texts /\ ~Asked.bad
              /\ \E base \in Bases(Asked) :
                    LET dest == Destination(base, Target(Asked))
                    IN  /\ base \in Texts
                        /\ \/ Stays(Prompt) /\ (Target(Asked) = <<>> \/ Resolve(dest) = NoDir)
                           \/ Moved(dest) /\ Target(Asked) # <<>> /\ Resolve(dest) \in Dirs
<1>1. CASE Asked.bad \/ Operand(Asked) = NotSet
  <2>1. ~(~Asked.bad /\ Operand(Asked) = Dash /\ oldpwd = NotSet)
    BY <1>1, Characters, TextsAssumption
  <2>2. Stays(Prompt)
    BY <1>1, <2>1 DEF Cd, Asked
  <2> QED
    BY <1>1, <2>2, AskedIs
<1>2. CASE ~Asked.bad /\ Operand(Asked) = Dash /\ oldpwd = NotSet
  <2>1. Operand(Asked) # NotSet
    BY <1>2, Characters, TextsAssumption
  <2> QED
    BY <1>2, <2>1 DEF Cd, Asked
<1>3. CASE /\ ~Asked.bad /\ Operand(Asked) # NotSet
           /\ ~(Operand(Asked) = Dash /\ oldpwd = NotSet)
  <2> DEFINE t == Target(Asked)
  <2>1. PICK base \in Bases(Asked) :
           LET dest == CanonicalPath(base, t)
           IN  IF Denied(dest) THEN Stays(Prompt) ELSE Moved(dest)
    BY <1>3 DEF Cd, Asked
  <2>2. t \in Texts
    BY <1>3, AskedIs
  <2>3. base \in Texts
    <3>1. IsTree(tree) /\ cwd \in Dirs /\ pwd \in Texts
      BY DEF TypeOK
    <3> QED
      BY <3>1, GetCwdType DEF Bases
  <2> DEFINE dest == Destination(base, t)
  <2>4. dest \in Texts /\ IsAbsolute(dest) /\ dest # NotSet
    BY <2>2, <2>3, CanonicalPathIs, TextsAssumption
  <2>5. Resolve(dest) \in Dirs \cup {NoDir}
    <3>1. IsTree(tree)
      BY DEF TypeOK
    <3>2. Resolve(dest) \in Reached
      <4> HIDE DEF dest
      <4> QED
        BY <2>4, <3>1, ResolveIs
    <3> QED
      BY <3>2 DEF Reached
  <2>6. CASE t = <<>>
    <3>1. CanonicalPath(base, t) = NotSet
      BY <2>2, <2>3, <2>6, CanonicalPathIs
    <3>2. Stays(Prompt)
      BY <2>1, <3>1 DEF Denied
    <3> QED
      BY <1>3, <2>2, <2>3, <2>6, <3>2
  <2>7. CASE t # <<>>
    <3>1. CanonicalPath(base, t) = dest
      BY <2>2, <2>3, <2>7, CanonicalPathIs
    <3>2. IF Denied(dest) THEN Stays(Prompt) ELSE Moved(dest)
      BY <2>1, <3>1
    <3>3. Denied(dest) <=> Resolve(dest) = NoDir
      BY <2>4 DEF Denied
    <3>4. \/ Stays(Prompt) /\ Resolve(dest) = NoDir
          \/ Moved(dest) /\ Resolve(dest) \in Dirs
      BY <2>5, <3>2, <3>3
    <3> QED
      BY <1>3, <2>2, <2>3, <2>7, <3>4
  <2> QED
    BY <2>6, <2>7
<1> QED
  BY <1>1, <1>2, <1>3

-----------------------------------------------------------------------------
(* PWD, OLDPWD and the working directory *)

LEMMA JobsAre ==
    /\ Prompt \in [do : {"prompt", "cd", "exec", "failed", "fault"}, argv : Seq(Texts),
                   cmd : SUBSET Commands]
    /\ Fault \in [do : {"prompt", "cd", "exec", "failed", "fault"}, argv : Seq(Texts),
                  cmd : SUBSET Commands]
    /\ Prompt.do = "prompt" /\ Fault.do = "fault" /\ Prompt # Fault
<1>1. Prompt = [do |-> "prompt", argv |-> <<>>, cmd |-> {}]
  BY DEF Prompt
<1>2. Fault = [do |-> "fault", argv |-> <<>>, cmd |-> {}]
  BY <1>1 DEF Fault
<1> QED
  BY <1>1, <1>2

LEMMA StaysKeepsPaths ==
    ASSUME PathsInv, NEW next, Stays(next), job.do # "fault",
           next \in [do : {"prompt", "cd", "exec", "failed", "fault"}, argv : Seq(Texts),
                     cmd : SUBSET Commands]
    PROVE  PathsInv'
<1>1. UNCHANGED <<tree, cwd, pwd, oldpwd, environ, remembered, changes, seen>> /\ job' = next
  BY DEF Stays
<1>2. TypeOK' /\ Rooted'
  BY <1>1 DEF PathsInv, TypeOK, IsTree, Rooted, Rises
<1>3. Resolve(pwd)' = Resolve(pwd) /\ Resolve(oldpwd)' = Resolve(oldpwd)
  BY <1>1 DEF Resolve, Walk, StepTo, Entry, IsThere
<1>4. PwdHolds'
  BY <1>1, <1>3 DEF PathsInv, PwdHolds
<1> QED
  BY <1>2, <1>4 DEF PathsInv

LEMMA MovedKeepsPaths ==
    ASSUME PathsInv, job.do # "fault", NEW dest \in Texts, IsAbsolute(dest),
           Resolve(dest) \in Dirs, Moved(dest)
    PROVE  PathsInv'
<1>1. UNCHANGED <<tree, environ, remembered, changes>> /\ cwd' = Resolve(dest)
  BY DEF Moved
<1>2. IsTree(tree)' /\ Rooted' /\ cwd' \in Dirs
  BY <1>1 DEF PathsInv, TypeOK, IsTree, Rooted, Rises
<1>3. CASE job' = Fault /\ UNCHANGED <<pwd, oldpwd, seen>>
  BY <1>1, <1>2, <1>3, JobsAre DEF PathsInv, TypeOK, PwdHolds
<1>4. CASE /\ pwd' = dest /\ oldpwd' = pwd /\ job' = Prompt
           /\ seen' = [pwd |-> TRUE, old |-> IF seen.pwd THEN cwd ELSE NoDir,
                       found |-> {c \in seen.found : IsAbsolute(remembered[c])}]
  <2>1. /\ seen'.pwd = TRUE /\ seen'.old = (IF seen.pwd THEN cwd ELSE NoDir)
        /\ seen' \in [pwd : BOOLEAN, old : Dirs \cup {NoDir}, found : SUBSET Commands]
    BY <1>4 DEF PathsInv, TypeOK
  <2>2. TypeOK'
    BY <1>1, <1>2, <1>4, <2>1, JobsAre DEF PathsInv, TypeOK
  <2>3. Resolve(dest)' = Resolve(dest)
    BY <1>1, SameResolve
  <2>4. seen.pwd => IsAbsolute(pwd) /\ Resolve(pwd) = cwd
    BY DEF PathsInv, PwdHolds
  <2>5. seen.pwd => Resolve(oldpwd)' = cwd
    <3> SUFFICES ASSUME seen.pwd PROVE Resolve(oldpwd)' = cwd
      OBVIOUS
    <3>1. PICK t : t = pwd
      OBVIOUS
    <3>2. Resolve(t)' = Resolve(t)
      BY <1>1, <2>4, <3>1, SameResolve
    <3>3. Resolve(oldpwd)' = Resolve(t)'
      BY <1>4, <3>1
    <3> QED
      BY <2>4, <3>1, <3>2, <3>3
  <2>6. Resolve(pwd)' = cwd'
    <3>1. Resolve(pwd)' = Resolve(dest)'
      BY <1>4
    <3> QED
      BY <1>1, <2>3, <3>1
  <2>7. PwdHolds'
    BY <1>4, <2>1, <2>4, <2>5, <2>6 DEF PwdHolds
  <2> QED
    BY <1>2, <2>2, <2>7 DEF PathsInv
<1> QED
  BY <1>3, <1>4 DEF Moved, NewOldpwd

LEMMA CdKeepsPaths ==
    ASSUME PathsInv, Cd
    PROVE  PathsInv'
<1>1. job.do = "cd" /\ TypeOK /\ Rooted
  BY DEF Cd, PathsInv
<1>2. CASE Stays(Prompt) \/ Stays(Fault)
  BY <1>1, <1>2, JobsAre, StaysKeepsPaths
<1>3. ASSUME NEW base \in Texts, Target(Asked) \in Texts, Moved(Destination(base, Target(Asked))),
             Resolve(Destination(base, Target(Asked))) \in Dirs
      PROVE  PathsInv'
  <2>1. PICK dest : dest = Destination(base, Target(Asked))
    OBVIOUS
  <2>2. dest \in Texts /\ IsAbsolute(dest)
    BY <1>3, <2>1, CanonicalPathIs
  <2> QED
    BY <1>1, <1>3, <2>1, <2>2, MovedKeepsPaths
<1> QED
  BY <1>1, <1>2, <1>3, CdDoes

LEMMA Environment ==
    ASSUME environ \in Environs
    PROVE  environ.PWD \in Texts \cup {NotSet} /\ environ.OLDPWD \in Texts \cup {NotSet}
BY EnvironsAssumption

LEMMA RestartKeepsPaths ==
    ASSUME PathsInv, Restart
    PROVE  PathsInv'
<1>1. job = Prompt /\ UNCHANGED <<tree, cwd, environ, job, changes>> /\ oldpwd' = environ.OLDPWD
      /\ pwd' \in (IF environ.PWD = NotSet THEN GetCwd ELSE {environ.PWD})
  BY DEF Restart
<1>2. IsTree(tree) /\ Rooted /\ cwd \in Dirs /\ environ \in Environs
  BY DEF PathsInv, TypeOK
<1>3. pwd' \in Texts /\ oldpwd' \in Texts \cup {NotSet}
  BY <1>1, <1>2, Environment, GetCwdType
<1>4. /\ seen'.pwd = (IF environ.PWD = NotSet THEN IsThere(cwd) ELSE seen.pwd /\ environ.PWD = pwd)
      /\ seen'.old = (IF environ.OLDPWD = oldpwd THEN seen.old ELSE NoDir)
      /\ seen'.found = {} /\ seen'.pwd \in BOOLEAN
      /\ seen' = [pwd |-> seen'.pwd, old |-> seen'.old, found |-> seen'.found]
  <2>1. seen.pwd \in BOOLEAN
    BY DEF PathsInv, TypeOK
  <2>2. IsThere(cwd) \in BOOLEAN
    BY DEF IsThere
  <2> QED
    BY <2>1, <2>2 DEF Restart
<1>5. TypeOK'
  <2>1. remembered' = NoCommands
    BY DEF Restart
  <2>2. IsTree(tree)'
    BY <1>1, <1>2 DEF IsTree
  <2>3. seen' \in [pwd : BOOLEAN, old : Dirs \cup {NoDir}, found : SUBSET Commands]
    <3>1. seen'.old \in Dirs \cup {NoDir}
      BY <1>4 DEF PathsInv, TypeOK
    <3> QED
      BY <1>4, <3>1
  <2> QED
    BY <1>1, <1>2, <1>3, <2>1, <2>2, <2>3 DEF PathsInv, TypeOK, NoCommands
<1>6. Rooted'
  BY <1>1, <1>2 DEF Rooted, Rises
<1>7. job.do # "fault"
  BY <1>1, JobsAre
<1>8. seen'.pwd => IsAbsolute(pwd') /\ Resolve(pwd)' = cwd'
  <2> SUFFICES ASSUME seen'.pwd
               PROVE  IsAbsolute(pwd') /\ Resolve(pwd)' = cwd'
    OBVIOUS
  <2>1. PICK t : t = pwd'
    OBVIOUS
  <2>2. IsAbsolute(t) /\ Resolve(t) = cwd
    <3>1. CASE environ.PWD = NotSet
      BY <1>1, <1>2, <1>4, <2>1, <3>1, GetCwdNames
    <3>2. CASE environ.PWD # NotSet
      BY <1>1, <1>4, <1>7, <2>1, <3>2 DEF PathsInv, PwdHolds
    <3> QED
      BY <3>1, <3>2
  <2>3. Resolve(t)' = Resolve(t)
    BY <1>1, SameResolve
  <2>4. Resolve(pwd)' = Resolve(t)'
    BY <2>1
  <2> QED
    BY <1>1, <2>1, <2>2, <2>3, <2>4
<1>9. seen'.old # NoDir => IsAbsolute(oldpwd') /\ Resolve(oldpwd)' = seen'.old
  <2> SUFFICES ASSUME seen'.old # NoDir
               PROVE  IsAbsolute(oldpwd') /\ Resolve(oldpwd)' = seen'.old
    OBVIOUS
  <2>1. PICK t : t = oldpwd'
    OBVIOUS
  <2>2. IsAbsolute(t) /\ Resolve(t) = seen.old /\ seen'.old = seen.old
    BY <1>1, <1>4, <1>7, <2>1 DEF PathsInv, PwdHolds
  <2>3. Resolve(t)' = Resolve(t)
    BY <1>1, SameResolve
  <2>4. Resolve(oldpwd)' = Resolve(t)'
    BY <2>1
  <2> QED
    BY <2>1, <2>2, <2>3, <2>4
<1> QED
  BY <1>5, <1>6, <1>8, <1>9 DEF PathsInv, PwdHolds

(* What leaves the directories, PWD and OLDPWD alone *)
LEMMA SamePlace ==
    ASSUME PathsInv, UNCHANGED <<cwd, pwd, oldpwd>>, IsTree(tree)', Rooted',
           tree'.parent = tree.parent, tree'.name = tree.name, tree'.link = tree.link,
           job.do # "fault", seen'.pwd = seen.pwd, seen'.old = seen.old
    PROVE  PwdHolds'
<1>1. PICK t : t = pwd
  OBVIOUS
<1>2. PICK u : u = oldpwd
  OBVIOUS
<1>3. Resolve(t)' = Resolve(t) /\ Resolve(u)' = Resolve(u)
  BY SameResolve
<1>4. Resolve(pwd)' = Resolve(t)' /\ Resolve(oldpwd)' = Resolve(u)'
  BY <1>1, <1>2
<1>5. Resolve(pwd)' = Resolve(pwd) /\ Resolve(oldpwd)' = Resolve(oldpwd)
  BY <1>1, <1>2, <1>3, <1>4
<1> QED
  BY <1>5 DEF PathsInv, PwdHolds

LEMMA SearchType ==
    ASSUME NEW c
    PROVE  SearchPath(c) \in Texts \cup {NotSet}
<1> DEFINE hits == {n \in DOMAIN Path : FileAt(InElement(n), c)}
<1>1. CASE hits = {}
  BY <1>1 DEF SearchPath
<1>2. CASE hits # {}
  <2>1. hits \subseteq Nat
    BY PathAssumption, LenProperties
  <2>2. Min(hits) \in hits
    <3> HIDE DEF hits
    <3> QED
      BY <1>2, <2>1, MinIsLeast
  <2>3. SearchPath(c) = InElement(Min(hits)) /\ Min(hits) \in DOMAIN Path
    BY <1>2, <2>2 DEF SearchPath
  <2>4. \A n \in DOMAIN Path : Path[n] \in Texts
    BY PathAssumption
  <2> HIDE DEF hits
  <2> QED
    BY <2>3, <2>4, Characters DEF InElement
<1> QED
  BY <1>1, <1>2

LEMMA LookUpKeepsPaths ==
    ASSUME PathsInv, NEW c \in Commands, LookUp(c)
    PROVE  PathsInv'
<1>1. job = Prompt /\ UNCHANGED <<tree, cwd, pwd, oldpwd, environ, changes>>
  BY DEF LookUp
<1>2. IsTree(tree)' /\ Rooted'
  BY <1>1 DEF PathsInv, TypeOK, IsTree, Rooted, Rises
<1>3. /\ DOMAIN remembered = Commands /\ \A d \in Commands : remembered[d] \in Texts \cup {NotSet}
      /\ seen \in [pwd : BOOLEAN, old : Dirs \cup {NoDir}, found : SUBSET Commands]
  BY DEF PathsInv, TypeOK
<1>4. /\ DOMAIN remembered' = Commands /\ \A d \in Commands : remembered'[d] \in Texts \cup {NotSet}
      /\ job' \in [do : {"prompt", "cd", "exec", "failed", "fault"}, argv : Seq(Texts),
                   cmd : SUBSET Commands]
      /\ seen' \in [pwd : BOOLEAN, old : Dirs \cup {NoDir}, found : SUBSET Commands]
      /\ seen'.pwd = seen.pwd /\ seen'.old = seen.old
  <2>1. CASE UNCHANGED <<job, remembered, seen>>
    BY <1>3, <2>1 DEF PathsInv, TypeOK
  <2>2. CASE /\ SearchPath(c) # NotSet
             /\ remembered' = [remembered EXCEPT ![c] = SearchPath(c)]
             /\ seen' = [seen EXCEPT !.found = @ \cup {c}]
             /\ job' = [do |-> "exec", argv |-> <<SearchPath(c)>>, cmd |-> {c}]
    <3>1. SearchPath(c) \in Texts
      BY <2>2, SearchType
    <3>2. <<SearchPath(c)>> \in Seq(Texts)
      BY <3>1
    <3>3. /\ DOMAIN remembered' = Commands
          /\ \A d \in Commands : remembered'[d] \in Texts \cup {NotSet}
      BY <1>3, <2>2, <3>1
    <3>4. job' \in [do : {"prompt", "cd", "exec", "failed", "fault"}, argv : Seq(Texts),
                    cmd : SUBSET Commands]
      BY <2>2, <3>2
    <3>5. /\ seen' \in [pwd : BOOLEAN, old : Dirs \cup {NoDir}, found : SUBSET Commands]
          /\ seen'.pwd = seen.pwd /\ seen'.old = seen.old
      BY <1>3, <2>2
    <3> QED
      BY <3>3, <3>4, <3>5
  <2>3. CASE /\ remembered[c] # NotSet
             /\ job' = [do |-> "exec", argv |-> <<remembered[c]>>, cmd |-> {c}]
             /\ UNCHANGED <<remembered, seen>>
    <3>1. remembered[c] \in Texts
      BY <1>3, <2>3
    <3>2. <<remembered[c]>> \in Seq(Texts)
      BY <3>1
    <3> QED
      BY <1>3, <2>3, <3>2
  <2> QED
    BY <2>1, <2>2, <2>3 DEF LookUp
<1>5. PwdHolds'
  BY <1>1, <1>2, <1>4, JobsAre, SamePlace
<1>6. TypeOK'
  BY <1>1, <1>2, <1>4 DEF PathsInv, TypeOK
<1> QED
  BY <1>2, <1>5, <1>6 DEF PathsInv

LEMMA HashKeepsPaths ==
    ASSUME PathsInv, NEW options \in SUBSET {"d", "p", "r", "t"}, NEW t \in PinTexts,
           NEW names \in SUBSET Commands, Hash(options, t, names)
    PROVE  PathsInv'
<1>1. job = Prompt /\ UNCHANGED <<tree, cwd, pwd, oldpwd, environ, job, changes>>
  BY DEF Hash
<1>2. IsTree(tree)' /\ Rooted'
  BY ZenonT(30), <1>1 DEF PathsInv, TypeOK, IsTree, Rooted, Rises
<1>3. /\ DOMAIN remembered = Commands /\ \A d \in Commands : remembered[d] \in Texts \cup {NotSet}
      /\ seen \in [pwd : BOOLEAN, old : Dirs \cup {NoDir}, found : SUBSET Commands]
      /\ t \in Texts
  BY TextsAssumption DEF PathsInv, TypeOK
<1>4. /\ DOMAIN remembered' = Commands /\ \A d \in Commands : remembered'[d] \in Texts \cup {NotSet}
      /\ seen' \in [pwd : BOOLEAN, old : Dirs \cup {NoDir}, found : SUBSET Commands]
      /\ seen'.pwd = seen.pwd /\ seen'.old = seen.old
  <2>1. ASSUME NEW m \in SUBSET Commands, NEW u \in Texts \cup {NotSet}, Sets(m, u)
        PROVE  <1>4!1 /\ <1>4!2 /\ <1>4!3
    BY <1>3, <2>1 DEF Sets
  <2>2. CASE SearchesAll(names)
    BY <1>3, <2>2, SearchType DEF SearchesAll
  <2>3. CASE UNCHANGED <<remembered, seen>>
    BY <1>3, <2>3
  <2>4. \/ "r" \in options \/ "p" \in options
        \/ options \cap {"r", "p", "d"} = {"d"} \/ options = {"t"} \/ options = {}
    <3>1. CASE "d" \in options
      BY <3>1
    <3>2. CASE "d" \notin options
      BY <3>2
    <3> QED
      BY <3>1, <3>2
  <2>5. \/ Sets(Commands, NotSet) \/ Sets(names, t) \/ Sets(names, NotSet)
        \/ UNCHANGED <<remembered, seen>> \/ SearchesAll(names)
    BY <2>4 DEF Hash
  <2> QED
    BY <1>3, <2>1, <2>2, <2>3, <2>5
<1>5. PwdHolds'
  BY <1>1, <1>2, <1>4, JobsAre, SamePlace
<1>6. TypeOK'
  BY <1>1, <1>2, <1>4 DEF PathsInv, TypeOK
<1> QED
  BY <1>2, <1>5, <1>6 DEF PathsInv

LEMMA ExecKeepsPaths ==
    ASSUME PathsInv, Exec \/ ExecFailed
    PROVE  PathsInv'
<1>1. job \in [do : {"prompt", "cd", "exec", "failed", "fault"}, argv : Seq(Texts),
               cmd : SUBSET Commands]
  BY DEF PathsInv, TypeOK
<1>2. [job EXCEPT !.do = "failed"] \in
        [do : {"prompt", "cd", "exec", "failed", "fault"}, argv : Seq(Texts), cmd : SUBSET Commands]
  BY <1>1
<1>3. job.do # "fault" /\ (Stays(Prompt) \/ Stays([job EXCEPT !.do = "failed"]))
  BY DEF Exec, ExecFailed
<1> QED
  BY <1>2, <1>3, JobsAre, StaysKeepsPaths

LEMMA CallKeepsPaths ==
    ASSUME PathsInv, NEW argv \in CdArgvs, Call(argv)
    PROVE  PathsInv'
<1> DEFINE next == [Prompt EXCEPT !.do = "cd", !.argv = argv]
<1>1. argv \in Seq(Texts)
  BY TextsAssumption
<1>2. next \in [do : {"prompt", "cd", "exec", "failed", "fault"}, argv : Seq(Texts),
                cmd : SUBSET Commands]
  BY <1>1 DEF Prompt
<1>3. Stays(next) /\ job.do # "fault"
  BY JobsAre DEF Call
<1> HIDE DEF next
<1> QED
  BY <1>2, <1>3, StaysKeepsPaths

LEMMA ChangedKeepsTypes ==
    ASSUME PathsInv, NEW t, Changed(t), IsTree(tree)',
           seen' \in [pwd : BOOLEAN, old : Dirs \cup {NoDir}, found : SUBSET Commands]
    PROVE  TypeOK'
<1>1. changes' \in 0 .. MaxChanges
  BY ChangesAssumption DEF PathsInv, TypeOK, Changed
<1> QED
  BY <1>1 DEF PathsInv, TypeOK, Changed

LEMMA DirsChangedKeepsPaths ==
    ASSUME PathsInv, NEW t, DirsChanged(t), IsTree(tree)', Rooted'
    PROVE  PathsInv'
<1>1. Changed(t) /\ seen' = [pwd |-> FALSE, old |-> NoDir, found |-> {}]
  BY DEF DirsChanged
<1>2. seen' \in [pwd : BOOLEAN, old : Dirs \cup {NoDir}, found : SUBSET Commands]
  BY <1>1
<1>3. TypeOK'
  BY <1>1, <1>2, ChangedKeepsTypes
<1>4. PwdHolds'
  BY <1>1 DEF PwdHolds
<1> QED
  BY <1>3, <1>4 DEF PathsInv

LEMMA FilesKeepPaths ==
    ASSUME PathsInv, NEW files \in FileTables, FilesChanged(files)
    PROVE  PathsInv'
<1>1. /\ IsTree(tree)' /\ Rooted' /\ tree'.parent = tree.parent /\ tree'.name = tree.name
      /\ tree'.link = tree.link
  <2>1. IsTree(tree) /\ Rooted
    BY DEF PathsInv, TypeOK
  <2> QED
    BY <2>1, FilesKeepTree
<1>2. /\ seen' \in [pwd : BOOLEAN, old : Dirs \cup {NoDir}, found : SUBSET Commands]
      /\ seen'.pwd = seen.pwd /\ seen'.old = seen.old
  <2>1. seen' = [seen EXCEPT !.found = {}]
    BY DEF FilesChanged
  <2>2. seen \in [pwd : BOOLEAN, old : Dirs \cup {NoDir}, found : SUBSET Commands]
    BY DEF PathsInv, TypeOK
  <2> QED
    BY <2>1, <2>2
<1>3. PICK t : Changed(t)
  BY DEF FilesChanged
<1>4. TypeOK'
  BY <1>1, <1>2, <1>3, ChangedKeepsTypes
<1>5. UNCHANGED <<cwd, pwd, oldpwd>> /\ job.do # "fault"
  BY <1>3 DEF Changed
<1>6. PwdHolds'
  BY <1>1, <1>2, <1>5, SamePlace
<1> QED
  BY <1>1, <1>4, <1>6 DEF PathsInv

LEMMA PathsStep ==
    ASSUME PathsInv, [Next]_vars
    PROVE  PathsInv'
<1>1. CASE UNCHANGED vars
  <2>1. UNCHANGED <<tree, cwd, pwd, oldpwd, environ, remembered, job, changes, seen>>
    BY <1>1 DEF vars
  <2>2. TypeOK' /\ Rooted'
    BY <2>1 DEF PathsInv, TypeOK, IsTree, Rooted, Rises
  <2>3. Resolve(pwd)' = Resolve(pwd) /\ Resolve(oldpwd)' = Resolve(oldpwd)
    BY <2>1 DEF Resolve, Walk, StepTo, Entry, IsThere
  <2>4. PwdHolds'
    BY <2>1, <2>3 DEF PathsInv, PwdHolds
  <2> QED
    BY <2>2, <2>4 DEF PathsInv
<1>2. ASSUME NEW d \in Dirs, NEW e \in Dirs, NEW n \in Names, RenameDir(d, e, n)
      PROVE  PathsInv'
  <2>1. IsTree(tree) /\ Rooted
    BY DEF PathsInv, TypeOK
  <2>2. IsTree(tree)' /\ Rooted'
    BY <1>2, <2>1, RenameKeepsTree
  <2> QED
    BY <1>2, <2>2, DirsChangedKeepsPaths DEF RenameDir
<1>3. ASSUME NEW d \in Dirs, RemoveDir(d)
      PROVE  PathsInv'
  <2>1. IsTree(tree) /\ Rooted
    BY DEF PathsInv, TypeOK
  <2>2. IsTree(tree)' /\ Rooted'
    BY <1>3, <2>1, RemoveKeepsTree
  <2> QED
    BY <1>3, <2>2, DirsChangedKeepsPaths DEF RemoveDir
<1>4. IsTree(tree) /\ "none" \in Kinds
  BY DEF PathsInv, TypeOK, Kinds
<1>5. ASSUME NEW c \in Commands, NEW d \in Dirs, NEW e \in Dirs, MoveFile(c, d, e)
      PROVE  PathsInv'
  BY <1>4, <1>5, FileChangesAreTables, FilesKeepPaths DEF MoveFile
<1>6. ASSUME NEW c \in Commands, NEW d \in Dirs, NEW kind \in Kinds, ChangeFile(c, d, kind)
      PROVE  PathsInv'
  BY <1>4, <1>6, FileChangesAreTables, FilesKeepPaths DEF ChangeFile
<1>7. CASE Next
  BY <1>2, <1>3, <1>5, <1>6, <1>7, RestartKeepsPaths, CallKeepsPaths, CdKeepsPaths,
     LookUpKeepsPaths, ExecKeepsPaths, HashKeepsPaths DEF Next
<1> QED
  BY <1>1, <1>7

LEMMA PathsInit ==
    ASSUME Init
    PROVE  PathsInv
<1>1. /\ tree \in Trees /\ cwd \in Dirs /\ IsThere(cwd) /\ environ \in Environs /\ changes = 0
      /\ oldpwd = environ.OLDPWD /\ remembered = NoCommands /\ job = Prompt
      /\ pwd \in IF environ.PWD = NotSet THEN GetCwd ELSE {environ.PWD}
      /\ seen = [pwd |-> IsAbsolute(pwd) /\ Resolve(pwd) = cwd, old |-> NoDir, found |-> {}]
  BY DEF Init, Starts
<1>2. IsTree(tree) /\ Rooted
  <2>1. PICK h \in [Dirs -> 0 .. Cardinality(Dirs)] : Rises(tree, h)
    BY <1>1, TreesAssumption
  <2>2. Cardinality(Dirs) \in Nat
    BY DirsAssumption, FS_CardinalityType
  <2> QED
    BY <1>1, <2>1, <2>2, TreesAssumption DEF Rooted
<1>3. pwd \in Texts /\ oldpwd \in Texts \cup {NotSet}
  BY <1>1, <1>2, Environment, GetCwdType
<1>4. seen \in [pwd : BOOLEAN, old : Dirs \cup {NoDir}, found : SUBSET Commands]
  <2>1. (IsAbsolute(pwd) /\ Resolve(pwd) = cwd) \in BOOLEAN
    OBVIOUS
  <2> QED
    BY <1>1, <2>1
<1>5. TypeOK
  BY <1>1, <1>2, <1>3, <1>4, JobsAre, ChangesAssumption DEF TypeOK, NoCommands
<1>6. PwdHolds
  BY <1>1 DEF PwdHolds
<1> QED
  BY <1>2, <1>5, <1>6 DEF PathsInv

LEMMA PathsAlways == Spec => []PathsInv
BY PathsInit, PathsStep, PTL DEF Spec

LEMMA PathsGive ==
    ASSUME PathsInv
    PROVE  PwdNamesCwd
<1>1. TypeOK /\ Rooted /\ PwdHolds
  BY DEF PathsInv
<1> SUFFICES ASSUME job.do # "fault" PROVE PwdNamesCwd
  BY DEF PwdNamesCwd
<1>2. ASSUME seen.pwd, NEW physical \in BOOLEAN, NEW t \in PwdShows(physical)
      PROVE  IsAbsolute(t) /\ {Dot, DotDot} \cap ToSet(Parts(t)) = {} /\ Resolve(t) = cwd
  <2>1. IsAbsolute(pwd) /\ Resolve(pwd) = cwd
    BY <1>1, <1>2 DEF PwdHolds
  <2>2. CASE physical \/ {Dot, DotDot} \cap ToSet(Parts(pwd)) # {}
    <3>1. t \in GetCwd
      BY <1>2, <2>2 DEF PwdShows
    <3>2. IsTree(tree) /\ pwd \in Texts /\ cwd \in Dirs
      BY <1>1 DEF TypeOK
    <3>3. IsThere(cwd)
      BY <2>1, <3>2, ResolveIs, RootReached
    <3> QED
      BY <1>1, <3>1, <3>2, <3>3, GetCwdNames
  <2>3. CASE ~physical /\ {Dot, DotDot} \cap ToSet(Parts(pwd)) = {}
    <3>1. t = pwd
      BY <1>2, <2>1, <2>3 DEF PwdShows
    <3> QED
      BY <2>1, <2>3, <3>1
  <2> QED
    BY <2>2, <2>3
<1> QED
  BY <1>1, <1>2 DEF PwdHolds, PwdNamesCwd

(* Texts, directories and commands are what they are meant to be. *)
THEOREM PathsTypes == Spec => []TypeOK
BY PathsAlways, PTL DEF PathsInv

(* While nothing was moved and no older PWD was inherited, PWD leads to    *)
(* the working directory, OLDPWD to the one before, and pwd shows a path   *)
(* without . and .. to it.                                                 *)
THEOREM PwdIsWhereTheShellIs == Spec => []PwdNamesCwd
BY PathsAlways, PathsGive, PTL

-----------------------------------------------------------------------------
(* Where cd goes *)

(* Only cd ends cd. *)
LEMMA CdIsCd ==
    ASSUME [Next]_vars, job.do = "cd", job' = Prompt
    PROVE  Cd
<1>1. job # Prompt /\ job' # job
  BY JobsAre
<1>2. CASE UNCHANGED vars
  BY <1>1, <1>2 DEF vars
<1>3. ASSUME NEW t, Changed(t)
      PROVE  FALSE
  BY <1>1, <1>3 DEF Changed
<1>4. CASE Next
  BY <1>1, <1>3, <1>4 DEF Next, Restart, Call, LookUp, Exec, ExecFailed, Hash, RenameDir,
                          RemoveDir, MoveFile, ChangeFile, FilesChanged,
                          DirsChanged
<1> QED
  BY <1>2, <1>4

LEMMA LexicalStep ==
    ASSUME PathsInv, [Next]_vars
    PROVE  LexicalCd
<1> SUFFICES ASSUME job.do = "cd", job' = Prompt, ~Asked.bad, ~Asked.physical
             PROVE  LexicalCd
  BY DEF LexicalCd
<1>1. Cd /\ TypeOK /\ Rooted
  BY CdIsCd DEF PathsInv
<1>2. Bases(Asked) = {pwd} /\ Prompt # Fault
  BY JobsAre DEF Bases
<1> DEFINE t == Target(Asked)  dest == Destination(pwd, t)
<1>3. dest = Normal(IF IsAbsolute(t) THEN t ELSE pwd \o Slash \o t)
  BY DEF Destination
<1>4. CASE Stays(Prompt) /\ t = NotSet
  BY <1>4 DEF Stays, LexicalCd
<1>5. CASE /\ t \in Texts
           /\ Stays(Prompt) /\ (t = <<>> \/ Resolve(dest) = NoDir)
  <2>1. UNCHANGED <<cwd, pwd, oldpwd>>
    BY <1>5 DEF Stays
  <2> HIDE DEF t
  <2> QED
    BY <1>3, <1>5, <2>1 DEF LexicalCd, t
<1>6. CASE t \in Texts /\ Moved(dest) /\ t # <<>> /\ Resolve(dest) \in Dirs
  <2>1. t \notin {NotSet, <<>>} /\ Resolve(dest) # NoDir
    BY <1>6, TextsAssumption, DirsAssumption
  <2>2. pwd' = dest /\ cwd' = Resolve(dest)
    BY <1>2, <1>6 DEF Moved
  <2> QED
    BY <1>3, <2>1, <2>2 DEF LexicalCd
<1>7. \/ Stays(Prompt) /\ t = NotSet
      \/ /\ t \in Texts
         /\ \/ Stays(Prompt) /\ (t = <<>> \/ Resolve(dest) = NoDir)
            \/ Moved(dest) /\ t # <<>> /\ Resolve(dest) \in Dirs
  <2>1. ~Stays(Fault)
    BY <1>2 DEF Stays
  <2> QED
    BY <1>1, <1>2, <2>1, CdDoes
<1> QED
  BY <1>4, <1>5, <1>6, <1>7

(* cd without -P goes by the texts: to PWD and the argument without . and  *)
(* .., which canonicalize_path takes out character by character, exactly   *)
(* when that is a directory.                                               *)
THEOREM CdGoesByTheText == Spec => CdIsLexical
BY PathsAlways, LexicalStep, PTL DEF Spec, CdIsLexical

(* What cd starts from leads to the working directory and has no .. in it, *)
(* unless PWD has.                                                         *)
LEMMA BasesLead ==
    ASSUME PathsInv, job.do # "fault", seen.pwd, NEW base \in Bases(Asked),
           DotDot \notin ToSet(Parts(pwd))
    PROVE  /\ base \in Texts /\ Walk(Root, Parts(base)) = cwd
           /\ DotDot \notin ToSet(Parts(base))
<1>1. /\ IsTree(tree) /\ Rooted /\ cwd \in Dirs /\ pwd \in Texts
      /\ IsAbsolute(pwd) /\ Resolve(pwd) = cwd
  BY DEF PathsInv, TypeOK, PwdHolds
<1>2. IsThere(cwd)
  BY <1>1, ResolveIs, RootReached
<1>3. CASE base \in GetCwd
  BY <1>1, <1>2, <1>3, GetCwdNames, ResolveIs
<1>4. CASE base = pwd
  BY <1>1, <1>4, ResolveIs
<1> QED
  BY <1>3, <1>4 DEF Bases

LEMMA DestinationLeads ==
    ASSUME PathsInv, job.do # "fault", seen.pwd, NEW base \in Bases(Asked), NEW t \in Texts,
           ~IsAbsolute(t), DotDot \notin ToSet(Parts(t)) \cup ToSet(Parts(pwd))
    PROVE  Resolve(Destination(base, t)) = Walk(cwd, Parts(t))
<1>1. IsTree(tree)
  BY DEF PathsInv, TypeOK
<1>2. base \in Texts /\ Walk(Root, Parts(base)) = cwd /\ DotDot \notin ToSet(Parts(base))
  BY BasesLead
<1>3. Parts(base) \in Seq(Words) /\ Parts(t) \in Seq(Words)
  BY <1>2, PartsType
<1> DEFINE ps == Parts(base) \o Parts(t)
<1>4. ps \in Seq(Words)
  BY <1>3, ConcatProperties
<1>5. DotDot \notin ToSet(ps)
  <2>1. ToSet(ps) \subseteq ToSet(Parts(base)) \cup ToSet(Parts(t))
    BY <1>3, ConcatProperties DEF ToSet
  <2> QED
    BY <1>2, <2>1
<1>6. /\ Destination(base, t) \in Texts /\ IsAbsolute(Destination(base, t))
      /\ Parts(Destination(base, t)) = Norm(ps)
  BY <1>2, CanonicalPathIs
<1>7. Resolve(Destination(base, t)) = Walk(Root, Norm(ps))
  BY <1>1, <1>6, ResolveIs
<1>8. Walk(Root, Norm(ps)) = Walk(Root, ps)
  <2> HIDE DEF ps
  <2> QED
    BY <1>1, <1>4, <1>5, RootReached, NormLeads
<1>9. Walk(Root, ps) = Walk(Walk(Root, Parts(base)), Parts(t))
  BY <1>1, <1>3, RootReached, WordsAreTexts, WalkConcat
<1> QED
  BY <1>2, <1>7, <1>8, <1>9

LEMMA OldpwdLeads ==
    ASSUME PathsInv, job.do # "fault", seen.old # NoDir, oldpwd \in Texts, NEW base \in Texts,
           DotDot \notin ToSet(Parts(oldpwd))
    PROVE  Resolve(Destination(base, oldpwd)) = seen.old
<1>1. IsTree(tree) /\ IsAbsolute(oldpwd) /\ Resolve(oldpwd) = seen.old
  BY DEF PathsInv, TypeOK, PwdHolds
<1> DEFINE dest == Destination(base, oldpwd)
<1>2. dest \in Texts /\ IsAbsolute(dest) /\ Parts(dest) = Norm(Parts(oldpwd))
  BY <1>1, CanonicalPathIs
<1> HIDE DEF dest
<1>3. Resolve(dest) = Walk(Root, Norm(Parts(oldpwd)))
  BY <1>1, <1>2, ResolveIs
<1>4. Parts(oldpwd) \in Seq(Words)
  BY PartsType
<1>5. Walk(Root, Norm(Parts(oldpwd))) = Walk(Root, Parts(oldpwd))
  BY <1>1, <1>4, RootReached, NormLeads
<1>6. Resolve(oldpwd) = Walk(Root, Parts(oldpwd))
  BY <1>1, ResolveIs
<1> QED
  BY <1>1, <1>3, <1>5, <1>6 DEF dest

LEMMA GuidedStep ==
    ASSUME PathsInv, [Next]_vars
    PROVE  GuidedCd
<1> SUFFICES ASSUME job.do = "cd", job' = Prompt, ~Asked.bad, seen.pwd = TRUE
             PROVE  GuidedCd
  BY DEF GuidedCd, PathsInv, TypeOK
<1>1. Cd /\ TypeOK /\ Rooted /\ job.do # "fault" /\ Prompt # Fault
  BY CdIsCd, JobsAre DEF PathsInv
<1> DEFINE t == Target(Asked)
<1>2. ASSUME t \notin {NotSet, <<>>}, ~IsAbsolute(t),
             DotDot \notin ToSet(Parts(t)) \cup ToSet(Parts(pwd))
      PROVE  cwd' = IF Walk(cwd, Parts(t)) = NoDir THEN cwd ELSE Walk(cwd, Parts(t))
  <2>1. t \in Texts
    BY <1>1, <1>2, AskedIs
  <2>2. PICK base \in Bases(Asked) :
           \/ Stays(Prompt) /\ (t = <<>> \/ Resolve(Destination(base, t)) = NoDir)
           \/ Moved(Destination(base, t)) /\ Resolve(Destination(base, t)) \in Dirs
    <3>1. ~Stays(Fault)
      BY <1>1 DEF Stays
    <3> QED
      BY <1>1, <1>2, <3>1, CdDoes
  <2>3. Resolve(Destination(base, t)) = Walk(cwd, Parts(t))
    <3> HIDE DEF t
    <3> QED
      BY <1>1, <1>2, <2>1, DestinationLeads
  <2>4. CASE Stays(Prompt) /\ (t = <<>> \/ Resolve(Destination(base, t)) = NoDir)
    BY <1>2, <2>3, <2>4 DEF Stays
  <2>5. CASE Moved(Destination(base, t)) /\ Resolve(Destination(base, t)) \in Dirs
    BY <2>3, <2>5, DirsAssumption DEF Moved
  <2> QED
    BY <2>2, <2>4, <2>5
<1>3. ASSUME Asked.path = Dash, seen.old # NoDir, DotDot \notin ToSet(Parts(oldpwd))
      PROVE  cwd' = seen.old
  <2>1. Operand(Asked) = Dash /\ t = oldpwd
    <3>1. Dash # NotSet
      BY Characters, TextsAssumption
    <3> QED
      BY <1>1, <1>3, <3>1, AskedIs DEF Operand
  <2>2. oldpwd # NotSet
    <3> SUFFICES ASSUME oldpwd = NotSet PROVE FALSE
      OBVIOUS
    <3>1. Operand(Asked) # NotSet
      BY <2>1, Characters, TextsAssumption
    <3>2. Stays(Fault)
      BY <1>1, <2>1, <3>1 DEF Cd, Asked
    <3> QED
      BY <1>1, <3>2 DEF Stays
  <2>3. oldpwd \in Texts /\ IsAbsolute(oldpwd)
    BY <1>1, <1>3, <2>2 DEF PathsInv, TypeOK, PwdHolds
  <2>4. t # <<>> /\ t # NotSet
    BY <2>1, <2>2, <2>3 DEF IsAbsolute
  <2>5. PICK base \in Texts :
           \/ Stays(Prompt) /\ Resolve(Destination(base, oldpwd)) = NoDir
           \/ Moved(Destination(base, oldpwd)) /\ Resolve(Destination(base, oldpwd)) \in Dirs
    <3>1. ~Stays(Fault)
      BY <1>1 DEF Stays
    <3> QED
      BY <1>1, <2>1, <2>4, <3>1, CdDoes
  <2>6. Resolve(Destination(base, oldpwd)) = seen.old
    BY <1>1, <1>3, <2>3, OldpwdLeads
  <2> QED
    BY <1>3, <2>5, <2>6 DEF Moved
<1> QED
  BY <1>2, <1>3 DEF GuidedCd

(* While PWD can be relied on, cd without .. goes where the system would,  *)
(* through links or not, and cd - goes back.                               *)
THEOREM CdGoesWhereTheSystemWould == Spec => CdGoesThere
BY PathsAlways, GuidedStep, PTL DEF Spec, CdGoesThere
=============================================================================
