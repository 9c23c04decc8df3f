------------------------------ MODULE PshPaths -----------------------------
(***************************************************************************)
(* Where psh is and where its commands are: cd and pwd (builtins/cd.c,     *)
(* pwd.c) with PWD, OLDPWD and the environment of its children; the search *)
(* of PATH (lib/path_searcher.c); remembered commands (get_cmd_realpath of *)
(* run.c, builtins/hash.c).  Other processes change the directories and    *)
(* files meanwhile.  A text is a sequence of characters.                   *)
(***************************************************************************)
EXTENDS Integers, FiniteSets, SequencesExt

CONSTANTS
    Dirs, Root,     \* directories
    NoDir,          \* no directory
    Chars,          \* characters
    NotSet,         \* no text: a variable that does not exist, NULL
    Names,          \* names of directories, texts without a slash
    Commands,       \* names of programs
    Trees,          \* directories to begin with
    Environs,       \* environments to begin with
    Home,           \* HOME, or NotSet
    Path,           \* the elements of PATH
    CdArgvs,        \* the arguments cd is given
    PinTexts,       \* directories given to hash -p
    Junk,           \* what malloc'ed memory may hold, read as a text
    MaxChanges      \* bound on what other processes change

Slash == <<"/">>
Dot == <<".">>
DotDot == <<".", ".">>
Dash == <<"-">>

Texts == Seq(Chars)

(* What a directory may have under the name of a command: nothing, a file  *)
(* that can be executed, or something else that access(F_OK) accepts: a    *)
(* file that cannot be executed, a directory                               *)
Kinds == {"none", "program", "other"}

(* A directory is there if it has a parent (..), which is there, as far as *)
(* the root; no two of them have the same name in the same directory.      *)
IsTree(t) ==
    /\ t \in [parent : [Dirs -> Dirs \cup {NoDir}], name : [Dirs -> Texts],
              link : [Dirs -> [Names -> Dirs \cup {NoDir}]],
              files : [Dirs -> [Commands -> Kinds]]]
    /\ t.parent[Root] = Root /\ t.name[Root] = <<>>
    /\ \A d \in Dirs \ {Root} : t.parent[d] # NoDir =>
          /\ t.parent[t.parent[d]] # NoDir
          /\ t.name[d] \in Names
          /\ \A e \in Dirs : t.parent[e] = t.parent[d] /\ t.name[e] = t.name[d] => e = d

(* h is the height of each directory over the root, or more. *)
Rises(t, h) ==
    \A d \in Dirs \ {Root} : t.parent[d] # NoDir => h[t.parent[d]] < h[d]

ASSUME DirsAssumption == IsFiniteSet(Dirs) /\ Root \in Dirs /\ NoDir \notin Dirs
ASSUME CharsAssumption == {"/", ".", "-"} \subseteq Chars
ASSUME NamesAssumption ==
    \A n \in Names : n \in Texts \ {<<>>, Dot, DotDot} /\ \A i \in DOMAIN n : n[i] # "/"
ASSUME TreesAssumption ==
    \A t \in Trees : IsTree(t) /\ \E h \in [Dirs -> 0 .. Cardinality(Dirs)] : Rises(t, h)
ASSUME TextsAssumption ==
    /\ NotSet \notin Texts
    /\ Junk \subseteq Texts /\ Home \in Texts \cup {NotSet}
    /\ CdArgvs \subseteq Seq(Texts) /\ PinTexts \subseteq Texts
ASSUME EnvironsAssumption ==
    Environs \subseteq [PWD : Texts \cup {NotSet}, OLDPWD : Texts \cup {NotSet}]
ASSUME PathAssumption == Path \in Seq(Texts)
ASSUME ChangesAssumption == MaxChanges \in Nat

VARIABLES
    tree,       \* parent and name of each directory, links, files
    cwd,        \* the working directory
    pwd,        \* PWD
    oldpwd,     \* OLDPWD
    environ,    \* PWD and OLDPWD as children see them
    remembered, \* command_table: the directory part of each path
    job,        \* what the shell is doing
    changes,    \* counts changes by other processes
    seen        \* what was true when something was last looked at

vars == <<tree, cwd, pwd, oldpwd, environ, remembered, job, changes, seen>>

-----------------------------------------------------------------------------
(* Texts and directories *)

Extended(parts, t, n) ==
    CASE t[n] = "/" -> parts
      [] t[n] # "/" /\ (n = 1 \/ t[n - 1] = "/") -> Append(parts, <<t[n]>>)
      [] OTHER -> Append(Front(parts), Append(Last(parts), t[n]))
Parts(t) ==
    LET upto[n \in 0 .. Len(t)] ==
            IF n = 0 THEN <<>> ELSE Extended(upto[n - 1], t, n)
    IN  upto[Len(t)]
Join(parts) ==
    LET upto[n \in 0 .. Len(parts)] ==
            IF n = 0 THEN <<>> ELSE upto[n - 1] \o Slash \o parts[n]
    IN  IF parts = <<>> THEN Slash ELSE upto[Len(parts)]
IsAbsolute(t) == t # <<>> /\ Head(t) = "/"

IsThere(d) == d = Root \/ tree.parent[d] # NoDir
Entry(d, n) ==
    IF \E e \in Dirs : tree.parent[e] = d /\ tree.name[e] = n
    THEN CHOOSE e \in Dirs : tree.parent[e] = d /\ tree.name[e] = n
    ELSE IF n \in Names /\ tree.link[d][n] # NoDir /\ IsThere(tree.link[d][n])
    THEN tree.link[d][n] ELSE NoDir
StepTo(d, n) ==
    CASE d = NoDir -> NoDir
      [] d # NoDir /\ n = Dot -> d
      [] d # NoDir /\ n = DotDot -> IF d = Root THEN Root ELSE tree.parent[d]
      [] OTHER -> Entry(d, n)
Walk(d, parts) ==
    LET at[n \in 0 .. Len(parts)] == IF n = 0 THEN d ELSE StepTo(at[n - 1], parts[n])
    IN  at[Len(parts)]
Resolve(t) == Walk(IF IsAbsolute(t) THEN Root ELSE cwd, Parts(t))

(* The path of each directory that is there *)
PathsOf ==
    LET up[d \in Dirs] ==
            IF d = Root THEN {<<>>}
            ELSE IF tree.parent[d] = NoDir THEN {}
            ELSE {Append(p, tree.name[d]) : p \in up[tree.parent[d]]}
    IN  [d \in Dirs |-> {Join(p) : p \in up[d]}]

(* psh_backend_getcwd_dm: when getcwd fails it leaves the buffers of       *)
(* psh_getstring as malloc gave them, and two of them that are equal pass  *)
(* for the answer.                                                         *)
GetCwd == IF IsThere(cwd) THEN PathsOf[cwd] ELSE Junk

-----------------------------------------------------------------------------
(* canonicalize_path *)

(* out up to and with its last slash but one; the root stays. *)
UpOne(out) ==
    IF Len(out) = 1 THEN out
    ELSE SubSeq(out, 1, Max({n \in 1 .. Len(out) - 1 : out[n] = "/"}))

(* Slip: "..." is taken for "..". *)
IsPartLoose(t, n, p) ==
    n + Len(p) - 1 <= Len(t) /\ SubSeq(t, n, n + Len(p) - 1) = p

(* p is a whole part of t at n. *)
IsPart(t, n, p) ==
    LET end == n + Len(p) - 1
    IN  /\ end <= Len(t) /\ SubSeq(t, n, end) = p
        /\ end = Len(t) \/ t[end + 1] = "/"

(* One round of its loop: xpath is at s.x, what new_path has is s.out.     *)
Round(t, s) ==
    LET end == Min({Len(t) + 1} \cup {n \in s.x .. Len(t) : t[n] = "/"})
    IN  CASE s.x > Len(t) -> s
          [] s.x <= Len(t) /\ t[s.x] = "/" -> [x |-> s.x + 1, out |-> s.out]
          [] s.x <= Len(t) /\ IsPart(t, s.x, Dot) -> [x |-> s.x + 1, out |-> s.out]
          [] s.x <= Len(t) /\ IsPart(t, s.x, DotDot) ->
                [x |-> s.x + 2, out |-> UpOne(s.out)]
          [] OTHER -> [x |-> end, out |-> s.out \o SubSeq(t, s.x, end - 1) \o Slash]

CanonicalText(t) ==
    LET at[n \in 0 .. Len(t)] ==
            IF n = 0 THEN [x |-> 1, out |-> Slash] ELSE Round(t, at[n - 1])
        out == at[Len(t)].out
    IN  IF Len(out) = 1 THEN out ELSE Front(out)

CanonicalPath(base, t) ==
    CASE t = <<>> -> NotSet
      [] IsAbsolute(t) -> CanonicalText(t)
      [] OTHER -> CanonicalText(base \o Slash \o t)

-----------------------------------------------------------------------------
(* Arguments of cd: options, also after the path; `-` replaces a path. *)

(* The last P or L counts. *)
Options(o, w) ==
    LET which == {n \in 2 .. Len(w) : w[n] \in {"P", "L"}}
    IN  [path |-> o.path,
         physical |-> IF which = {} THEN o.physical ELSE w[Max(which)] = "P",
         bad |-> \E n \in 2 .. Len(w) : w[n] \notin {"P", "L", "e", "@"}]
Word(o, w) ==
    CASE o.bad -> o
      [] ~o.bad /\ w = Dash -> [o EXCEPT !.path = Dash]
      [] ~o.bad /\ w # <<>> /\ w # Dash /\ w[1] = "-" -> Options(o, w)
      [] OTHER -> IF o.path = NotSet THEN [o EXCEPT !.path = w]
                  ELSE [o EXCEPT !.bad = TRUE]
CdOptions(argv) ==
    LET upto[n \in 0 .. Len(argv)] ==
            IF n = 0 THEN [path |-> NotSet, physical |-> FALSE, bad |-> FALSE]
            ELSE Word(upto[n - 1], argv[n])
    IN  upto[Len(argv)]

(* No argument: HOME.  `-`: OLDPWD, whether it was asked for or is HOME. *)
Operand(o) == IF o.path = NotSet THEN Home ELSE o.path
Target(o) == IF Operand(o) = Dash THEN oldpwd ELSE Operand(o)

(* Slip: the wrong function of the backend, get_homedir for getcwd_dm. *)
BasesHome(o) == IF o.physical THEN {Home} ELSE {pwd}

(* What a relative path starts from *)
Bases(o) == IF o.physical THEN GetCwd ELSE {pwd}

-----------------------------------------------------------------------------
(* The shell *)

NoCommands == [c \in Commands |-> NotSet]
Prompt == [do |-> "prompt", argv |-> <<>>, cmd |-> {}]
Fault == [Prompt EXCEPT !.do = "fault"]

(* main and load_shell_vars: PWD of the environment replaces getcwd's. *)
Starts(e) ==
    /\ pwd \in IF e.PWD = NotSet THEN GetCwd ELSE {e.PWD}
    /\ oldpwd = e.OLDPWD
    /\ remembered = NoCommands
    /\ job = Prompt

(* seen.pwd: PWD named cwd when it was set, and nothing was changed since; *)
(* seen.old: the directory OLDPWD named, in the same sense, or NoDir;      *)
(* seen.found: the commands whose remembered path a search of PATH gave,   *)
(* since when no file, no directory and, if the path is relative, not the  *)
(* working directory were changed.                                         *)
Init ==
    /\ tree \in Trees
    /\ cwd \in {d \in Dirs : IsThere(d)}
    /\ environ \in Environs
    /\ Starts(environ)
    /\ changes = 0
    /\ seen = [pwd |-> IsAbsolute(pwd) /\ Resolve(pwd) = cwd, old |-> NoDir, found |-> {}]

(* exec psh: the new shell finds what is in the environment. *)
Restart ==
    /\ job = Prompt
    /\ pwd' \in (IF environ.PWD = NotSet THEN GetCwd ELSE {environ.PWD})
    /\ oldpwd' = environ.OLDPWD
    /\ remembered' = NoCommands
    /\ seen' = [pwd |-> IF environ.PWD = NotSet THEN IsThere(cwd)
                        ELSE seen.pwd /\ environ.PWD = pwd,
                old |-> IF environ.OLDPWD = oldpwd THEN seen.old ELSE NoDir,
                found |-> {}]
    /\ UNCHANGED <<tree, cwd, environ, job, changes>>

(* Slip: OLDPWD is what was asked for, not the PWD before. *)
OldpwdIsTheArgument(dest) == dest

NewOldpwd(dest) == pwd

(* chdir worked: the strings of the containers change hands.  Without      *)
(* OLDPWD its container is a null pointer.                                 *)
Moved(dest) ==
    /\ cwd' = Resolve(dest)
    /\ IF oldpwd = NotSet
       THEN job' = Fault /\ UNCHANGED <<pwd, oldpwd, seen>>
       ELSE /\ pwd' = dest
            /\ oldpwd' = NewOldpwd(dest)
            /\ job' = Prompt
            /\ seen' = [pwd |-> TRUE,
                        old |-> IF seen.pwd THEN cwd ELSE NoDir,
                        found |-> {c \in seen.found : IsAbsolute(remembered[c])}]
    /\ UNCHANGED <<tree, environ, remembered, changes>>

Stays(next) ==
    /\ job' = next
    /\ UNCHANGED <<tree, cwd, pwd, oldpwd, environ, remembered, changes, seen>>

(* Slip: nobody looks at what chdir returns. *)
DeniedUnlessChdir(dest) == dest = NotSet

(* chdir fails where there is no directory.  The others of its errors, as  *)
(* of a directory the shell may not search, are left out.                  *)
Denied(dest) == dest = NotSet \/ Resolve(dest) = NoDir

(* The user types cd. *)
Call(argv) ==
    job = Prompt /\ Stays([Prompt EXCEPT !.do = "cd", !.argv = argv])

(* builtin_cd *)
Cd ==
    /\ job.do = "cd"
    /\ LET o == CdOptions(job.argv)
       IN  CASE o.bad \/ Operand(o) = NotSet -> Stays(Prompt)
             [] ~o.bad /\ Operand(o) = Dash /\ oldpwd = NotSet -> Stays(Fault)
             [] OTHER ->
                   \E base \in Bases(o) :
                      LET dest == CanonicalPath(base, Target(o))
                      IN  IF Denied(dest) THEN Stays(Prompt) ELSE Moved(dest)

(* builtin_pwd: PWD, unless it is relative or has a . or .. in it *)
PwdShows(physical) ==
    IF physical \/ ~IsAbsolute(pwd) \/ {Dot, DotDot} \cap ToSet(Parts(pwd)) # {}
    THEN GetCwd ELSE {pwd}

-----------------------------------------------------------------------------
(* Commands *)

(* psh_backend_file_exists: access with F_OK, whatever sort of file it is *)
FileAt(t, c) == Resolve(t) # NoDir /\ tree.files[Resolve(t)][c] # "none"

(* execv executes it. *)
RunsAt(t, c) == Resolve(t) # NoDir /\ tree.files[Resolve(t)][c] = "program"

(* An element of PATH with a slash and a name behind it *)
InElement(n) == IF Path[n] = <<>> THEN Slash ELSE Path[n]

(* Slip: the loop has gone on to the next element when it returns. *)
SearchPathLate(c) ==
    LET hits == {n \in DOMAIN Path : FileAt(InElement(n), c)}
    IN  IF hits = {} THEN NotSet
        ELSE IF Min(hits) = Len(Path) THEN InElement(1) ELSE InElement(Min(hits) + 1)

(* psh_search_path *)
SearchPath(c) ==
    LET hits == {n \in DOMAIN Path : FileAt(InElement(n), c)}
    IN  IF hits = {} THEN NotSet ELSE InElement(Min(hits))

(* get_cmd_realpath; the child that is forked then executes job.argv[1].   *)
(* A command that is not found is the same to this module as one that ran. *)
LookUp(c) ==
    /\ job = Prompt
    /\ \/ /\ remembered[c] = NotSet /\ SearchPath(c) = NotSet
          /\ UNCHANGED <<job, remembered, seen>>
       \/ /\ remembered[c] = NotSet /\ SearchPath(c) # NotSet
          /\ remembered' = [remembered EXCEPT ![c] = SearchPath(c)]
          /\ seen' = [seen EXCEPT !.found = @ \cup {c}]
          /\ job' = [do |-> "exec", argv |-> <<SearchPath(c)>>, cmd |-> {c}]
       \/ /\ remembered[c] # NotSet
          /\ job' = [do |-> "exec", argv |-> <<remembered[c]>>, cmd |-> {c}]
          /\ UNCHANGED <<remembered, seen>>
    /\ UNCHANGED <<tree, cwd, pwd, oldpwd, environ, changes>>

(* execv in the child, which has the working directory of the shell.  That *)
(* the search found a file says nothing about executing it.                *)
Exec ==
    /\ job.do = "exec"
    /\ Stays(IF \A c \in job.cmd : RunsAt(job.argv[1], c) THEN Prompt
             ELSE [job EXCEPT !.do = "failed"])

ExecFailed ==
    job.do = "failed" /\ Stays(Prompt)

Sets(names, t) ==
    /\ remembered' = [c \in Commands |-> IF c \in names THEN t ELSE remembered[c]]
    /\ seen' = [seen EXCEPT !.found = @ \ names]

SearchesAll(names) ==
    LET hits == {c \in names : SearchPath(c) # NotSet}
    IN  /\ remembered' = [c \in Commands |->
                            IF c \in hits THEN SearchPath(c) ELSE remembered[c]]
        /\ seen' = [seen EXCEPT !.found = @ \cup hits]

(* builtin_hash: -r clears, whatever else is asked; -p (with t) beats -d,  *)
(* and -d beats -t, which prints; without these PATH is searched, also for *)
(* what is remembered.  What is not found now stays as it was.             *)
Hash(options, t, names) ==
    /\ job = Prompt
    /\ CASE "r" \in options -> Sets(Commands, NotSet)
         [] "r" \notin options /\ "p" \in options -> Sets(names, t)
         [] options \cap {"r", "p", "d"} = {"d"} -> Sets(names, NotSet)
         [] options = {"t"} -> UNCHANGED <<remembered, seen>>
         [] options = {} -> SearchesAll(names)
    /\ UNCHANGED <<tree, cwd, pwd, oldpwd, environ, job, changes>>

-----------------------------------------------------------------------------
(* Other processes *)

(* d and what is in it: in every set with d and with all that is in one of *)
(* its members                                                             *)
Below(d) ==
    LET full == {S \in SUBSET Dirs : d \in S /\ \A e \in Dirs : tree.parent[e] \in S => e \in S}
    IN  {e \in Dirs : \A S \in full : e \in S}

Changed(t) ==
    /\ job.do # "fault"
    /\ changes < MaxChanges /\ changes' = changes + 1
    /\ tree' = t
    /\ UNCHANGED <<cwd, pwd, oldpwd, environ, remembered, job>>

DirsChanged(t) == Changed(t) /\ seen' = [pwd |-> FALSE, old |-> NoDir, found |-> {}]

RenameDir(d, e, n) ==
    /\ d # Root /\ IsThere(d) /\ IsThere(e) /\ e \notin Below(d)
    /\ Entry(e, n) = NoDir
    /\ DirsChanged([tree EXCEPT !.parent[d] = e, !.name[d] = n])

RemoveDir(d) ==
    /\ d # Root /\ IsThere(d) /\ Below(d) = {d}
    /\ \A c \in Commands : tree.files[d][c] = "none"
    /\ \A n \in Names : tree.link[d][n] = NoDir
    /\ DirsChanged([tree EXCEPT !.parent[d] = NoDir])

FilesChanged(files) ==
    /\ Changed([tree EXCEPT !.files = files])
    /\ seen' = [seen EXCEPT !.found = {}]

MoveFile(c, d, e) ==
    /\ tree.files[d][c] # "none" /\ tree.files[e][c] = "none" /\ IsThere(e)
    /\ FilesChanged([tree.files EXCEPT ![d][c] = "none", ![e][c] = tree.files[d][c]])

(* chmod, or another file under the same name *)
ChangeFile(c, d, kind) ==
    /\ "none" \notin {kind, tree.files[d][c]} /\ kind # tree.files[d][c]
    /\ FilesChanged([tree.files EXCEPT ![d][c] = kind])

Next ==
    \/ Restart
    \/ \E argv \in CdArgvs : Call(argv)
    \/ Cd
    \/ \E c \in Commands : LookUp(c)
    \/ Exec \/ ExecFailed
    \/ \E options \in SUBSET {"d", "p", "r", "t"}, t \in PinTexts, names \in SUBSET Commands :
        Hash(options, t, names)
    \/ \E d, e \in Dirs, n \in Names : RenameDir(d, e, n)
    \/ \E d \in Dirs : RemoveDir(d)
    \/ \E c \in Commands, d, e \in Dirs : MoveFile(c, d, e)
    \/ \E c \in Commands, d \in Dirs, kind \in Kinds : ChangeFile(c, d, kind)

Spec == Init /\ [][Next]_vars

-----------------------------------------------------------------------------
(* Properties *)

TypeOK ==
    /\ IsTree(tree)
    /\ cwd \in Dirs
    /\ pwd \in Texts /\ oldpwd \in Texts \cup {NotSet}
    /\ environ \in Environs
    /\ DOMAIN remembered = Commands
    /\ \A c \in Commands : remembered[c] \in Texts \cup {NotSet}
    /\ job \in [do : {"prompt", "cd", "exec", "failed", "fault"}, argv : Seq(Texts),
                cmd : SUBSET Commands]
    /\ changes \in 0 .. MaxChanges
    /\ seen \in [pwd : BOOLEAN, old : Dirs \cup {NoDir}, found : SUBSET Commands]

(* PWD names the working directory and OLDPWD the one before, until some   *)
(* directory is moved or a shell starts with the PWD of an older one (cd   *)
(* does not export what it sets: cd.c:288-290); and pwd shows a path of    *)
(* the working directory without . and .. in it.                           *)
PwdNamesCwd ==
    job.do # "fault" =>
        /\ seen.pwd => Resolve(pwd) = cwd
        /\ seen.old # NoDir => IsAbsolute(oldpwd) /\ Resolve(oldpwd) = seen.old
        /\ seen.pwd => \A physical \in BOOLEAN : \A t \in PwdShows(physical) :
              IsAbsolute(t) /\ {Dot, DotDot} \cap ToSet(Parts(t)) = {} /\ Resolve(t) = cwd

(* What . and .. mean in a text: part by part *)
Pushed(parts, p) ==
    CASE p = Dot -> parts
      [] p = DotDot -> IF parts = <<>> THEN <<>> ELSE Front(parts)
      [] OTHER -> Append(parts, p)
Normal(t) ==
    LET parts == Parts(t)
        upto[n \in 0 .. Len(parts)] ==
            IF n = 0 THEN <<>> ELSE Pushed(upto[n - 1], parts[n])
    IN  Join(upto[Len(parts)])

(* cd without -P goes to the path got by removing . and .. from PWD and    *)
(* its argument, exactly when there is such a directory, and sets PWD to   *)
(* it; else it changes nothing.  canonicalize_path works on characters.    *)
Asked == CdOptions(job.argv)
LexicalCd ==
    job.do = "cd" /\ job' = Prompt /\ ~Asked.bad /\ ~Asked.physical =>
        LET t == Target(Asked)
            dest == Normal(IF IsAbsolute(t) THEN t ELSE pwd \o Slash \o t)
        IN  IF t \in {NotSet, <<>>} \/ Resolve(dest) = NoDir
            THEN UNCHANGED <<cwd, pwd, oldpwd>>
            ELSE pwd' = dest /\ cwd' = Resolve(dest)
CdIsLexical == [][LexicalCd]_vars

(* While PWD can be relied on, cd to a relative path without .. goes where *)
(* the system would go from the working directory, links or no links; and  *)
(* cd - goes back to where the last cd came from, unless OLDPWD is a path  *)
(* from the environment with a .. in it, which cd removes and chdir does   *)
(* not.                                                                    *)
GuidedCd ==
    job.do = "cd" /\ job' = Prompt /\ ~Asked.bad /\ seen.pwd =>
        LET t == Target(Asked)
            there == Walk(cwd, Parts(t))
        IN  /\ /\ t \notin {NotSet, <<>>} /\ ~IsAbsolute(t)
               /\ DotDot \notin ToSet(Parts(t)) \cup ToSet(Parts(pwd))
               => cwd' = IF there = NoDir THEN cwd ELSE there
            /\ /\ Asked.path = Dash /\ seen.old # NoDir
               /\ DotDot \notin ToSet(Parts(oldpwd))
               => cwd' = seen.old
CdGoesThere == [][GuidedCd]_vars

(* t is the first element of PATH with a file of the name of c.  Before an *)
(* absolute one a relative element can have such a file by now: the        *)
(* working directory moves under it.                                       *)
FirstInPath(t, c) ==
    \E n \in DOMAIN Path :
        /\ InElement(n) = t /\ FileAt(t, c)
        /\ \A k \in 1 .. n - 1 :
              FileAt(InElement(k), c) => IsAbsolute(t) /\ ~IsAbsolute(InElement(k))

(* What a command executes that was searched for, now or by an earlier     *)
(* look-up or hash, is the first file of its name in PATH, through any     *)
(* sequence of look-ups, hash with its options, cd and new shells; and it  *)
(* fails only if execv will not have this file, even if an element behind  *)
(* has a program: the search asks whether there is a file, not what it is. *)
(* Nothing is said of a path that hash -p gave or that something changed   *)
(* under (seen.found): psh does not look again.                            *)
RunsFirstInPath ==
    \A c \in job.cmd \cap seen.found :
        /\ job.do \in {"exec", "failed"} => FirstInPath(job.argv[1], c)
        /\ job.do = "failed" => ~RunsAt(job.argv[1], c)

-----------------------------------------------------------------------------
(* What the repository says and the code does not do *)

(* cd.c:53: cd "Returns 0 if the directory is changed". *)
CdReturnsIfChanged == [][job.do = "cd" /\ cwd' # cwd => job'.do # "fault"]_vars
=============================================================================
