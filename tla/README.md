# Verification of psh

TLA+ models of psh, a POSIX-like shell in C, with the runs of the model checker
TLC over small instances and the proofs of the TLA+ proof system TLAPS. Paths
are relative to the repository (`src/` there is the shell, `lib/` its library).

## 1. The system

psh is one process. It reads a line, expands aliases, parses the line into a
list of commands, and runs the list; forked children run next to it. The
kernel's process table, descriptor tables and pipes are what it shares with its
children.

| Component | State it keeps | Operations | Talks to |
|---|---|---|---|
| command runner `src/backends/posix2/run.c` | position in the command list, `last_pipe_fd`, `pipe_fd`, `pid`; the descriptor table of the shell | `psh_backend_do_run`, `execute_single_cmd`, `set_up_redirection`, `restore_fds`, `get_cmd_realpath` | kernel, jobs, builtins, variable `?`, remembered commands |
| job list `src/jobs.c` | `state->jobs` | `psh_jobs_add`, `psh_jobs_free` | kernel (`kill`) |
| leaving the shell `src/util.c`, `builtins/exit.c`, `builtin_exec.c` | - | `exit_psh`, `code_fault`, `exit`, `exec` | jobs, variables |
| main loop `src/main.c`, `src/args.c` | `psh_state` | read - expand - parse - run; `-c` | everything |
| parser `src/filpinfo.c`, `src/command.c` | scan position, quote state, the command list being built | `filpinfo`, `new_command`, `free_command` | reads continuation lines |
| hash table `lib/hash.c`, `lib/hasher.c` | slots, chains, counts; the items in the heap | create, add, add with growth, get, remove, free | heap |
| variables `src/variable.c` | contexts of variable and function tables | `psh_vf_set`, `_get`, `_unset`, `psh_vfa_new_context`, `psh_vf_exit_local` | hash table, environment |
| aliases `builtins/alias.c` | `alias_table` | `alias`, `unalias`, `expand_alias` | hash table |
| remembered commands `builtins/hash.c`, `get_cmd_realpath` | `command_table` | `hash`, `hash -r/-d/-p/-t`, look-up before a search of `PATH` | hash table, path search |
| `cd`, `pwd` `builtins/cd.c`, `builtins/pwd.c` | `PWD`, `OLDPWD`, the working directory | `builtin_cd`, `canonicalize_path`, `builtin_pwd` | variables, environment of the children, file system |
| path search `lib/path_searcher.c` | - | `psh_search_path` | `PATH`, file system |
| prompt `src/prompts.c`, `lib/stringbuilder.c` | position in the copy of `PS1`, start and count of the current piece, the pieces | `ps_expander`, the string builder | `PS1`, `strftime` |
| reading a line `src/input.c`, `lib/util.c` | the block, its size, the character count | `read_cmdline`, `psh_fgets`, `psh_getstring` | user, history library |
| small builtins, start-up, signals | - | `echo`, `pwd`, `help`, `history`, `true`, `builtin`; `psh_backend_prepare` | - |

What is hard in it:

* **Processes.** The shell and its children run concurrently, end in any order,
  and share pipes. A descriptor left open in one process decides whether another
  one ever ends. Pids are reused. `fork`, `pipe` and `execv` may fail halfway
  through a pipeline. A child forked for a builtin owns a copy of the shell's
  state, the job list included, and runs the same `exit_psh`.
* **Descriptor numbers.** `do_run` hands the child numbers the parent may
  already have closed and `pipe()` may have handed out again; `0` doubles as
  "no pipe".
* **Heap structure.** Hash table items outlive growth with stale `next`
  pointers; only the counts keep a walk away from them. `tail` survives the item
  it points to.
* **Other processes.** Directories are moved or removed under the shell, files leave
  the path that was remembered for them, and a child shell starts with a `PWD`
  nobody kept up to date.
* **Memory that moves.** `psh_fgets` grows its block and keeps the old pointer;
  `psh_getstring` believes an answer that came twice.
* **Counting characters.** `ps_expander` and `canonicalize_path` step forwards and
  backwards over texts, with a different count in every case of the switch.
* **Ownership.** Values are freed by whoever holds `if_free`, by `psh_hash_rm`
  regardless of it, and by `clear_single_var`.

The full list of hazards, each at its line and with the properties that cover
it, is in `PROJECT.json`.

What makes each component correct:

| Component | Correctness |
|---|---|
| runner | commands are taken in order; a foreground command is over before the next one starts; `?` is the outcome of the last foreground command; each child gets the right pipe ends and nobody keeps a write end that starves a reader |
| job list | exactly the children nobody waits for, each once; a signal never reaches a process that is not one of them; leaving the shell hangs up all of them |
| hash table | it is a dictionary; every item allocated is reachable, every value is freed once |
| parser | the commands, arguments and separators of the line, nothing read beyond its end, every state of the list well formed |
| variables | the innermost binding is found; every payload is freed once |
| aliases | the parser gets the line with its aliases replaced and the rest as it was; expansion ends unless aliases go round in a circle |
| remembered commands, path search | what is executed for a command is the first file of its name in `PATH`, unless something changed since |
| `cd`, `pwd` | `cd` goes where its argument and `PWD` say, exactly if that exists; `PWD` and `OLDPWD` name the directories they should |
| prompt | what is shown is what `PS1` means |
| reading a line | nothing is stored behind the block; the line arrives as it was typed |

## 2. The modules

```
PshShell          what the runner promises (no processes, pipes, descriptors)
   ^ implemented by
PshRun            run.c, jobs.c, exit and exec, main loop, kernel, programs
   PshRunProofs   theorems about PshRun; PshRun implements PshShell
   MCPshRun       command lists and constants for TLC
PshInput          main.c from the prompt to the parser; composes
   PshPrompt         ps_expander and the string builder
   PshLine           psh_fgets, history expansion, aliases
   PshPromptProofs, PshInputProofs   theorems about them
   MCPshInput        prompts, lines and aliases for TLC
PshParser         filpinfo: from a line to the list PshRun takes
   PshParserProofs theorems about PshParser
   MCPshParser    lines and sizes for TLC
PshPaths          cd and pwd, the search of PATH, remembered commands, files
   PshPathsProofs theorems about PshPaths
   MCPshPaths     directories, environments and arguments for TLC
PshVars           variable.c: contexts of variables and who owns their strings
   PshVarsProofs  theorems about PshVars
   MCPshVars      symmetry for TLC
PshMap            what a table promises: a dictionary
   ^ implemented by
PshHash           lib/hash.c on a heap of items
   PshHashProofs  theorems about PshHash; PshHash implements PshMap
   MCPshHash      keys and hashes for TLC
PshNumbers        Min and Max of sets of numbers, for the proofs
```

A line goes through them in this order: `PshInput` ends with the text the parser
gets, `PshParser` with the list the runner gets, `PshRun` runs it. The tables of
aliases, of remembered commands and of variables are the dictionary of `PshMap`.

### PshRun

| Variable | Code |
|---|---|
| `pc` | `prompt`: main.c's loop; `cmd`: top of do_run's loop; `fork`: after `pipe`; `parent`: after `fork` returned; `wait`: in `waitpid`; `exited`, `crashed`, `execed` |
| `line`, `i` | the list handed to do_run and the command it looks at |
| `lastPipe`, `pipeFd`, `pid`, `status` | `last_pipe_fd`, `pipe_fd`, `pid`, the variable `?` |
| `jobs` | `state->jobs` (pid and type) |
| `fds` | the shell's descriptor table |
| `proc` | the process table: for each pid its state, owner, and what `fork` copied (descriptors, job list, `?`, the arguments of `execute_single_cmd`) |
| `exitCode` | argument of `exit`, eight bits |

One action is one stretch of code between two system calls another process can
notice. `Fork`/`ForkFails`, `MakePipe`/`PipeFails`, `ChildExecs`/`ChildExecFails`
are the outcomes of one call. The child side (`ChildWires`, `ChildRedirectFails`,
`ChildBuiltin`, `ChildExit`, `ChildExecs`) interleaves with the parent's. Programs
are outside the repository and of three kinds: one that ends by itself, one that
reads its standard input to the end, one that writes until nobody reads (for ever,
on a terminal).
Unrelated processes take free pids and give them back, so a stale pid is a
visible mistake.

Where the code's behaviour is undefined the model has every outcome: a redirected
builtin stores through the uninitialised pointers of `BACKUP_FD`, so it crashes
(`BuiltinCrashes`) or goes on.

The properties:

* `JobsAreTheChildren` - the job list and the foreground child are exactly the
  children not yet reaped, none twice. From it `NoStrangerHungUp` (no SIGHUP goes
  to a recycled pid) and `ExitLeavesNoChild` (`exit_psh` leaves no child running).
* `ChildIsWired` - although `last_pipe_fd[1]` is stale whenever it is passed on
  and its number may by then be another pipe's, the child ends up with the read
  end of the previous pipe on 0, its own write end on 1 and no other write end. That
  holds in a shell that lost its standard input, too, where `pipe()` returns 0 and the code
  takes it for no pipe. It relies on what the parser makes of redirections (`RedirectsAssumption`): only
  the first command of a line carries one, so `exec 3>&1` is over before the first
  pipe of its line exists. With one on a later command exec would overwrite the
  pipe end the shell keeps.
* `WriteEndsClosed` - no write end is left in the shell between commands,
  whichever call failed; so `ForegroundReturns` (liveness).
* `WritersEndOrShellKeepsPipe` - a writer is stuck for ever only because the
  shell itself kept the read end, never because of a sibling (liveness).
* `RunsTheLine` - the runner implements `PshShell`: in order, foreground commands
  to their end, `?` only ever the outcome of the foreground command that ended.

### PshParser

| Variable | Code |
|---|---|
| `buf`, `at` | `buffer` without its NUL, `cnt_buffer` when the switch is entered |
| `quote` | `stat_in_squote`, `stat_in_dquote` |
| `target` | `stat_parsing_redirect` 0, 1, 2 |
| `cmds` | the list from `info` on; `cmd_lastnode` is its last element, `cnt_argument_element` and `cnt_argument_char` are lengths in it |
| `redir` | the redirection of the first command |
| `old`, `wrote` | `cnt_old_parameter`, `cnt_return > 0` |
| `torn` | whether a quote went on in another line; the code does not keep it |
| `fate` | `parsed`, `error` (a syntax error was reported), or how the scan went wrong |

One action per case of the switch, named after its character; a macro of the code
is an operator (`Write`, `Written`, `Resume`, `Ignore`). The arguments keep
their NULs and their sizes, so that what is written where is visible. A line
calls for a continuation through `Appended`, which may also meet the end of the
input.

* `ParsesPlainLines` - for lines of words, closed quotes, `&`, `&&`, `|` and `||`, the
  list is the `Meaning` of the line: tokens by a lexer that reads it character by character (`Lexed`), then
  commands from tokens (`Assembly`). The code does both in one pass and undoes the argument
  begun after each blank that turns out to precede a separator. A quote that goes on in
  another line is left out: its continuation loses its first character.
* `ListFitsTheRunner` - types are what do_run goes by: a separator for every
  command but the last. `PshRun` takes such lists for granted.
* `GoesWrongForAReason` - each way to leave the buffer, the argument vector or the
  list happens only on lines of a shape the property names: a trailing backslash or
  `|`, a quoted `;` (all that follows it goes through a null pointer, unless the scan has
  left the line before: `AfterLost` has every outcome), a second `>`, a command without a word, too many arguments...
  These are flaws of the code the repository says nothing about; the property
  bounds them, and nothing else goes wrong. A command is without a word also where
  filpinfo loses it: the first character of a line in which a quote goes on is
  skipped, and after a `>` nothing is written any more, since `stat_parsing_redirect` is
  never reset (`a>b & c &` has a second command without arguments).
* `ScanMovesOn` - no step goes back, so the scan ends.
* `TypeOK` - nothing is stored outside an argument, and the switch is never
  entered behind the NUL.

`filpinfo.c` compiled with an address sanitizer, its continuations answered with
the end of the input, agrees with the model on the 95,803 lines of a similar
instance: the same lists and redirections, errors and failures.

### PshHash

`table` is the `psh_hash` with the item of every heap address (`NoItem` once it
is freed); `owned` the values that were malloc'ed and not freed; `ret` what the
last call returned; `broken` whether something undefined has happened; `stale`
whether a tail pointer was wrong at some time since the table was created. Addresses
are reused, values may be literals. `HashAdd`, `HashAddChk`, `HashGet`, `HashRm` and `HashRecreate`
(`unalias -a`, `hash -r`) are whole functions: nothing runs between their steps.
A walk of a chain goes exactly as far as the code's does, following stale
pointers where it would.

* `HeapIsTheTable` - as long as every tail has been right, the chains cut off by the
  counts hold each allocated item once, in its slot, keys are unique and the table
  owns exactly what was malloc'ed for it. This is what the comment "this->next is
  random" in hash.c relies on after a growth.
* `IsADictionary` - the table implements `PshMap`, until a key is removed that
  shares its slot with another present one, or whose value is a literal (`psh_hash_rm`
  frees it regardless of `if_free`). `PshMap` allows the loss of its
  promise in these cases only; what happens then is the finding below.

That the tails are right now would not be enough for either: after two growths the
`next` of a last item may still lead to an item of another slot. If the last item of
a slot is then removed, its address given out again for another key and the chain followed
past the removed item, all tails can be right again and one item lost. The
proof found this; a directed instance of five addresses and two growths shows it. Hence `stale`.

### PshVars

`contexts` is the stack of variable tables, the root first (`context_idx` is its
length less one), `slots` is `context_slots`, `heap` holds the string at each
address, `environ` is the environment of the children. A table is taken to be the
dictionary `PshMap`; a name stands for a name with its `is_func`. Actions:
`VfaNewContext`, `VfSet`, `VfUnset`, `VfExitLocal`, `VfaFree`; `Value` is what
`psh_vf_getstr` and `psh_vf_getint` read. Today's shell makes the root context only:
the model is of what the header promises to callers.

* `StringsOwnedOnce` - each string has one container, each container that is not
  unset its string, whatever was replaced, unset, left or freed at exit.
* `FreedTwiceAfterLocalUnset` - a string is freed twice only where a variable of
  an inner context was unset; `psh_vf_unset` keeps its container and pointer.
* `OneContextBehind` - the array of contexts is grown one context late, by a test for
  equality; no more than one context is ever behind its end.
* `SetIsVisible` - `psh_vf_set` updates the context that `psh_vf_get` looks in.
* `ExportsKept` - children see what the shell sees of exported variables, until a
  context is left.

### PshPaths

| Variable | Code |
|---|---|
| `tree` | parent and name of each directory, links, and what each directory has under the name of a command: nothing, a program, or a file that is none (or a directory); external |
| `cwd` | the working directory of the process |
| `pwd`, `oldpwd` | the variables; a text is a sequence of characters |
| `environ` | the two as `environ` has them, for the shells that are started from here |
| `remembered` | `command_table`: the directory part of each path |
| `job` | the call that runs: `cd` with its arguments, a command with its path |
| `changes`, `seen` | bound on changes by others; what was true when it was last looked at |

`Cd` is `builtin_cd` from the options to `chdir` and the exchange of the two
strings; `CanonicalText` is the character loop of `canonicalize_path` (`Round` is
one round of it). `LookUp` is `get_cmd_realpath`, which asks for any file of the name
(`FileAt`, `access` with `F_OK`), `Exec` and `ExecFailed` the
`execv` that follows, which needs a program (`RunsAt`), `Hash` every option of `hash`, `Restart` a shell started
from this one. `RenameDir`, `RemoveDir`, `MoveFile` and `ChangeFile` (a file becomes a
program or stops being one) are other processes; they
also come between the look-up of a command and its `execv`, and before a `cd`.

* `PwdNamesCwd` - `PWD` resolves to the working directory and `OLDPWD` to the one
  before, until a directory is moved or a shell starts with a stale `PWD`; then
  `pwd` and `pwd -P` show a path of it.
* `CdIsLexical` - `cd` without `-P` goes to the path got from `PWD` and its argument
  by taking `.` and `..` away part by part, exactly when there is such a directory;
  else nothing changes. The code works on characters, in one buffer.
* `CdGoesThere` - while `PWD` can be relied on, a relative path without `..` leads
  where the system would go from the working directory, links or not; `cd -` leads
  to where the last `cd` came from.
* `RunsFirstInPath` - a command that was searched for, now or earlier, executes the first
  file of its name in `PATH`, be it a program or not: `execv` fails exactly if that one is no
  program, though a later directory may have one. Excused is a command for which a file, a
  directory or (for a relative element of `PATH`) the working directory changed
  after the search, or whose path `hash -p` gave.

`canonicalize_path` compiled on its own agrees with `CanonicalText` on all 3,280
absolute texts of up to 8 characters of `/`, `.` and `a`.

A text is any sequence over the constant `Chars`. The directories are a finite tree:
`IsTree` has the names apart, and `TreesAssumption` gives each directory a height over the
root for the trees to begin with (no directory is its own ancestor). `cd -` is promised to
go back only if `OLDPWD` has no `..` in it: with `PWD` inherited as `/.b/..`, over a link
`/.b`, the shell is in the directory the system finds there, and `cd -`
takes `..` away first and goes to `/`. A path that `cd` itself set has no `..`.

### PshPrompt, PshLine and PshInput

| Variable | Code |
|---|---|
| `ex.buf` | the copy of `PS1` at `save_start`, with its NUL; of an empty `PS1` also what lies behind |
| `ex.cur`, `ex.start`, `ex.count` | `cur` and `start` as positions in it, `count` |
| `ex.backslash`, `ex.level` | `is_backslash`, `num_level` |
| `ex.items` | the items of the string builder |
| `stage` | where the line is: prompt, read, history, alias, command |
| `typed`, `got`, `read`, `room` | what the user types; the block `psh_fgets` returns, `charcount`, `nowhave` |
| `stale` | `ptr` points into a block that `realloc` gave back |
| `line`, `text` | the line after history expansion; the result of `expand_alias` so far |
| `aliases` | `alias_table` |

`Expand` has one disjunct per case of the switch of `ps_expander`; a round that ends
at the NUL hands the rest to the builder (`Yield`). `GetChar` is one round of
`psh_fgets`: `realloc` may move the block, and the old pointer is then written
through. `History` has the outcomes of `history_expand`, `ExpandAlias` is one round of
`expand_alias`, and commands change `PS1` (`NewPrompt`) and the aliases (`Alias`,
`Unalias`).

* `PromptMeansPs1` - the prompt is the `Meaning` of `PS1`, read from its end to its start:
  the texts its escapes stand for and its other characters behind each other. The code counts these
  pieces out in several places. The texts are those of the table in
  the comment at the head of prompts.c, with two exceptions: `\n`, which the comment calls CRLF, is a
  line feed in the code, and `\j`, `\l`, `\!`
  and `\#`, for which the code has a TODO where the comment has a meaning, stand for
  themselves. A null pointer is followed only by freeing an empty builder, if
  there is nothing to show, or by `\u`, `\w` and `\W` if the user has no entry in the
  password file (`NoPasswdEntry`); memory runs
  out only for a format `strftime` answers with nothing, in `PS1` or in what lies behind
  the copy of an empty one.
* `ReadFits`, `LineIsWhole` - nothing is stored behind the block; a line arrives as
  typed unless it fills the first buffer. One that does is written on through the pointer to
  the old block, and may arrive cut off with anything behind it.
* `ParserGetsTheLine` - the parser gets the line with its first word replaced by what
  that word means through the aliases and the rest as it was, and no line whose
  aliases go round in a circle.
* `AsksAgain` (liveness) - the shell comes back to ask for a line, has ended, or is
  in such a circle (there is a TODO for it at alias.c:105).
* `TypeOK` includes `StaysInCopy`: the scan is before the NUL of the copy, and what
  was counted lies behind the last piece and before the scan.

`ps_expander` compiled on its own agrees with `PshPrompt` on 2,957 prompts, all
triples of 14 tokens among them: 2,949 are shown alike, 4 exhaust memory and 4
follow the null pointer in both.

## 3. The runs

| Run | Instance | Shows |
|---|---|---|
| `run_safety` | 4 pids, 2 pipes, descriptors 0-6, 12 command lists, 2 lines | the seven safety properties above |
| `run_liveness` | 3 pids, 2 pipes, 4 lists, 1 line, fairness | the two liveness properties |
| `run_andlist` | 3 pids | `a && b` runs b after a failed (violation) |
| `run_pipeleak` | 3 pids | the prompt is back with a pipe open in the shell (violation) |
| `vars_scopes` | 1 name, 3 strings of 2 texts, an integer, 4 contexts over an array of 2 slots | the six properties of `PshVars`; 30,269 states |
| `hash_map` | 3 items, 4 keys, 2 malloc'ed values and a literal, 2 slots growing to 4; 46,512 states | type, heap and dictionary |
| `hash_tail` | 2 items | removal leaves the tail on freed memory (violation) |
| `parser_lines` | 113,581 lines: all of up to 4 characters of 13 classes, all of up to 6 of words, quotes, `&` and `\|` or of words, `&`, `;` and `>`; 5 continuation lines; 2,068,234 states | the five properties of `PshParser` |
| `parser_argv` | up to 6 characters of `a` and blank | fewer than `MAXARG` arguments overflow `argv` (violation) |
| `paths` | 3 directories and a link, `PATH` of one absolute and two relative elements, a program in one of them and a file that is none in another, 4 environments, about 50 calls of `cd`, 2 changes by others; 609,000 states | the five properties of `PshPaths` |
| `cd_fault` | the same, no `OLDPWD` | a first `cd` changes the directory and then follows a null pointer (violation) |
| `input` | about 380 values of `PS1`, 8 lines, 2 alias names, 6 texts; 113,921 states, fairness | the six properties of `PshInput` |

**Bounds.** Four pids are the four processes of the longest pipeline in the
lists; with fewer, forks fail for want of pids, which is an outcome of its own.
Two pipes are what a shell can hold at once (the previous and the current one);
more exist only as ends in children, and when both are still in use `MakePipe` is
not possible and `PipeFails` is. Descriptors 0-6 are the standard streams, two
pipes with both ends, and one for a backup. Two lines let state survive from
one to the next (jobs, leaked and closed descriptors, `?`). The lists are chosen
for the shapes that differ: four stages (from the third on `close2` is a number
in use again), commands not found, builtins in and at the end of a pipeline,
background, exit and exec in the shell and in a child, redirections of builtins
and of programs. Three items and four keys give a slot with one, two and three
items, growth with and without a collision dissolving, and reuse of a freed
address; the table grows once (`MaxLen`). Four characters hold every pair of
neighbouring cases of the switch with something before or after them, six hold two separators
between three words and quotes around one; a buffer of seven lets a continuation
line follow. Three argument slots and five characters an argument are few enough to
overflow. Three directories with a link are the least in which a link and its target
have different parents; `PATH` begins and ends with a relative element, the environments
are with and without `PWD` and with and without `OLDPWD`, and two changes by others are
one before and one after a look-up (or one that undoes the other). The program and the file
that is none of the same name stand in two directories, and a change may swap what they are. The texts given to
`cd` are all of two characters and those of three in which dots stand at the end or in
the middle, and paths over the link. Prompts are all pairs of 14 tokens, all octal codes of up to four
characters, and each other escape with something before it and a backslash after it: a
case of the switch depends on what the last one left in `count` and `start`. A first
buffer of two grows twice for lines of five characters; two alias names make a circle,
a chain and a self-reference; `MaxText` is where memory ends, and `MaxChanges` the only
other bound in a guard. One name is enough for the variables: contexts make as many
containers of it as two names would, and the strings are what they share; three
strings leave one to be allocated before the one it replaces is freed; the array
of two grows at the fourth context; the theorems hold for every number of them. One continuation
line closes a quote and has an operator behind it, the others are blanks and a word.

**Symmetry** is used for pids, pipes, addresses, names and values in runs without
liveness.

**Fairness** (`FairSpec`): the scheduler runs the shell's own steps and every
child's, and a program that can end does. No fairness is assumed of the
user, who may never type again, nor of unrelated processes, nor of the
individual outcome of a call (a fork may fail every time). Programs that read
end only at the end of their input, programs that write only when nobody reads.

`FairSpec` of `PshInput`
does the same for the one thread of the main loop: expanding a prompt, asking for a line,
`expand_alias` and the command go on by themselves. Nothing is assumed of the user, who
may stop in the middle of a line. That a command ends is what `ForegroundReturns` shows of
`PshRun`, as far as it is true there.

**Deadlock** is not checked in the hash and paths runs, where the program does not continue
after undefined behaviour, nor in the parser runs, where the scan ends, nor in those of the
variables and of the input, where the shell may exit. The runner's runs check it.

The violation runs are disagreements of the code with its comments and documents,
quoted in `PROJECT.json` under `findings`.

## 4. The proofs

Every theorem holds for all values of the constants that meet the assumptions named in
the module; TLC evaluates those assumptions in every run.

| Module | Theorem | Statement |
|---|---|---|
| `PshRunProofs` | `TypeCorrect` | `Spec => []TypeOK` |
| | `JobsCorrect` | `Spec => []JobsAreTheChildren` |
| | `HangUpsHitChildren` | `Spec => NoStrangerHungUp` |
| | `ExitHangsUpAll` | `Spec => ExitLeavesNoChild` |
| | `NoWriteEndKept` | `Spec => []WriteEndsClosed` |
| | `ChildrenAreWired` | `Spec => []ChildIsWired` |
| | `RunnerImplementsShell` | `Spec => RunsTheLine` (refinement) |
| `PshHashProofs` | `HashTypes` | `Spec => []TypeOK` |
| | `HeapIsAlwaysTheTable` | `Spec => []HeapIsTheTable` |
| | `TableIsADictionary` | `Spec => IsADictionary` (refinement) |
| `PshParserProofs` | `TypeCorrect` | `Spec => []TypeOK` |
| | `ScanGoesOn` | `Spec => ScanMovesOn` |
| | `ListsFit` | `Spec => []ListFitsTheRunner` |
| | `GoesWrongOnlyForAReason` | `Spec => []GoesWrongForAReason` |
| | `PlainLinesAreParsed` | `Spec => []ParsesPlainLines` |
| `PshInputProofs` | `TypeCorrect` | `Spec => []TypeOK` |
| | `ReadStaysInside` | `Spec => []ReadFits` |
| | `ShortLinesAreWhole` | `Spec => []LineIsWhole` |
| | `AliasesAreSubstituted` | `Spec => []ParserGetsTheLine` |
| | `PromptIsPs1` | `Spec => []PromptMeansPs1` |
| `PshPathsProofs` | `PathsTypes` | `Spec => []TypeOK` |
| | `PwdIsWhereTheShellIs` | `Spec => []PwdNamesCwd` |
| | `CdGoesByTheText` | `Spec => CdIsLexical` |
| | `CdGoesWhereTheSystemWould` | `Spec => CdGoesThere` |
| | `CanonicalTextIsNormal` | `CanonicalText(t) = Normal(t)` for every text `t` |
| | `FoundCommandsRun` | `Spec => []RunsFirstInPath` |
| `PshVarsProofs` | `TypeCorrect` | `Spec => []TypeOK` |
| | `StringsHaveOneOwner` | `Spec => []StringsOwnedOnce` |
| | `DoubleFreesComeFromUnset` | `Spec => []FreedTwiceAfterLocalUnset` |
| | `SetIsFound` | `Spec => SetIsVisible` |
| | `ExportsAgree` | `Spec => ExportsKept` |
| | `LateByOne` | `Spec => []OneContextBehind` |

**The runner** (any sets of pids, pipes, descriptors and command lists;
`PidsAssumption`, `FdAssumption`, `ListsAssumption`, `RedirectsAssumption`,
`BoundsAssumption`). `JobsAreTheChildren` is not inductive: what a child does with its
copy of the list, and what `kill` does to a pid on it, depends on who owns which
process. `ChildrenInv` adds `OwnersOK` (free pids, children and strangers are told apart
in the table; a stranger is never a zombie the shell could reap) and
`CopiesAreJobs` (the list in a child is part of the shell's, since the shell's
only grows while it lives). The step proof follows `Next`: the shell's steps, then
those of processes. `WriteEndsClosed` follows from `WriteEndsInv`: a write
end in the shell is `pipe_fd[1]`, between `pipe` and the close after `fork`.

`ChildIsWired` speaks of a child at one moment; that its numbers are right then was decided
when the shell called `pipe` for this command and for the one before. `PipeNumbersInv` says which
descriptors `last_pipe_fd` and `pipe_fd` may name at each `pc`: the read end that is kept is
open in the shell under its number, which may be 0, the current pipe has other numbers than that and both
its ends open, while `last_pipe_fd[1]` may be any number but 1, even one in use again. No number
is 1, because the shell never loses its standard output (`BuiltinKeepsStdout`: `dup2` fails on it only where standard input is
closed, and then the backup has just taken 0). The proof runs the three or four
`dup2` and `close` of the child one after the other on such a table.

`RunsTheLine` needs `ForegroundInv`: the child the shell waits for was forked for the current
command, which is neither piped nor in the background, and what it leaves as its status is an outcome of that command.
With it each action is mapped by `AbstractSteps`: starting a command to `Start`, the
`waitpid` that gets the foreground child to `Finish`, everything other processes do to
a stutter (`OthersLeaveForeground`).

**The hash table** (any keys, addresses, values and literals, any hash of the keys, any
power of two up to 65536 as the first length and as the bound of growth; `HashAssumption`,
`LenAssumption`, `PointersAssumption`). No single claim about the chains is inductive: a chain is what
a walk meets, and the walk goes by `next` pointers that a growth leaves as they
were. `IInv` has two tiers. Whatever has gone stale, as long as nothing undefined
happened the table is `Sound`: the count of the table is the sum of the slots' and the
number of items, and each value the table owns is held by one item. While no tail
was ever stale it is `Orderly`: there is an assignment of addresses to places (a slot and a
position) in which each place leads to the next (`Chained`), none occurs twice
(`Apart`), the tails are the last ones (`Ends`) and every item occurs; and no two
items have the same key. `Sound` is needed beside `Orderly` because the table becomes a
dictionary again when it is created anew. What is specific here:

* Chains, the walk of a whole table and the growth are recursive functions. What they
  compute is proved from the least position at which the claim would fail
  (`ChainIs`, `FlattenIs`, `GrowthMoves`): `MinIsLeast` of `PshNumbers` stands for induction.
* `AllVisited`: a walk over a sound table that meets only items, each once, meets them
  all, since it is as long as there are items. So a growth that is followed at all keeps
  every item (`GrownIsSound`), stale tails or not.
* `RemovalKeepsChains`: after a removal the places behind the item move up by one. If it was
  the last of a chain the tail is stale and nothing is claimed; the
  shared slots are where `PshMap` gives up its promise.
* `SlotsNest`: keys that share a slot share it in every shorter table, so `Clash` can be
  stated for the first length.

**The parser** (any lines and continuations, any positive `MaxBuf`, `MAXARG` and
`MAXEACHARG`; `LinesAssumption`, `SizesAssumption`, by which `argv` has room for at least one
pointer). `ParserInv` has the list well formed all along (`ListOK`) and `Open` while it is being
filled: only its last command is without a separator. Each macro of the code is one
lemma (`WriteFine`, `ResumeFine`, `DoneFine`...) and so is each case of the switch; what a step ends in
is `Fine`: the invariant, and a position further on. `NonBlankFound` and `RunEnds` say where the
loops inside a case stop.

`GoesWrongForAReason` is about the moment at which something goes wrong; `ReasonInv` is what must be
true before. A target other than an argument has its `>` behind the scan (`RedirSeen`).
A command with one empty argument has had no word since its separator, or the scan
stands on the blank a `;` may leave it on (`StillBare`): so the separator that empties it is
one without a word before it. Its arguments are no more than the blanks, and
none is longer than what was scanned, with `$` counted twice and the backquote three
times (`Fits`): so an overflow needs as many. And a backslash before
the NUL that is not stepped over came after `>&` (`EscapedEnd`). The words of a line are no
fewer when the line grows (`WordlessStays`), the counts neither (`WeightGrows`). The
proof is by the same cases as `ParserInv`, on top of which it stands.

`ParsesPlainLines` compares the list at the end with what the tokens of the line stand for; `PlainInv`
compares them after every step, with the tokens of the characters read so far (`Matches`). The two
lists are seldom equal on the way, so `PlainInv` says by how much they differ. An argument in
the list may have one NUL behind its word (`Holds`): a blank writes one, a separator after it leaves it, and `done:`
writes another, which is why a word needs room for two. Behind a blank or a
separator the list has an empty argument of which the tokens know nothing yet (`Standing`);
the next word fills it, and a separator takes it back (`TakenBackAgrees`). The last argument has
no NUL yet, or the next character would come behind it. All this is claimed only while what was read
is the beginning of a plain line (`Good`). That is a property of the prefix: every prefix of a plain line
has it (`GoodGoesBack`), and it stays as it is when the line grows by a continuation
(`GoodInLonger`). Besides that, `Plain` looks ahead, at the last operator and at what follows a `|`;
these parts rule out the steps that ask for another line, or read past it, where the line is complete
(`EndsInOperator`, `BarPlain`). That `Lexed` and `Assembly` compute what they say is `Recursion` of
`PshNumbers`.

**The input** (any prompts, texts put into them, lines, aliases and length of the first buffer;
`PromptsAssumption`; `DateAssumption`: a weekday and a month of three characters and a
day of one or two digits, as in the C locale; `ClockAssumption`: the time of
day is not an empty text; `TextsAssumption`; `ChunkAssumption`, `LinesAssumption`,
`AliasAssumption`). `PromptInv` says
where the scan stands when a round begins: on a character before the last NUL of the
copy, the counted piece behind `start` and before it; and where the digits of `\nnn` are,
since `Octal` steps back over them. One lemma per case of the switch
(`PshPromptProofs`) keeps it. `ReadInv` has the buffer fresh outside `psh_fgets`, and
inside it full of what was typed so far as long as it is not stale, which it
only is once the first buffer was full: `ReadFits` and `LineIsWhole` follow, and neither is
inductive alone.

`PromptMeansPs1` compares the loop of `ps_expander` with `Meaning`, a recursion over `PS1` from its end.
`MeansInv` says what the loop has kept (`Standing`): from `start` on the copy is as `PS1`, and what
the pieces in the builder say, then the counted characters, then the meaning of the rest of `PS1`, is the
meaning of `PS1` (`Meant`). The rest begins at `start + count`, which is the character the scan
stands on, or the backslash before it, or the backslash up to two digits before it (`Placed`): that is
what the six ways of counting a piece must agree on. The meanings of the
rests exist for every `PS1` (`MeansExist`, from the least rest that would have none), and each case of
`Meaning` is what the case of the switch hands over (`HandsOver` for a character in the place of a
backslash, `HandsOverText` for a text behind the piece). Of an empty `PS1`, whose NUL the loop
steps over, it keeps that the first piece begins with this NUL (`BehindNul`). `DateIsDate` is
the patch of the ninth character of the date, `NumberIs` and `FormatIs` that the digits and the format
found in the copy are those of `PS1`.

`ParserGetsTheLine` compares the loop of `expand_alias` with a recursion over the aliases.
`AliasInv` says where the loop is: there is a chain of first words from that of the line to that of
the text, each the first word of the alias before it, and the text is what is left of the line behind
what the aliases put before it (`Chain`; one round makes it longer by a word, `ReplaceChain`). When the last
word is no alias, no word is in the chain twice, or it would go round for ever; so the chain is no longer
than there are aliases (`ChainIsShort`), which is how deep the recursion looks, and the recursion
along it gives the text (`WordsAreTheChain`, `ChainSubstitutes`).

**Remembered commands** (any directory tree, commands, `PATH` and number of changes;
`PathAssumption`). `FoundInv`: while a command counts as found its remembered
path leads to the first file of its name in `PATH` (`FoundAreFirst`), a job that executes a
command that counts has that path (`JobHasThePath`), and one whose `execv` failed found no program
there (`FailedDoNotRun`). That `psh_search_path` finds what is there rests on
`MinIsLeast` of `PshNumbers`; that `cd` keeps absolute paths true on `AbsolutePathsStay`.

**Where the shell is** (any finite set of directories, any tree on it with links, any
characters that include `/`, `.` and `-`, any environments, `HOME`, arguments and number of
changes; `DirsAssumption`, `CharsAssumption`, `NamesAssumption`, `TreesAssumption`,
`TextsAssumption`, `EnvironsAssumption`). `PathsInv` has three parts. `TypeOK` alone is not
kept: that what `getcwd` returns is a path of the working directory, and ends, needs
`Rooted` (the directories that are there have heights), which a renaming
keeps only because no directory is moved below itself: the heights below it are shifted
(`RenameKeepsTree`). `PwdHolds` is what `PwdNamesCwd` says, and that a `PWD` that can
be relied on is absolute; `PwdNamesCwd` is not inductive without it, as a relative `PWD` would lead elsewhere
after `chdir`. The proofs about texts:

* `CanonicalTextIsNormal`: `canonicalize_path` is related to the parts of its text
  by what holds between two rounds (`BetweenParts`): the buffer is the join of what `.` and
  `..` leave of the parts read so far, with a slash behind, and `xpath` is at
  the end of a part or behind a slash. A round that copies, skips or steps back takes the one
  state to the next; that the loop is over after as many rounds as there are
  characters follows from the least round at which it would not be.
* `PartsOfConcat`: the parts of `base/t` are those of `base`, then those of `t`. So a relative
  path is walked from where `PWD` leads (`WalkConcat`).
* `NormLeads`: over a text without `..` taking `.` away leads to the same directory. Over `..` it
  does not, and links are why; so `CdGoesThere` is about texts without it.

**Variables** (any names, strings, values and depth of the stack; `ValuesAssumption`,
`SlotsAssumption`). `VarsInv` has owners and strings one to one (`OwnersInv`): a
readable container has a string that is there, no two have the same, every string
has one. It also needs that no container of the root context is marked as unset
(`RootInv`), from which a double free is always that of an inner context. What
`psh_vf_set` and `psh_vf_unset` do to one container is one lemma (`OwnersKept`); leaving a
context and the end of the shell free all strings of their tables. That a look-up finds what was
set is `PlaceFacts`: no context above the one `psh_vf_set` stores in has the name; that it
leaves the other names as they were (`OthersKeepValue`) rests on the one owner of a string.

Only model-checked: `AsksAgain`, `ForegroundReturns` and `WritersEndOrShellKeepsPipe`
(liveness is out of the prover's reach).

## 5. Not modelled

See `components` in `PROJECT.json` for each part.

* Failures that the state of the model does not decide: `dup2` interrupted or busy (the child
  then ends with `_Exit(1)`, run.c:288 and 298), and a directory that may not be entered, or any
  other error of `chdir` than that there is none. What a hash table does to the aliases after an
  `unalias` is in `PshHash` (`TailIsLast`); `PshLine` has the dictionary.
* Pure output (`echo`, `help`, what `alias` and `hash` print) and readline with its history:
  outside the repository, or formatting. `PshPrompt` is the build without readline; with it
  `\[` and `\]` are replaced by one character each. The warning of the cases `\j`, `\l`,
  `\!` and `\#` of `ps_expander` is left out; it comes without a backslash before them, too.
* Start-up and signals: option parsing, `misc_impl.c`'s wrappers, and the signal handlers,
  which only store a number nobody reads. Of the environment `PshPaths` has `PWD` and
  `OLDPWD`; `psh_backend_get_all_env` splits an entry at its last `=`.
* Redirection kinds that exist in `run.c` but that the parser never produces:
  `filpinfo` sets neither `rhs.fd` nor a file name, so `>&n`
  duplicates descriptor 0 and `> file` opens a null name. A line has one
  redirection, kept on its first command: `filpinfo` never moves `redir_lastnode`,
  and a second one ends the shell with a programming error. `~` in `filpinfo` (home
  directories), and what the shell does after it followed a bad pointer.
* Who owns the strings that `cd` exchanges, and the kinds of variables nothing in `src/`
  creates (arrays, code, references).

Where the code disagrees with its comments and no run is about it: `\n` in `PS1` is a line feed and
not CRLF (prompts.c:28, 365); `\j`, `\l`, `\!` and `\#` have a meaning in the comment (prompts.c:26-27,
41-42) and are shown as they stand (516-521); `\w` shows `/home/ab` as `~b` if `HOME` is
`/home/a`, where the comment of prompts.c:90 takes a slash for granted; a line that fills the first buffer of
`psh_fgets` does not arrive whole (include/libpsh/util.h:31).

Seen while modelling, and in no run, as the repository does not say otherwise: the raw wait
status is the exit status of the shell at the end of input; a forked `exit` hangs up
the jobs of its parent; background children stay zombies for the life of the shell;
`psh_hash_rm` frees a value regardless of `if_free`; `\W` leaves `/x` as it is; a file
of a command's name that is no program hides the program in a later element of `PATH`.

## 6. Plan

What is left, most important first:

1. Start-up: the environment entry by entry into `PshVars`, the options.
2. `psh_getstring` as a protocol of growing buffers with an answer that changes in between.
