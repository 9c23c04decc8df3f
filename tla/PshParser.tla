------------------------------ MODULE PshParser -----------------------------
(***************************************************************************)
(* The parser of psh: filpinfo (src/filpinfo.c) scans a line once and      *)
(* fills a list of commands.  One action per case of its switch; `at` is   *)
(* cnt_buffer when the switch is entered.                                  *)
(*                                                                         *)
(* A character stands for those the switch treats alike: "a" for the       *)
(* default case, "sp" for blanks; "dq", "bq" and "semi" are ", ` and ;.    *)
(* ~ is left out.                                                          *)
(***************************************************************************)
EXTENDS Integers, FiniteSets, SequencesExt

CONSTANTS
    Lines,          \* lines main hands to filpinfo
    MoreLines,      \* continuation lines
    MaxBuf,         \* bound on the length of the buffer: no more is asked for
    MaxArg,         \* MAXARG
    PtrBytes,       \* sizeof(char *)
    MaxEachArg      \* MAXEACHARG

Digits == {"1", "2"}
Chars == Digits \cup {"a", "sp", "'", "dq", "bs", "&", "|", "semi", ">", "#", "$", "bq"}
Nul == "NUL"

ASSUME LinesAssumption == Lines \cup MoreLines \subseteq Seq(Chars)
ASSUME SizesAssumption ==
    /\ {MaxBuf, MaxArg, PtrBytes, MaxEachArg} \subseteq Nat \ {0}
    /\ PtrBytes <= MaxArg      \* argv has room for a pointer

VARIABLES
    buf,        \* buffer, without its NUL
    at,         \* cnt_buffer
    quote,      \* stat_in_squote, stat_in_dquote
    target,     \* stat_parsing_redirect: "argv", "fd" or "file"
    cmds,       \* the list info heads; cmd_lastnode is the last of it
    redir,      \* info->rlist, the redirection of the first command
    old,        \* cnt_old_parameter
    wrote,      \* cnt_return > 0
    torn,       \* a quote went on in another line (filpinfo does not note it)
    fate        \* how it went

text == <<buf, at>>
list == <<cmds, redir>>
vars == <<buf, at, quote, target, cmds, redir, old, wrote, torn, fate>>

(* "stray": read past the NUL; "null": followed a null pointer;            *)
(* "underflow", "overflow": outside argv; "fault": code_fault.             *)
Broken == {"stray", "null", "underflow", "overflow", "fault"}
Fates == {"start", "scan", "parsed", "error"} \cup Broken

Types == {"SINGLE", "BACKGROUND", "PIPED", "RUN_AND", "RUN_OR", "MULTICMD"}

(* new_command: argv has MaxArg * sizeof(char) bytes, and one argument.  A *)
(* command whose argv[0] was freed has no argument.                        *)
Slots == MaxArg \div PtrBytes
NewCommand == [type |-> "SINGLE", argv |-> << <<>> >>]

-----------------------------------------------------------------------------
(* The text *)

CharAt(n) == IF n < Len(buf) THEN buf[n + 1] ELSE Nul

(* ignore_IFSs(b, n) is -5, or one less than NonBlank(b, n). *)
AtEnd(b, n) == \A m \in n + 1 .. Len(b) : b[m] = "sp"
NonBlank(b, n) ==
    CHOOSE m \in n .. Len(b) - 1 :
        b[m + 1] # "sp" /\ \A l \in n .. m - 1 : b[l + 1] = "sp"

First == NonBlank(buf, 0)
Before == IF at = 0 THEN Nul ELSE CharAt(at - 1)
Escape == Before = "bs"
Ignore == quote # "none" \/ Escape

Scan(S) == fate = "scan" /\ CharAt(at) \in S
Fail(f) == fate' = f /\ UNCHANGED <<buf, at, quote, target, cmds, redir, old, wrote, torn>>
Next1 == at' = at + 1 /\ UNCHANGED <<buf, fate>>

-----------------------------------------------------------------------------
(* The command being filled *)

Args(c) == Last(c).argv
WithArgs(c, a) == [c EXCEPT ![Len(c)].argv = a]

(* cnt_argument_char *)
ArgChar == IF Args(cmds) = <<>> THEN old ELSE Len(Last(Args(cmds)))

(* write_char(x), n times, in list c *)
Written(c, x, n) ==
    LET a == Args(c)
        new == Last(a) \o [m \in 1 .. n |-> x]
    IN  WithArgs(c, [a EXCEPT ![Len(a)] = new])
(* Slip: the terminating NUL is not counted. *)
WritableOneMore(c, n) == Args(c) # <<>> /\ Len(Last(Args(c))) + n <= MaxEachArg + 1

Writable(c, n) == Args(c) # <<>> /\ Len(Last(Args(c))) + n <= MaxEachArg
WriteFailure(c) == IF Args(c) = <<>> THEN "underflow" ELSE "overflow"

(* done: *)
Done(c) ==
    IF wrote /\ ~Writable(c, 1) THEN Fail(WriteFailure(c))
    ELSE /\ cmds' = IF wrote THEN Written(c, Nul, 1) ELSE c
         /\ fate' = "parsed"
         /\ UNCHANGED <<buf, at, quote, target, redir, old, wrote, torn>>

(* write_current(), n times, and on to the next character *)
Write(n) ==
    LET x == CharAt(at)
    IN  CASE target = "argv" /\ ~Writable(cmds, n) -> Fail(WriteFailure(cmds))
          [] target = "fd" /\ x \notin Digits -> Fail("error")
          [] OTHER ->
                /\ cmds' = IF target = "argv" THEN Written(cmds, x, n) ELSE cmds
                /\ wrote' = (wrote \/ (n > 0 /\ x # "sp"))
                /\ Next1
                /\ UNCHANGED <<quote, target, redir, old, torn>>

(* "Previously a blank reached": the argument begun after it is taken back *)
TakenBack == IF ArgChar = 0 THEN Front(Args(cmds)) ELSE Args(cmds)
FreesNothing == ArgChar = 0 /\ Args(cmds) = <<>>

(* Slip: an argument begun after a blank is not taken back. *)
SeparatedKeepingBlank(t) == Append([cmds EXCEPT ![Len(cmds)].type = t], NewCommand)

(* Slip: the type of the command before the separator is not set. *)
SeparatedUntyped(t) == Append(WithArgs(cmds, TakenBack), NewCommand)

(* The list once a separator ends the current command *)
Separated(t) ==
    Append([WithArgs(cmds, TakenBack) EXCEPT ![Len(cmds)].type = t], NewCommand)

(* Slip: the scan resumes at the separator. *)
ResumeInPlace(c, b, n) ==
    IF AtEnd(b, n) THEN Done(c)
    ELSE /\ cmds' = c /\ buf' = b
         /\ UNCHANGED <<at, quote, target, redir, old, wrote, torn, fate>>

(* ignIFS_from_next_char() and ++cnt_buffer, n being the next char of b    *)
Resume(c, b, n) ==
    IF AtEnd(b, n) THEN Done(c)
    ELSE /\ cmds' = c /\ buf' = b /\ at' = NonBlank(b, n)
         /\ UNCHANGED <<quote, target, redir, old, wrote, torn, fate>>

(* psh_gets("> ") returns a line, which is appended, or NULL at the end of *)
(* the input.                                                              *)
Appended == {buf \o more : more \in {l \in MoreLines : Len(buf) + Len(l) <= MaxBuf}}
NoMoreLines == Fail("null")

(* The list c, and the scan at n of a longer buffer *)
ResumeInMore(c, n) == NoMoreLines \/ \E b \in Appended : Resume(c, b, n)

-----------------------------------------------------------------------------
(* The cases of the switch *)

Init ==
    /\ buf \in Lines
    /\ at = 0
    /\ quote = "none" /\ target = "argv"
    /\ cmds = <<NewCommand>>
    /\ redir = [type |-> "NONE", lhs |-> 0]
    /\ old = 0 /\ wrote = FALSE /\ torn = FALSE
    /\ fate = "start"

Begin ==
    /\ fate = "start"
    /\ IF AtEnd(buf, 0) THEN Done(cmds)
       ELSE /\ at' = First /\ fate' = "scan"
            /\ UNCHANGED <<buf, quote, target, list, old, wrote, torn>>

Toggle(q) ==
    /\ quote' = IF quote = q THEN "none" ELSE q
    /\ Next1
    /\ UNCHANGED <<target, list, old, wrote, torn>>

SingleQuote ==
    /\ Scan({"'"})
    /\ \/ quote = "single" /\ Toggle("single")
       \/ quote = "none" /\ (at = First \/ ~Escape) /\ Toggle("single")
       \/ quote = "none" /\ at # First /\ Escape /\ Write(1)
       \/ quote = "double" /\ Write(1)

DoubleQuote ==
    /\ Scan({"dq"})
    /\ \/ quote # "single" /\ ~Escape /\ Toggle("double")
       \/ (quote = "single" \/ Escape) /\ Write(1)

Blank ==
    /\ Scan({"sp"})
    /\ \/ Ignore /\ Write(1)
       \/ ~Ignore /\ AtEnd(buf, at) /\ Done(cmds)
       \/ /\ ~Ignore /\ ~AtEnd(buf, at)
          /\ IF ~Writable(cmds, 1) THEN Fail(WriteFailure(cmds))
             ELSE IF Len(Args(cmds)) >= Slots THEN Fail("overflow")
             ELSE LET c == Written(cmds, Nul, 1)
                  IN  /\ cmds' = WithArgs(c, Append(Args(c), <<>>))
                      /\ old' = Len(Last(Args(c)))
                      /\ at' = NonBlank(buf, at)
                      /\ UNCHANGED <<buf, quote, target, redir, wrote, torn, fate>>

(* Slip: the look-ahead of a single | for && and ||, one character late. *)
AndOrLate(t) ==
    LET c == Separated(t)
    IN  IF AtEnd(buf, at + 3)
        THEN ResumeInMore(c, at + 2)
        ELSE Resume(c, buf, at + 2)

(* && and ||: what follows may come on another line. *)
AndOr(t) ==
    LET c == Separated(t)
    IN  IF AtEnd(buf, at + 2)
        THEN ResumeInMore(c, at + 2)
        ELSE Resume(c, buf, at + 2)

Ampersand ==
    /\ Scan({"&"})
    /\ \/ Ignore /\ Write(1)
       \/ ~Ignore /\ FreesNothing /\ Fail("underflow")
       \/ /\ ~Ignore /\ ~FreesNothing /\ AtEnd(buf, at + 1)
          /\ Done(Front(Separated("BACKGROUND")))
       \/ /\ ~Ignore /\ ~FreesNothing /\ CharAt(at + 1) = "&"
          /\ AndOr("RUN_AND")
       \/ /\ ~Ignore /\ ~FreesNothing /\ ~AtEnd(buf, at + 1) /\ CharAt(at + 1) # "&"
          /\ Resume(Separated("BACKGROUND"), buf, at + 1)

(* For a single | the look-ahead starts one character too late. *)
Bar ==
    /\ Scan({"|"})
    /\ \/ Ignore /\ Write(1)
       \/ ~Ignore /\ FreesNothing /\ Fail("underflow")
       \/ /\ ~Ignore /\ ~FreesNothing /\ CharAt(at + 1) = "|"
          /\ AndOr("RUN_OR")
       \/ ~Ignore /\ ~FreesNothing /\ CharAt(at + 1) = Nul /\ Fail("stray")
       \/ /\ ~Ignore /\ ~FreesNothing /\ CharAt(at + 1) \notin {"|", Nul}
          /\ IF AtEnd(buf, at + 2)
             THEN ResumeInMore(Separated("PIPED"), at + 1)
             ELSE Resume(Separated("PIPED"), buf, at + 1)

(* A line that ends with ;: done: writes to the command before it, to a    *)
(* null pointer if the argument there was taken back.                      *)
DoneAtSemicolon(c) ==
    IF wrote /\ ArgChar = 0 THEN Fail("null")
    ELSE IF wrote /\ ~Writable(cmds, 1) THEN Fail(WriteFailure(cmds))
    ELSE /\ cmds' = c /\ fate' = "parsed"
         /\ UNCHANGED <<buf, at, quote, target, redir, old, wrote, torn>>

(* What is behind the character that is scanned *)
Rest == {CharAt(n) : n \in at + 1 .. Len(buf) - 1}

(* A quoted ; is written and then taken for a separator without a next     *)
(* command: cmd_lastnode is NULL from there on.  Whatever is written then, *)
(* at the latest by done:, follows it, unless a > stops the scan first, or *)
(* nothing is written before a backslash at the end, or an open quote that *)
(* an empty line is read for, takes the scan past the NUL.  (Which quotes  *)
(* are open at the end is left open.)                                      *)
AfterLost ==
    {"null"}
    \cup (IF ">" \in Rest
          THEN {IF redir.type = "NONE" THEN "error" ELSE "fault"} ELSE {})
    \cup (IF /\ target = "argv" => Rest \subseteq {"sp", "semi", "'", "dq", "bs"}
             /\ Last(buf) = "bs" \/ quote # "none" \/ Rest \cap {"'", "dq"} # {}
          THEN {"stray"} ELSE {})

Semicolon ==
    /\ Scan({"semi"})
    /\ \/ Ignore /\ target = "fd" /\ Fail("error")
       \/ Ignore /\ target = "argv" /\ ~Writable(cmds, 1) /\ Fail(WriteFailure(cmds))
       \/ /\ Ignore /\ (target = "argv" => Writable(cmds, 1)) /\ target # "fd"
          /\ \E f \in AfterLost : Fail(f)
       \/ ~Ignore /\ FreesNothing /\ Fail("underflow")
       \/ /\ ~Ignore /\ ~FreesNothing
          /\ LET c == Separated("MULTICMD")
                 n == NonBlank(buf, at + 2) - 1
             IN  IF AtEnd(buf, at + 1) THEN DoneAtSemicolon(c)
                 ELSE IF AtEnd(buf, at + 2) THEN Done(c)
                 ELSE /\ cmds' = c
                      /\ at' = CHOOSE m \in n .. Len(buf) :
                                    /\ CharAt(m) # "semi"
                                    /\ \A l \in n .. m - 1 : CharAt(l) = "semi"
                      /\ UNCHANGED <<buf, quote, target, redir, old, wrote, torn, fate>>

(* A run of backslashes: every second one is written.  The scan of a run   *)
(* at the end of the line goes past the NUL.                               *)
Backslash ==
    /\ Scan({"bs"})
    /\ LET stop == CHOOSE m \in at + 1 .. Len(buf) :
                        /\ CharAt(m) # "bs"
                        /\ \A l \in at .. m - 1 : CharAt(l) = "bs"
           n == (stop - at) \div 2
       IN  CASE n > 0 /\ target = "argv" /\ ~Writable(cmds, n) -> Fail(WriteFailure(cmds))
             [] n > 0 /\ target = "fd" -> Fail("error")
             [] stop = Len(buf) -> Fail("stray")
             [] OTHER ->
                   /\ cmds' = IF n > 0 /\ target = "argv"
                              THEN Written(cmds, "bs", n) ELSE cmds
                   /\ wrote' = (wrote \/ n > 0)
                   /\ at' = stop
                   /\ UNCHANGED <<buf, quote, target, redir, old, torn, fate>>

(* The end of the buffer; in a quote more is asked for, and its first      *)
(* character skipped.                                                      *)
EndOfBuffer ==
    /\ Scan({Nul})
    /\ \/ (at = First \/ ~Ignore) /\ Done(cmds)
       \/ /\ at # First /\ Ignore
          /\ \/ NoMoreLines
             \/ buf \in Appended /\ Fail("stray")
             \/ /\ buf' \in Appended \ {buf} /\ at' = at + 1 /\ torn' = TRUE
                /\ UNCHANGED <<quote, target, list, old, wrote, fate>>

(* The number before >, not counting the first character of the line;      *)
(* without one, atoi is given "\1" and not "1".                            *)
LhsFd ==
    LET from == CHOOSE m \in 0 .. at :
                    /\ \A l \in m .. at - 1 : CharAt(l) \in Digits /\ l > First
                    /\ m = 0 \/ m - 1 <= First \/ CharAt(m - 1) \notin Digits
        value[m \in from .. at] ==
            IF m = from THEN 0
            ELSE 10 * value[m - 1] + (IF CharAt(m - 1) = "1" THEN 1 ELSE 2)
    IN  value[at]

(* > and >>: x is what follows them, o tells them apart. *)
Redirected(t, o) ==
    LET x == CharAt(at + 1 + o)
        atStart == at = First
        r == [type |-> t, lhs |-> IF atStart THEN 1 ELSE LhsFd]
        Into(goal, n) ==
            /\ cmds' = IF atStart THEN cmds ELSE WithArgs(cmds, TakenBack)
            /\ redir' = r /\ target' = goal /\ at' = n
            /\ UNCHANGED <<buf, quote, old, wrote, torn, fate>>
    IN  IF ~atStart /\ FreesNothing THEN Fail("underflow")
        ELSE IF x \in {"&", "sp", "|"}
        THEN IF AtEnd(buf, at + 2 + o) THEN Fail("error")
             ELSE Into(IF x = "&" THEN "fd" ELSE "file", at + 3 + o)
        ELSE IF x \in {">", Nul} THEN Fail("error")
        ELSE Into("file", at + 1 + o)

Redirect ==
    /\ Scan({">"})
    /\ LET x == CharAt(at + 1)
       IN  \/ Ignore /\ Write(1)
           \/ /\ ~Ignore /\ redir.type # "NONE"
              /\ Fail(IF x = ">" /\ at # First /\ FreesNothing
                      THEN "underflow" ELSE "fault")
           \/ ~Ignore /\ redir.type = "NONE" /\ x = Nul /\ Fail("error")
           \/ /\ ~Ignore /\ redir.type = "NONE" /\ x # Nul
              /\ CASE x = ">" -> Redirected("OUT_APPN", 1)
                   [] x = "&" -> Redirected("FD2FD", 0)
                   [] OTHER -> Redirected("OUT_REDIR", 0)

(* $ falls through to (, the backquote to both: in a single quote or after *)
(* a backslash they are written twice and three times.                     *)
Dollar ==
    /\ Scan({"$", "bq"})
    /\ LET literal == quote = "single" \/ Escape
       IN  Write(IF ~literal THEN 1 ELSE IF CharAt(at) = "$" THEN 2 ELSE 3)

(* After a blank, in a quote or not, # ends the line. *)
Hash ==
    /\ Scan({"#"})
    /\ \/ (at = First \/ Before # "sp") /\ Write(1)
       \/ /\ at # First /\ Before = "sp"
          /\ IF FreesNothing THEN Fail("underflow")
             ELSE Done(WithArgs(cmds, TakenBack))

Ordinary == Scan({"a"} \cup Digits) /\ Write(1)

Next ==
    \/ Begin
    \/ SingleQuote \/ DoubleQuote \/ Blank \/ Ampersand \/ Bar \/ Semicolon
    \/ Backslash \/ EndOfBuffer \/ Redirect \/ Dollar \/ Hash \/ Ordinary

Spec == Init /\ [][Next]_vars

-----------------------------------------------------------------------------
(* Properties *)

Over == fate \notin {"start", "scan"}

(* The scan never enters its switch behind the NUL, and stores nothing     *)
(* outside an argument or the argument vector.                             *)
TypeOK ==
    /\ buf \in Seq(Chars)
    /\ at \in 0 .. Len(buf)
    /\ quote \in {"none", "single", "double"}
    /\ target \in {"argv", "fd", "file"}
    /\ \A n \in DOMAIN cmds :
        /\ cmds[n].type \in Types
        /\ Len(cmds[n].argv) <= Slots
        /\ \A m \in DOMAIN cmds[n].argv :
            cmds[n].argv[m] \in Seq(Chars \cup {Nul}) /\ Len(cmds[n].argv[m]) <= MaxEachArg
    /\ redir.type \in {"NONE", "FD2FD", "OUT_REDIR", "OUT_APPN"}
    /\ old \in 0 .. MaxEachArg
    /\ {wrote, torn} \subseteq BOOLEAN /\ fate \in Fates

(* Every step of the scan takes it further: the cases that step back       *)
(* (ignore_IFSs returns --count, ; and \ step back before the loop steps on) *)
(* never undo a whole step, so filpinfo returns.                           *)
ScanMovesOn == [][fate = "scan" /\ fate' = "scan" => at' > at]_vars

(* The list do_run gets: each command but the last one has the separator   *)
(* that follows it for a type; the last one has none or &.                 *)
ListFitsTheRunner ==
    fate = "parsed" =>
        /\ \A n \in 1 .. Len(cmds) - 1 : cmds[n].type # "SINGLE"
        /\ Last(cmds).type \in {"SINGLE", "BACKGROUND"}

(* The tokens of a line of words, quotes, & and |: characters are gathered *)
(* into words; a blank or an operator ends one; two equal operators in a   *)
(* row are one.  glue is what the next character may be added to.          *)
Tok(k, t) == [kind |-> k, text |-> t]
Doubled(x) == IF x = "&" THEN "&&" ELSE "||"
Grown(l, s) ==
    [quote |-> l.quote, glue |-> "word",
     toks |-> IF l.glue = "word"
              THEN Append(Front(l.toks), Tok("word", Last(l.toks).text \o s))
              ELSE Append(l.toks, Tok("word", s))]
LexChar(l, x) ==
    CASE l.quote = x -> [l EXCEPT !.quote = "none"]
      [] l.quote \notin {"none", x} -> Grown(l, <<x>>)
      [] l.quote = "none" /\ x \in {"'", "dq"} -> [Grown(l, <<>>) EXCEPT !.quote = x]
      [] l.quote = "none" /\ x = "sp" -> [l EXCEPT !.glue = ""]
      [] l.quote = "none" /\ x \in {"&", "|"} ->
            IF l.glue = x
            THEN [quote |-> "none", glue |-> "",
                  toks |-> Append(Front(l.toks), Tok(Doubled(x), <<>>))]
            ELSE [quote |-> "none", glue |-> x, toks |-> Append(l.toks, Tok(x, <<>>))]
      [] OTHER -> Grown(l, <<x>>)

(* Lexed(b)[n] is what the first n characters of b give. *)
Lexed(b) ==
    LET l[n \in 0 .. Len(b)] ==
            IF n = 0 THEN [quote |-> "none", glue |-> "", toks |-> <<>>]
            ELSE LexChar(l[n - 1], b[n])
    IN  l
Lex(b) == Lexed(b)[Len(b)]

TypeOf(k) == CASE k = "&" -> "BACKGROUND" [] k = "&&" -> "RUN_AND"
               [] k = "|" -> "PIPED" [] k = "||" -> "RUN_OR"
Assembled(c, t) ==
    IF t.kind = "word" THEN [c EXCEPT ![Len(c)].argv = Append(@, t.text)]
    ELSE Append([c EXCEPT ![Len(c)].type = TypeOf(t.kind)],
                [type |-> "SINGLE", argv |-> <<>>])
Assembly(toks) ==
    LET c[n \in 0 .. Len(toks)] ==
            IF n = 0 THEN <<[type |-> "SINGLE", argv |-> <<>>]>>
            ELSE Assembled(c[n - 1], toks[n])
    IN  c[Len(toks)]
Meaning(b) ==
    LET c == Assembly(Lex(b).toks)
    IN  IF Last(c).argv = <<>> THEN Front(c) ELSE c

(* The lines filpinfo has to get right: each operator between words that   *)
(* are not empty, quotes closed, within the sizes of argv.  Left out is    *)
(* `a|b` at the end of the line, for which filpinfo reads another line.    *)
Plain(b) ==
    LET toks == Lex(b).toks
        isOp(n) == toks[n].kind # "word"
    IN  /\ Range(b) \subseteq Digits \cup {"a", "sp", "'", "dq", "&", "|"}
        /\ Lex(b).quote = "none" /\ toks # <<>>
        /\ \A n \in DOMAIN toks :
            /\ isOp(n) => n > 1 /\ ~isOp(n - 1) /\ toks[n - 1].text # <<>>
            /\ isOp(n) /\ n = Len(toks) => toks[n].kind = "&"
            /\ Len(toks[n].text) + 2 <= MaxEachArg
        /\ \A n \in DOMAIN Meaning(b) : Len(Meaning(b)[n].argv) < Slots
        /\ ~\E n \in DOMAIN b : Lexed(b)[n].glue = "|" /\ AtEnd(b, n + 1)

(* What the rest of the shell reads of an argument: up to its NUL *)
CString(a) == SubSeq(a, 1, Min({n - 1 : n \in {m \in DOMAIN a : a[m] = Nul}} \cup {Len(a)}))
Shown == [n \in DOMAIN cmds |->
            [type |-> cmds[n].type,
             argv |-> [m \in DOMAIN cmds[n].argv |-> CString(cmds[n].argv[m])]]]

(* A plain line is parsed into its commands, words and separators:         *)
(* quoting, blanks before separators (undone through cnt_old_parameter)    *)
(* and continuations after && and || neither lose nor add anything.  (A    *)
(* quote that goes on in another line loses its first character.)          *)
ParsesPlainLines ==
    Over /\ Plain(buf) /\ ~torn =>
        fate = "parsed" /\ Shown = Meaning(buf) /\ redir.type = "NONE"

(* The end of the line where more is expected: in a quote, after a         *)
(* backslash, && or ||, after a | (or a | and one character).              *)
Unfinished ==
    \/ quote # "none" \/ Last(buf) = "bs"
    \/ \E n \in 2 .. Len(buf) : buf[n - 1] = "&" /\ buf[n] = "&" /\ AtEnd(buf, n)
    \/ \E n \in 1 .. Len(buf) : buf[n] = "|" /\ AtEnd(buf, n + 1)

(* No word between m and n: blanks, quotes and backslashes are none; nor   *)
(* is what filpinfo skips when a quote goes on in another line, nor        *)
(* anything behind a >, since the name of its file never ends.             *)
NoWord(m, n) ==
    \A l \in m + 1 .. n - 1 :
        \/ buf[l] \in {"sp", "'", "dq", "bs"}
        \/ torn /\ \E q \in m + 1 .. l - 1 : buf[q] \in {"'", "dq"}
        \/ \E q \in 1 .. l - 1 : buf[q] = ">"

(* A separator, > or # with no word between it and the one before it       *)
WordlessCommand ==
    \E m \in 0 .. Len(buf), n \in 1 .. Len(buf) :
        /\ m < n /\ buf[n] \in {"&", "|", "semi", ">", "#"}
        /\ m = 0 \/ buf[m] \in {"&", "|", "semi"}
        /\ NoWord(m, n)

Count(b, S) == Cardinality({n \in DOMAIN b : b[n] \in S})

(* filpinfo goes wrong only on these lines: one that ends in a backslash,  *)
(* in |, or in an open quote after which nothing comes; one with an        *)
(* escaped ; before a quote; one with a quoted ;, or a ; at its end after  *)
(* a blank; one that is unfinished when the input is over; a second >; a   *)
(* command without a word; more arguments or longer ones than new_command  *)
(* has room for.                                                           *)
GoesWrongForAReason ==
    /\ fate = "stray" =>
            \/ quote # "none" \/ Last(buf) \in {"bs", "|"}
            \/ \E m \in 2 .. Len(buf), n \in 2 .. Len(buf) :
                    /\ m < n /\ buf[m - 1] = "bs" /\ buf[m] = "semi"
                    /\ buf[n] \in {"'", "dq"}
    /\ fate = "null" => Unfinished \/ Count(buf, {"semi"}) > 0
    /\ fate = "fault" => Count(buf, {">"}) > 1
    /\ fate = "underflow" => WordlessCommand
    /\ fate = "overflow" =>
            \/ Count(buf, {"sp"}) >= Slots
            \/ Len(buf) + Count(buf, {"$"}) + 2 * Count(buf, {"bq"}) >= MaxEachArg
    /\ fate = "error" => Count(buf, {">"}) > 0
    /\ fate = "parsed" /\ (\E n \in DOMAIN cmds : cmds[n].argv = <<>>) =>
            WordlessCommand

(* command.h:28 calls MAXARG the "Maximum number of arguments": a command  *)
(* with up to MAXARG short arguments is parsed within its argv.  It is not *)
(* so: new_command counts bytes, not pointers.                             *)
ArgvHoldsMaxArg ==
    fate = "overflow" /\ Writable(cmds, 1) => Len(Args(cmds)) >= MaxArg
=============================================================================
