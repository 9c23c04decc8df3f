------------------------------ MODULE PshPrompt -----------------------------
(***************************************************************************)
(* The prompt: ps_expander (prompts.c) walks over a copy of PS1 and hands  *)
(* pieces of it and inserted texts to a string builder                     *)
(* (lib/stringbuilder.c).  A text is a sequence of characters; the copy is *)
(* memory, with its NUL and what lies behind it.  This is the build without*)
(* readline, where \[ and \] stand for nothing; with it they are replaced  *)
(* like \a.                                                                *)
(***************************************************************************)
EXTENDS Integers, SequencesExt

CONSTANTS
    Prompts,                    \* values of PS1
    Stray,                      \* what may lie behind the copy of an empty PS1
    IsRoot,
    Weekday, Month, Day,        \* today
    Clock,                      \* inserted texts for t, T, @, A, u, s
    Host, Version, Wd, HomeDir, \* texts that h, H, v, V, w and W are made from
    Blanked                     \* characters of a format that strftime answers with nothing

NUL == "NUL"
Digits == {"0", "1", "2", "3", "4", "5", "6", "7", "8", "9"}
Plain == {"t", "T", "@", "A", "u", "s"}

ASSUME DateAssumption ==
    /\ {Weekday, Month} \subseteq Seq(STRING) /\ Len(Weekday) = 3 /\ Len(Month) = 3
    /\ Day \in Seq(Digits) /\ Len(Day) \in {1, 2}
ASSUME ClockAssumption == Clock \in [Plain -> Seq(STRING)] /\ Clock["t"] # <<>>
ASSUME TextsAssumption == {Host, Version, Wd, HomeDir} \subseteq Seq(STRING)
ASSUME PromptsAssumption ==
    /\ Prompts \cup Stray \subseteq Seq(STRING)
    /\ \A p \in Prompts \cup Stray : NUL \notin ToSet(p)

VARIABLE ex

-----------------------------------------------------------------------------
(* Texts *)

(* A C string that starts at n *)
StringAt(b, n) == SubSeq(b, n, Min({k \in n .. Len(b) : b[k] = NUL}) - 1)

UpToFirst(c, t) ==
    SubSeq(t, 1, Min({Len(t) + 1} \cup {n \in DOMAIN t : t[n] = c}) - 1)
LastOf(c, t) == Max({0} \cup {n \in DOMAIN t : t[n] = c})

(* %e puts a blank before a day of one digit. *)
StrftimeDate ==
    Weekday \o <<" ">> \o Month \o <<" ">> \o (IF Len(Day) = 1 THEN <<" ">> ELSE <<>>) \o Day
Dated == IF StrftimeDate[9] = " " THEN [StrftimeDate EXCEPT ![9] = "0"] ELSE StrftimeDate

(* The home directory of the user's entry, if there is one; what is left   *)
(* need not begin with a slash.                                            *)
Tilde == IF IsPrefix(HomeDir, Wd) THEN <<"~">> \o SubSeq(Wd, Len(HomeDir) + 1, Len(Wd)) ELSE Wd

(* What is left of a / that is not at the start stays. *)
LastPart(t) == IF LastOf("/", t) > 1 THEN SubSeq(t, LastOf("/", t) + 1, Len(t)) ELSE t

Strftime(format) ==
    FlattenSeq([n \in DOMAIN format |-> IF format[n] \in Blanked THEN <<>> ELSE <<format[n]>>])

(* The characters that replace their backslash *)
Code(x) ==
    CASE x = "$" -> IF IsRoot THEN "#" ELSE "$"
      [] x = "a" -> "BEL"
      [] x = "e" -> "ESC"
      [] x = "n" -> "LF"
      [] x = "r" -> "CR"
IsReplaced(x) == x \in {"$", "a", "e", "n", "r"}

(* The texts that are put in the place of backslash and character *)
Inserted(x) ==
    CASE x \in Plain -> Clock[x]
      [] x = "d" -> Dated
      [] x = "h" -> UpToFirst(".", Host)
      [] x = "H" -> Host
      [] x = "V" -> Version
      [] x = "v" -> IF LastOf(".", Version) = 0 THEN Version
                    ELSE SubSeq(Version, 1, LastOf(".", Version) - 1)
      [] x = "w" -> Tilde
      [] x = "W" -> LastPart(Tilde)
      [] x \in {"[", "]"} -> <<>>
IsInserted(x) == x \in Plain \cup {"d", "h", "H", "v", "V", "w", "W", "[", "]"}

(* strtol in base 8 stops at an 8 or a 9; the code is stored in a char. *)
OctalDigits == <<"0", "1", "2", "3", "4", "5", "6", "7">>
OctalValue(digits) ==
    LET end == Min({Len(digits) + 1} \cup {n \in DOMAIN digits : digits[n] \in {"8", "9"}})
        Shifted(v, d) == 8 * v + (CHOOSE n \in 1 .. 8 : OctalDigits[n] = d) - 1
    IN  FoldLeft(Shifted, 0, SubSeq(digits, 1, end - 1))
Char(v) == IF v % 256 = 0 THEN NUL ELSE "chr" \o ToString(v % 256)

-----------------------------------------------------------------------------
(* ps_expander *)

Idle == [do |-> "idle", ps1 |-> <<>>, buf |-> <<>>, cur |-> 0, start |-> 0, count |-> 0,
         backslash |-> FALSE, level |-> 0, items |-> <<>>]

Here == ex.buf[ex.cur]
Following == ex.buf[ex.cur + 1]

(* psh_stringbuilder_add_length does not keep empty pieces. *)
Item(items, t) == IF t = <<>> THEN items ELSE Append(items, t)
Piece(s, n) == [s EXCEPT !.items = Item(@, SubSeq(s.buf, s.start, s.start + n - 1))]
Text(s, t) == [s EXCEPT !.items = Item(@, t)]

(* Slip: what was counted is counted again. *)
ResetKeepingCount(s, n) == [s EXCEPT !.start = n + 1, !.cur = n, !.backslash = FALSE]
(* reset_start *)
Reset(s, n) == [s EXCEPT !.start = n + 1, !.cur = n, !.count = 0, !.backslash = FALSE]

(* The count that every character but a backslash adds to *)
Counted == [ex EXCEPT !.count = @ + 1]

(* The end of the do loop *)
Go(s) == ex' = [s EXCEPT !.cur = @ + 1,
                         !.do = IF s.buf[s.cur + 1] = NUL THEN "rest" ELSE "expand"]

Expanding == ex.do = "expand"

Begin(p) ==
    \E stray \in IF p = <<>> THEN Stray ELSE {<<>>} :
        ex' = [Idle EXCEPT !.do = "expand", !.ps1 = p, !.cur = 1, !.start = 1,
                           !.buf = p \o <<NUL>> \o stray \o <<NUL>>]

Backslash ==
    /\ Expanding /\ Here = "\\"
    /\ Go(IF ex.backslash THEN Reset(Piece(ex, ex.count + 1), ex.cur)
          ELSE [ex EXCEPT !.backslash = TRUE])

Replace ==
    /\ Expanding /\ ex.backslash /\ IsReplaced(Here)
    /\ Go(Reset(Piece([Counted EXCEPT !.buf[ex.cur - 1] = Code(Here)], Counted.count), ex.cur))

Insert ==
    /\ Expanding /\ ex.backslash /\ IsInserted(Here)
    /\ Go(Reset(Text(Piece(Counted, ex.count), Inserted(Here)), ex.cur))

(* \u, \w and \W take a null pointer for a text when getpwuid finds no     *)
(* entry, which can happen at any of its calls.                            *)
OfUser == {"u", "w", "W"}
NoPasswdEntry ==
    /\ Expanding /\ ex.backslash /\ Here \in OfUser
    /\ ex' = [Idle EXCEPT !.do = "fault", !.ps1 = ex.ps1]

(* \D{format}: the rest of the prompt, if there is no }.  A format that    *)
(* strftime answers with nothing is tried with larger and larger buffers.  *)
FormatTime ==
    /\ Expanding /\ ex.backslash /\ Here = "D" /\ Following = "{"
    /\ LET rest == StringAt(ex.buf, ex.cur + 2)
           format == UpToFirst("}", rest)
           end == IF format = rest THEN ex.cur + 1 + Len(rest) ELSE ex.cur + 2 + Len(format)
           time == IF format = <<>> THEN Clock["t"] ELSE Strftime(format)
       IN  IF time = <<>> THEN ex' = [Idle EXCEPT !.do = "exhausted", !.ps1 = ex.ps1]
           ELSE Go(Reset(Text(Piece(Counted, ex.count), time), end))

(* Slip: the second digit ends a code. *)
CodeEndsEarly == ex.level + 1 = 2 \/ Following \notin Digits
CodeEnds == ex.level + 1 = 3 \/ Following \notin Digits

Octal ==
    /\ Expanding /\ Here \in Digits /\ (ex.level > 0 \/ ex.backslash)
    /\ LET at == ex.cur - ex.level - 1
           code == Char(OctalValue(SubSeq(ex.buf, at + 1, ex.cur)))
       IN  Go(IF CodeEnds
              THEN Reset(Piece([ex EXCEPT !.level = 0, !.buf[at] = code], ex.count + 1), ex.cur)
              ELSE [ex EXCEPT !.level = @ + 1, !.backslash = FALSE])

(* What is not an escape stays, with its backslash. *)
Ordinary ==
    /\ Expanding /\ Here # "\\" /\ ~(ex.level > 0 /\ Here \in Digits)
    /\ \/ ~ex.backslash /\ Go(Counted)
       \/ /\ ex.backslash /\ ~IsReplaced(Here) /\ ~IsInserted(Here) /\ Here \notin Digits
          /\ ~(Here = "D" /\ Following = "{")
          /\ Go([Counted EXCEPT !.count = @ + 1, !.backslash = FALSE])

(* psh_stringbuilder_free follows the pointer to the first item. *)
Yield ==
    /\ ex.do = "rest"
    /\ LET items == Item(ex.items, StringAt(ex.buf, ex.start))
       IN  ex' = [Idle EXCEPT !.do = IF items = <<>> THEN "fault" ELSE "shown",
                              !.ps1 = ex.ps1, !.items = items]

Expand ==
    Backslash \/ Replace \/ Insert \/ NoPasswdEntry \/ FormatTime \/ Octal \/ Ordinary \/ Yield

-----------------------------------------------------------------------------
(* Properties *)

(* While ps_expander scans, it stands before the NUL of its copy, and the  *)
(* characters it has counted are behind the last piece and before it.      *)
StaysInCopy ==
    ex.do = "expand" =>
        /\ ex.cur \in 1 .. Len(ex.buf) - 1 /\ ex.start \in 1 .. ex.cur
        /\ ex.start + ex.count <= ex.cur /\ ex.count >= 0 /\ ex.level \in 0 .. 2

Shown == UpToFirst(NUL, FlattenSeq(ex.items))

(* The meaning of PS1, from its end to its start: the texts of its escapes *)
(* and the characters that are none, behind each other.  It is what the    *)
(* comment at the head of prompts.c says, with two exceptions, where the   *)
(* code does something else: \n, in the comment CRLF, is a line feed, and  *)
(* \j, \l, \! and \#, which have a meaning there and a TODO in the code,   *)
(* stand for themselves.                                                   *)
DateOfToday ==
    Weekday \o <<" ">> \o Month \o <<" ">> \o (IF Len(Day) = 1 THEN <<"0">> ELSE <<>>) \o Day

Stands(x) ==
    CASE x = "a" -> "BEL"
      [] x = "e" -> "ESC"
      [] x = "n" -> "LF"
      [] x = "r" -> "CR"
      [] OTHER -> IF IsRoot THEN "#" ELSE "$"

(* after[m] is the meaning of the rest of p from m on. *)
MeaningFrom(p, after, n) ==
    IF n > Len(p) THEN <<>>
    ELSE IF p[n] # "\\" \/ n = Len(p) THEN <<p[n]>> \o after[n + 1]
    ELSE LET x == p[n + 1]
             open == x = "D" /\ n + 1 < Len(p) /\ p[n + 2] = "{"
             format == UpToFirst("}", SubSeq(p, n + 3, Len(p)))
             number == CHOOSE k \in 1 .. 3 :
                 /\ n + k <= Len(p)
                 /\ ToSet(SubSeq(p, n + 1, n + k)) \subseteq Digits
                 /\ k = 3 \/ n + k = Len(p) \/ p[n + k + 1] \notin Digits
         IN  CASE x = "\\" -> <<x>> \o after[n + 2]
               [] x = "d" -> DateOfToday \o after[n + 2]
               [] x # "d" /\ IsInserted(x) -> Inserted(x) \o after[n + 2]
               [] IsReplaced(x) -> <<Stands(x)>> \o after[n + 2]
               [] open -> (IF format = <<>> THEN Clock["t"] ELSE Strftime(format))
                          \o after[Min({n + 4 + Len(format), Len(p) + 1})]
               [] x \in Digits -> <<Char(OctalValue(SubSeq(p, n + 1, n + number)))>>
                                  \o after[n + number + 1]
               [] OTHER -> <<"\\", x>> \o after[n + 2]

Meaning(p) ==
    LET means[n \in 1 .. Len(p) + 1] == MeaningFrom(p, means, n) IN means[1]

(* p has an escape that needs the user's entry. *)
AsksForUser(p) ==
    \E n \in DOMAIN p : n < Len(p) /\ p[n] = "\\" /\ p[n + 1] \in OfUser

(* The prompt shown is what PS1 means, up to a NUL that \0 puts into it;   *)
(* the pieces and texts are counted out in several places of ps_expander.  *)
(* It follows a null pointer only when there is nothing to show or when    *)
(* the user has no entry that \u, \w or \W could show, and runs out of     *)
(* memory only for a format with nothing to show, in PS1 or in what lies   *)
(* behind the copy of an empty one.                                        *)
PromptMeansPs1 ==
    /\ ex.do = "shown" => Shown = UpToFirst(NUL, Meaning(ex.ps1))
    /\ ex.do = "fault" => Meaning(ex.ps1) = <<>> \/ AsksForUser(ex.ps1)
    /\ ex.do = "exhausted" /\ ex.ps1 # <<>> =>
        \E n, k \in DOMAIN ex.ps1 :
            /\ n + 3 <= k /\ SubSeq(ex.ps1, n, n + 2) = <<"\\", "D", "{">>
            /\ ToSet(SubSeq(ex.ps1, n + 3, k)) \subseteq Blanked
=============================================================================
