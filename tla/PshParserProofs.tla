--------------------------- MODULE PshParserProofs --------------------------
(***************************************************************************)
(* Proofs about filpinfo (PshParser), for every line, every continuation   *)
(* and every size of the argument vectors.                                 *)
(***************************************************************************)
EXTENDS PshParser, PshNumbers, SequenceTheorems, FiniteSetTheorems

Strings == Seq(Chars \cup {Nul})
ArgvOK(a) ==
    /\ a \in Seq(Strings) /\ Len(a) <= Slots
    /\ \A m \in 1 .. Len(a) : Len(a[m]) <= MaxEachArg
ListOK(c) ==
    /\ c \in Seq([type : Types, argv : Seq(Strings)]) /\ c # <<>>
    /\ \A n \in 1 .. Len(c) : ArgvOK(c[n].argv)

(* The list while it is being filled, and when it is handed over *)
Open(c) ==
    /\ \A n \in 1 .. Len(c) - 1 : c[n].type # "SINGLE"
    /\ c[Len(c)].type = "SINGLE"
Finished(c) ==
    /\ \A n \in 1 .. Len(c) - 1 : c[n].type # "SINGLE"
    /\ c[Len(c)].type \in {"SINGLE", "BACKGROUND"}

ParserInv ==
    /\ buf \in Seq(Chars) /\ at \in 0 .. Len(buf)
    /\ quote \in {"none", "single", "double"} /\ target \in {"argv", "fd", "file"}
    /\ ListOK(cmds)
    /\ redir.type \in {"NONE", "FD2FD", "OUT_REDIR", "OUT_APPN"}
    /\ old \in 0 .. MaxEachArg /\ wrote \in BOOLEAN /\ torn \in BOOLEAN /\ fate \in Fates
    /\ fate \in {"start", "scan"} => Open(cmds)
    /\ fate = "parsed" => Finished(cmds)

MovesOn == fate = "scan" /\ fate' = "scan" => at' > at
Fine == ParserInv' /\ MovesOn

-----------------------------------------------------------------------------
(* Text *)

LEMMA SizeFacts ==
    MaxEachArg \in Nat \ {0} /\ Slots \in Nat /\ Slots >= 1
<1>1. /\ MaxArg \in Nat /\ PtrBytes \in Nat \ {0} /\ PtrBytes <= MaxArg
      /\ MaxEachArg \in Nat \ {0}
  BY SizesAssumption
<1>2. \A m \in Nat, q \in Nat \ {0} : q <= m => m \div q \in Nat /\ m \div q >= 1
  BY SMT
<1> QED
  BY <1>1, <1>2 DEF Slots

LEMMA CharType ==
    ASSUME buf \in Seq(Chars), NEW n \in Nat
    PROVE  /\ CharAt(n) \in Chars \cup {Nul}
           /\ CharAt(n) # Nul <=> n < Len(buf)
<1>1. n < Len(buf) => buf[n + 1] \in Chars
  <2>1. Len(buf) \in Nat
    BY LenProperties
  <2> QED
    BY <2>1, ElementOfSeq
<1>2. Nul \notin Chars
  BY DEF Nul, Chars, Digits
<1> QED
  BY <1>1, <1>2 DEF CharAt

(* Where ignore_IFSs stops: on the first character that is no blank *)
LEMMA NonBlankFound ==
    ASSUME NEW b \in Seq(Chars), NEW n \in Nat, ~AtEnd(b, n)
    PROVE  /\ NonBlank(b, n) \in n .. Len(b) - 1
           /\ b[NonBlank(b, n) + 1] # "sp"
           /\ \A l \in n .. NonBlank(b, n) - 1 : b[l + 1] = "sp"
<1> DEFINE T == {m \in n .. Len(b) - 1 : b[m + 1] # "sp"}
<1>1. Len(b) \in Nat
  BY LenProperties
<1>2. PICK m \in n + 1 .. Len(b) : b[m] # "sp"
  BY DEF AtEnd
<1>3. m - 1 \in T
  BY <1>1, <1>2
<1>4. T \subseteq Nat /\ T # {}
  <2>1. \A y \in n .. Len(b) - 1 : y \in Nat
    BY <1>1
  <2> QED
    BY <1>3, <2>1
<1>5. Min(T) \in T /\ \A y \in T : Min(T) <= y
  <2> HIDE DEF T
  <2> QED
    BY <1>4, MinIsLeast
<1>6. \E k \in n .. Len(b) - 1 :
         b[k + 1] # "sp" /\ \A l \in n .. k - 1 : b[l + 1] = "sp"
  <2>1. Min(T) \in n .. Len(b) - 1 /\ b[Min(T) + 1] # "sp"
    BY <1>5
  <2>2. ASSUME NEW l \in n .. Min(T) - 1 PROVE b[l + 1] = "sp"
    <3>1. l \in n .. Len(b) - 1 /\ ~(Min(T) <= l)
      BY <1>1, <2>1
    <3> QED
      BY <3>1, <1>5
  <2> QED
    BY <2>1, <2>2
<1> QED
  BY <1>6 DEF NonBlank

LEMMA AppendedTypes ==
    ASSUME buf \in Seq(Chars), NEW b \in Appended
    PROVE  /\ b \in Seq(Chars) /\ Len(b) >= Len(buf)
           /\ b # buf => Len(b) > Len(buf)
<1>1. PICK more \in MoreLines : b = buf \o more
  BY DEF Appended
<1>2. more \in Seq(Chars)
  BY LinesAssumption
<1>3. b \in Seq(Chars) /\ Len(b) = Len(buf) + Len(more) /\ Len(more) \in Nat
      /\ Len(buf) \in Nat
  BY <1>1, <1>2, ConcatProperties, LenProperties
<1>4. Len(more) = 0 => b = buf
  BY <1>1, <1>2, EmptySeq, ConcatEmptySeq
<1> QED
  BY <1>3, <1>4

-----------------------------------------------------------------------------
(* The list of commands *)

LEMMA ListFacts ==
    ASSUME NEW c, ListOK(c)
    PROVE  /\ Len(c) \in Nat \ {0} /\ Len(c) \in 1 .. Len(c)
           /\ c \in Seq([type : Types, argv : Seq(Strings)])
           /\ \A n \in 1 .. Len(c) : c[n] \in [type : Types, argv : Seq(Strings)]
           /\ Args(c) = c[Len(c)].argv /\ ArgvOK(Args(c))
<1>1. Len(c) \in Nat \ {0}
  BY EmptySeq DEF ListOK
<1>2. \A n \in 1 .. Len(c) : c[n] \in [type : Types, argv : Seq(Strings)]
  BY ElementOfSeq DEF ListOK
<1> QED
  BY <1>1, <1>2 DEF ListOK, Args, Last

(* The last command given another argv, or another type *)
CommandOK(e) == e \in [type : Types, argv : Seq(Strings)] /\ ArgvOK(e.argv)
Changed(c, e) == [c EXCEPT ![Len(c)] = e]

LEMMA ChangedLast ==
    ASSUME NEW c, ListOK(c), NEW e, CommandOK(e)
    PROVE  /\ ListOK(Changed(c, e)) /\ Len(Changed(c, e)) = Len(c)
           /\ Changed(c, e)[Len(c)].type = e.type
           /\ Args(Changed(c, e)) = e.argv
           /\ \A n \in 1 .. Len(c) - 1 : Changed(c, e)[n] = c[n]
<1> DEFINE d == Changed(c, e)
<1>0. d = [c EXCEPT ![Len(c)] = e] /\ ArgvOK(e.argv)
      /\ e \in [type : Types, argv : Seq(Strings)]
  BY DEF CommandOK, Changed
<1> HIDE DEF d
<1>2. /\ Len(c) \in Nat \ {0} /\ Len(c) \in 1 .. Len(c)
      /\ c \in Seq([type : Types, argv : Seq(Strings)])
  BY ListFacts
<1>3. /\ d \in Seq([type : Types, argv : Seq(Strings)]) /\ Len(d) = Len(c)
      /\ \A n \in 1 .. Len(c) : d[n] = IF n = Len(c) THEN e ELSE c[n]
  BY <1>0, <1>2, ExceptSeq
<1>4. d # <<>>
  BY <1>2, <1>3, EmptySeq
<1>5. ListOK(d)
  <2>1. ASSUME NEW n \in 1 .. Len(c) PROVE ArgvOK(d[n].argv)
    <3>1. CASE n = Len(c)
      BY <1>0, <1>3, <3>1
    <3>2. CASE n # Len(c)
      BY <1>3, <3>2 DEF ListOK
    <3> QED
      BY <3>1, <3>2
  <2> QED
    BY <1>3, <1>4, <2>1 DEF ListOK
<1>6. d[Len(d)] = e /\ \A n \in 1 .. Len(c) - 1 : d[n] = c[n]
  <2>1. d[Len(d)] = e
    BY <1>2, <1>3
  <2>2. ASSUME NEW n \in 1 .. Len(c) - 1 PROVE d[n] = c[n]
    <3>1. n \in 1 .. Len(c) /\ n # Len(c)
      BY <1>2
    <3> QED
      BY <1>3, <3>1
  <2> QED
    BY <2>1, <2>2
<1>7. Args(d) = e.argv
  BY <1>6 DEF Args, Last
<1> QED
  BY <1>3, <1>5, <1>6, <1>7 DEF d

LEMMA WithArgsOK ==
    ASSUME NEW c, ListOK(c), NEW a, ArgvOK(a)
    PROVE  /\ ListOK(WithArgs(c, a)) /\ Args(WithArgs(c, a)) = a
           /\ Open(c) => Open(WithArgs(c, a))
           /\ Finished(c) => Finished(WithArgs(c, a))
<1> DEFINE e == [type |-> c[Len(c)].type, argv |-> a]
<1>1. /\ Len(c) \in 1 .. Len(c) /\ Len(c) \in Nat
      /\ c[Len(c)] \in [type : Types, argv : Seq(Strings)]
      /\ c[Len(c)].type \in Types
  BY ListFacts
<1>2. [c[Len(c)] EXCEPT !.argv = a] = e
  BY <1>1
<1>3. WithArgs(c, a) = Changed(c, e)
  BY <1>2 DEF WithArgs, Changed
<1>4. CommandOK(e) /\ e.argv = a /\ e.type = c[Len(c)].type
  BY <1>1 DEF ArgvOK, CommandOK
<1> HIDE DEF e
<1> DEFINE d == Changed(c, e)
<1>5. /\ ListOK(d) /\ Len(d) = Len(c) /\ d[Len(c)].type = e.type
      /\ Args(d) = e.argv
      /\ \A n \in 1 .. Len(c) - 1 : d[n] = c[n]
  BY <1>4, ChangedLast
<1> HIDE DEF d
<1>6. (Open(c) => Open(d)) /\ (Finished(c) => Finished(d))
  BY <1>4, <1>5 DEF Open, Finished
<1> QED
  BY <1>3, <1>4, <1>5, <1>6 DEF d

LEMMA WrittenOK ==
    ASSUME NEW c, ListOK(c), NEW n \in Nat, Writable(c, n),
           NEW x \in Chars \cup {Nul}
    PROVE  /\ ListOK(Written(c, x, n))
           /\ Open(c) => Open(Written(c, x, n))
           /\ Finished(c) => Finished(Written(c, x, n))
           /\ Len(Args(Written(c, x, n))) = Len(Args(c))
           /\ Args(Written(c, x, n)) # <<>>
           /\ ArgvOK(Args(Written(c, x, n)))
<1> DEFINE a == Args(c)
           xs == [m \in 1 .. n |-> x]
           new == Last(a) \o xs
           d == [a EXCEPT ![Len(a)] = new]
<1>1. ArgvOK(a) /\ a # <<>> /\ Len(Last(a)) + n <= MaxEachArg
  BY ListFacts DEF Writable
<1>2. a \in Seq(Strings) /\ Len(a) \in Nat \ {0} /\ Len(a) \in 1 .. Len(a)
  BY <1>1, EmptySeq DEF ArgvOK
<1>3. Last(a) \in Strings /\ Last(a) = a[Len(a)]
  BY <1>2, ElementOfSeq DEF Last
<1>4. xs \in Strings /\ Len(xs) = n
  BY DEF Strings
<1> HIDE DEF xs, a
<1>5. new \in Strings /\ Len(new) = Len(Last(a)) + n
  BY <1>3, <1>4, ConcatProperties DEF Strings
<1> HIDE DEF new
<1>6. /\ d \in Seq(Strings) /\ Len(d) = Len(a)
      /\ \A m \in 1 .. Len(a) : d[m] = IF m = Len(a) THEN new ELSE a[m]
  BY <1>2, <1>5, ExceptSeq
<1> HIDE DEF d
<1>7. ArgvOK(d)
  BY <1>1, <1>2, <1>5, <1>6 DEF ArgvOK
<1>8. Written(c, x, n) = WithArgs(c, d)
  BY DEF Written, d, new, xs, a
<1>9. d # <<>>
  BY <1>2, <1>6, EmptySeq
<1> QED
  BY <1>6, <1>7, <1>8, <1>9, WithArgsOK DEF a

LEMMA TakenBackOK ==
    ASSUME ListOK(cmds), ~FreesNothing
    PROVE  ArgvOK(TakenBack)
<1>1. ArgvOK(Args(cmds))
  BY ListFacts
<1>2. CASE ArgChar # 0
  BY <1>1, <1>2 DEF TakenBack
<1>3. CASE ArgChar = 0
  <2> DEFINE a == Args(cmds)
  <2>1. a # <<>> /\ a \in Seq(Strings)
    BY <1>1, <1>3 DEF FreesNothing, ArgvOK
  <2>2. Len(a) \in Nat \ {0} /\ \A m \in 1 .. Len(a) : a[m] \in Strings
    BY <2>1, EmptySeq, ElementOfSeq
  <2> HIDE DEF a
  <2>3. /\ Front(a) \in Seq(Strings) /\ Len(Front(a)) = Len(a) - 1
        /\ \A m \in 1 .. Len(a) - 1 : Front(a)[m] = a[m]
    <3> DEFINE k == Len(a) - 1
    <3>1. /\ k \in Nat /\ 1 \in Int /\ k \in Int /\ k - 1 + 1 = k
          /\ \A m \in 1 .. k : a[m] \in Strings
      BY <2>2
    <3> HIDE DEF k
    <3>2. /\ SubSeq(a, 1, k) \in Seq(Strings)
          /\ Len(SubSeq(a, 1, k)) = IF 1 <= k THEN k - 1 + 1 ELSE 0
          /\ \A m \in 1 .. k - 1 + 1 : SubSeq(a, 1, k)[m] = a[1 + m - 1]
      BY <3>1, SubSeqProperties
    <3>3. \A m \in 1 .. k : 1 + m - 1 = m
      OBVIOUS
    <3>4. Len(SubSeq(a, 1, k)) = k
      BY <3>1, <3>2
    <3>5. \A m \in 1 .. k : SubSeq(a, 1, k)[m] = a[m]
      BY <3>1, <3>2, <3>3
    <3> QED
      BY <3>2, <3>4, <3>5 DEF Front, k
  <2>4. Slots \in Nat /\ MaxEachArg \in Nat
    BY SizeFacts
  <2>5. ArgvOK(Front(a))
    BY <1>1, <2>2, <2>3, <2>4 DEF ArgvOK, a
  <2> QED
    BY <1>3, <2>5 DEF TakenBack, a
<1> QED
  BY <1>2, <1>3

LEMMA NewCommandOK ==
    /\ NewCommand \in [type : Types, argv : Seq(Strings)]
    /\ ArgvOK(NewCommand.argv) /\ NewCommand.type = "SINGLE"
<1>1. <<>> \in Strings /\ Len(<<>>) = 0
  BY EmptySeq DEF Strings
<1>2. /\ << <<>> >> \in Seq(Strings) /\ Len(<< <<>> >>) = 1
      /\ << <<>> >>[1] = <<>>
  BY <1>1
<1>3. ArgvOK(<< <<>> >>)
  BY <1>1, <1>2, SizeFacts DEF ArgvOK
<1> QED
  BY <1>2, <1>3 DEF NewCommand, Types

(* The command a separator ends, without the one it begins *)
Ended(t) == [WithArgs(cmds, TakenBack) EXCEPT ![Len(cmds)].type = t]

LEMMA EndedOK ==
    ASSUME ListOK(cmds), Open(cmds), ~FreesNothing, NEW t \in Types \ {"SINGLE"}
    PROVE  /\ ListOK(Ended(t))
           /\ \A n \in 1 .. Len(Ended(t)) : Ended(t)[n].type # "SINGLE"
           /\ Ended(t)[Len(Ended(t))].type = t
<1> DEFINE c == WithArgs(cmds, TakenBack)
<1>1. ListOK(c) /\ Open(c)
  BY TakenBackOK, WithArgsOK
<1>2. Len(c) = Len(cmds) /\ Len(cmds) \in Nat \ {0}
  BY ListFacts DEF WithArgs
<1> HIDE DEF c
<1> DEFINE e == [type |-> t, argv |-> c[Len(c)].argv]
<1>3. c[Len(c)] \in [type : Types, argv : Seq(Strings)] /\ ArgvOK(c[Len(c)].argv)
  BY <1>1, ListFacts
<1>4. [c[Len(c)] EXCEPT !.type = t] = e
  BY <1>3
<1>5. Ended(t) = Changed(c, e)
  BY <1>2, <1>4 DEF Ended, Changed, c
<1>6. CommandOK(e) /\ e.type = t
  BY <1>3 DEF CommandOK
<1> HIDE DEF e
<1> DEFINE d == Changed(c, e)
<1>7. /\ ListOK(d) /\ Len(d) = Len(c) /\ d[Len(c)].type = e.type
      /\ \A n \in 1 .. Len(c) - 1 : d[n] = c[n]
  BY <1>1, <1>6, ChangedLast
<1> HIDE DEF d
<1>8. \A n \in 1 .. Len(c) - 1 : d[n].type # "SINGLE"
  BY <1>1, <1>7 DEF Open
<1>9. \A n \in 1 .. Len(d) : d[n].type # "SINGLE"
  BY <1>2, <1>6, <1>7, <1>8
<1> QED
  BY <1>5, <1>6, <1>7, <1>9 DEF d

LEMMA SeparatedOK ==
    ASSUME ListOK(cmds), Open(cmds), ~FreesNothing, NEW t \in Types \ {"SINGLE"}
    PROVE  /\ ListOK(Separated(t)) /\ Open(Separated(t))
           /\ Front(Separated(t)) = Ended(t)
<1> DEFINE e == Ended(t)
           d == Append(e, NewCommand)
           S == [type : Types, argv : Seq(Strings)]
<1>1. /\ ListOK(e) /\ e \in Seq(S) /\ Len(e) \in Nat \ {0}
      /\ \A n \in 1 .. Len(e) : e[n].type # "SINGLE"
  BY EndedOK, ListFacts
<1>2. NewCommand \in S /\ ArgvOK(NewCommand.argv) /\ NewCommand.type = "SINGLE"
  BY NewCommandOK
<1>3. Separated(t) = d
  BY DEF Separated, Ended
<1> HIDE DEF e, S
<1>4. /\ d \in Seq(S) /\ Len(d) = Len(e) + 1
      /\ \A n \in 1 .. Len(e) : d[n] = e[n]
      /\ d[Len(e) + 1] = NewCommand
  BY <1>1, <1>2
<1>5. Front(d) = e
  <2>1. SubSeq(d, 1, Len(e)) = e
    BY <1>1, <1>2
  <2> QED
    BY <1>1, <1>4, <2>1 DEF Front
<1> HIDE DEF d
<1>6. d # <<>>
  BY <1>1, <1>4, EmptySeq
<1>7. ListOK(d)
  <2>1. \A n \in 1 .. Len(e) : ArgvOK(e[n].argv)
    BY <1>1 DEF ListOK
  <2>2. \A n \in 1 .. Len(d) : ArgvOK(d[n].argv)
    BY <1>1, <1>2, <1>4, <2>1
  <2> QED
    BY <1>4, <1>6, <2>2 DEF ListOK, S
<1>8. Open(d)
  BY <1>1, <1>2, <1>4 DEF Open
<1> QED
  BY <1>3, <1>5, <1>7, <1>8 DEF e

-----------------------------------------------------------------------------
(* What the cases of the switch end in *)

LEMMA OpenFinishes == ASSUME NEW c, Open(c) PROVE Finished(c)
  BY DEF Open, Finished

LEMMA FailFine ==
    ASSUME ParserInv, NEW f \in Broken \cup {"error"}, Fail(f)
    PROVE  Fine
  BY DEF ParserInv, Fine, MovesOn, Fail, Broken, Fates

LEMMA WriteFailureBreaks == ASSUME NEW c PROVE WriteFailure(c) \in Broken
  BY DEF WriteFailure, Broken

LEMMA DoneFine ==
    ASSUME ParserInv, NEW c, ListOK(c), Finished(c), Done(c)
    PROVE  Fine
<1>1. CASE wrote /\ ~Writable(c, 1)
  <2>1. Fail(WriteFailure(c)) /\ WriteFailure(c) \in Broken
    BY <1>1, WriteFailureBreaks DEF Done
  <2> QED
    BY <2>1, FailFine
<1>2. CASE ~(wrote /\ ~Writable(c, 1))
  <2>1. /\ cmds' = IF wrote THEN Written(c, Nul, 1) ELSE c
        /\ fate' = "parsed" /\ UNCHANGED <<buf, at, quote, target, redir, old, wrote, torn>>
    BY <1>2 DEF Done
  <2>2. ListOK(cmds') /\ Finished(cmds')
    <3>1. CASE wrote
      <4>1. ListOK(Written(c, Nul, 1)) /\ Finished(Written(c, Nul, 1))
        BY <1>2, <3>1, WrittenOK
      <4> QED
        BY <2>1, <3>1, <4>1
    <3>2. CASE ~wrote
      BY <2>1, <3>2
    <3> QED
      BY <3>1, <3>2
  <2> QED
    BY <2>1, <2>2 DEF ParserInv, Fine, MovesOn, Fates
<1> QED
  BY <1>1, <1>2

LEMMA ResumeFine ==
    ASSUME ParserInv, fate = "scan", NEW c, ListOK(c), Open(c),
           NEW b \in Seq(Chars), NEW n \in Nat, n > at, Resume(c, b, n)
    PROVE  Fine
<1>1. CASE AtEnd(b, n)
  BY <1>1, DoneFine, OpenFinishes DEF Resume
<1>2. CASE ~AtEnd(b, n)
  <2>1. /\ cmds' = c /\ buf' = b /\ at' = NonBlank(b, n)
        /\ UNCHANGED <<quote, target, redir, old, wrote, torn, fate>>
    BY <1>2 DEF Resume
  <2>2. Len(b) \in Nat /\ NonBlank(b, n) \in n .. Len(b) - 1
    BY <1>2, NonBlankFound, LenProperties
  <2>3. at' > at /\ at' \in 0 .. Len(buf')
    BY <2>1, <2>2 DEF ParserInv
  <2> QED
    BY <2>1, <2>3 DEF ParserInv, Fine, MovesOn
<1> QED
  BY <1>1, <1>2

LEMMA ResumeInMoreFine ==
    ASSUME ParserInv, fate = "scan", NEW c, ListOK(c), Open(c),
           NEW n \in Nat, n > at, ResumeInMore(c, n)
    PROVE  Fine
<1>1. CASE NoMoreLines
  BY <1>1, FailFine DEF NoMoreLines, Broken
<1>2. CASE \E b \in Appended : Resume(c, b, n)
  <2>1. PICK b \in Appended : Resume(c, b, n)
    BY <1>2
  <2>2. b \in Seq(Chars)
    BY AppendedTypes DEF ParserInv
  <2> QED
    BY <2>1, <2>2, ResumeFine
<1> QED
  BY <1>1, <1>2 DEF ResumeInMore

LEMMA WriteFine ==
    ASSUME ParserInv, fate = "scan", CharAt(at) # Nul, NEW n \in Nat, Write(n)
    PROVE  Fine
<1> DEFINE x == CharAt(at)
<1>1. at \in Nat /\ Len(buf) \in Nat /\ x \in Chars \cup {Nul} /\ at < Len(buf)
  BY CharType, LenProperties DEF ParserInv
<1> HIDE DEF x
<1>2. CASE target = "argv" /\ ~Writable(cmds, n)
  <2>1. Fail(WriteFailure(cmds)) /\ WriteFailure(cmds) \in Broken
    BY <1>2, WriteFailureBreaks DEF Write
  <2> QED
    BY <2>1, FailFine
<1>3. CASE target = "fd" /\ x \notin Digits
  <2>1. Fail("error")
    BY <1>3 DEF Write, x
  <2> QED
    BY <2>1, FailFine
<1>4. CASE ~(target = "argv" /\ ~Writable(cmds, n)) /\ ~(target = "fd" /\ x \notin Digits)
  <2>1. /\ cmds' = IF target = "argv" THEN Written(cmds, x, n) ELSE cmds
        /\ wrote' = (wrote \/ (n > 0 /\ x # "sp"))
        /\ at' = at + 1 /\ UNCHANGED <<buf, fate>>
        /\ UNCHANGED <<quote, target, redir, old, torn>>
    BY <1>4 DEF Write, x, Next1
  <2>2. ListOK(cmds) /\ Open(cmds)
    BY DEF ParserInv
  <2>3. ListOK(cmds') /\ Open(cmds')
    <3>1. CASE target = "argv"
      <4>1. ListOK(Written(cmds, x, n)) /\ Open(Written(cmds, x, n))
        BY <1>1, <1>4, <2>2, <3>1, WrittenOK
      <4> QED
        BY <2>1, <3>1, <4>1
    <3>2. CASE target # "argv"
      BY <2>1, <2>2, <3>2
    <3> QED
      BY <3>1, <3>2
  <2>4. at' > at /\ at' \in 0 .. Len(buf')
    BY <1>1, <2>1
  <2> QED
    BY <2>1, <2>3, <2>4 DEF ParserInv, Fine, MovesOn
<1> QED
  BY <1>2, <1>3, <1>4

LEMMA ToggleFine ==
    ASSUME ParserInv, fate = "scan", CharAt(at) # Nul, NEW q \in {"single", "double"},
           Toggle(q)
    PROVE  Fine
<1>1. at \in Nat /\ Len(buf) \in Nat /\ at < Len(buf)
  BY CharType, LenProperties DEF ParserInv
<1>2. /\ quote' \in {"none", "single", "double"} /\ at' = at + 1
      /\ UNCHANGED <<buf, fate, target, cmds, redir, old, wrote, torn>>
  BY DEF Toggle, Next1, ParserInv, list
<1>3. at' > at /\ at' \in 0 .. Len(buf')
  BY <1>1, <1>2
<1> QED
  BY <1>2, <1>3 DEF ParserInv, Fine, MovesOn

(* A separator, what follows it on this line or on the next *)
LEMMA AndOrFine ==
    ASSUME ParserInv, fate = "scan", ~FreesNothing, NEW t \in Types \ {"SINGLE"}, AndOr(t)
    PROVE  Fine
<1>1. ListOK(Separated(t)) /\ Open(Separated(t))
  BY SeparatedOK DEF ParserInv
<1>2. at + 2 \in Nat /\ at + 2 > at /\ buf \in Seq(Chars)
  BY DEF ParserInv
<1>3. ResumeInMore(Separated(t), at + 2) \/ Resume(Separated(t), buf, at + 2)
  BY DEF AndOr
<1> QED
  BY <1>1, <1>2, <1>3, ResumeFine, ResumeInMoreFine

-----------------------------------------------------------------------------
(* The cases of the switch *)

LEMMA BeginFine == ASSUME ParserInv, Begin PROVE Fine
<1>1. CASE AtEnd(buf, 0)
  BY <1>1, DoneFine, OpenFinishes DEF Begin, ParserInv
<1>2. CASE ~AtEnd(buf, 0)
  <2>1. Len(buf) \in Nat /\ First \in 0 .. Len(buf) - 1
    BY <1>2, NonBlankFound, LenProperties DEF First, ParserInv
  <2>2. /\ fate = "start" /\ at' = First /\ fate' = "scan"
        /\ UNCHANGED <<buf, quote, target, cmds, redir, old, wrote, torn>>
    BY <1>2 DEF Begin, list
  <2>3. at' \in 0 .. Len(buf')
    BY <2>1, <2>2
  <2> QED
    BY <2>2, <2>3 DEF ParserInv, Fine, MovesOn, Fates
<1> QED
  BY <1>1, <1>2

LEMMA QuoteFine == ASSUME ParserInv, SingleQuote \/ DoubleQuote PROVE Fine
<1>1. fate = "scan" /\ CharAt(at) # Nul
  BY DEF SingleQuote, DoubleQuote, Scan, Nul
<1>2. Write(1) \/ \E q \in {"single", "double"} : Toggle(q)
  BY DEF SingleQuote, DoubleQuote
<1> QED
  BY <1>1, <1>2, WriteFine, ToggleFine

LEMMA BlankFine == ASSUME ParserInv, Blank PROVE Fine
<1>1. fate = "scan" /\ CharAt(at) = "sp" /\ CharAt(at) # Nul /\ ListOK(cmds) /\ Open(cmds)
  BY DEF Blank, Scan, Nul, ParserInv
<1>2. CASE Write(1)
  BY <1>1, <1>2, WriteFine
<1>3. CASE Done(cmds)
  BY <1>1, <1>3, DoneFine, OpenFinishes
<1>4. CASE \E f \in Broken : Fail(f)
  BY <1>4, FailFine
<1>5. CASE /\ ~AtEnd(buf, at)
           /\ Writable(cmds, 1) /\ ~(Len(Args(cmds)) >= Slots)
           /\ LET c == Written(cmds, Nul, 1)
              IN  /\ cmds' = WithArgs(c, Append(Args(c), <<>>))
                  /\ old' = Len(Last(Args(c)))
                  /\ at' = NonBlank(buf, at)
                  /\ UNCHANGED <<buf, quote, target, redir, wrote, torn, fate>>
  <2> DEFINE c == Written(cmds, Nul, 1)
             a == Args(c)
             d == Append(a, <<>>)
  <2>1. /\ ListOK(c) /\ Open(c) /\ ArgvOK(a) /\ a # <<>>
        /\ Len(a) = Len(Args(cmds))
    BY <1>1, <1>5, WrittenOK
  <2>2. /\ cmds' = WithArgs(c, d) /\ old' = Len(Last(a)) /\ at' = NonBlank(buf, at)
        /\ UNCHANGED <<buf, quote, target, redir, wrote, torn, fate>>
    BY <1>5
  <2> HIDE DEF c
  <2> HIDE DEF a
  <2>3. Slots \in Nat /\ MaxEachArg \in Nat /\ ~(Len(a) >= Slots)
    BY <1>5, <2>1, SizeFacts
  <2>4. a \in Seq(Strings) /\ Len(a) \in Nat \ {0} /\ Len(a) <= Slots
        /\ \A m \in 1 .. Len(a) : Len(a[m]) <= MaxEachArg
    BY <2>1, EmptySeq DEF ArgvOK
  <2>5. <<>> \in Strings /\ Len(<<>>) = 0
    BY EmptySeq DEF Strings
  <2>6. /\ d \in Seq(Strings) /\ Len(d) = Len(a) + 1
        /\ \A m \in 1 .. Len(a) : d[m] = a[m]
        /\ d[Len(a) + 1] = <<>>
    BY <2>4, <2>5, AppendProperties
  <2> HIDE DEF d
  <2>7. ArgvOK(d)
    BY <2>3, <2>4, <2>5, <2>6 DEF ArgvOK
  <2>8. ListOK(cmds') /\ Open(cmds')
    BY <2>1, <2>2, <2>7, WithArgsOK
  <2>9. old' \in 0 .. MaxEachArg
    <3>1. Last(a) = a[Len(a)] /\ Len(a) \in 1 .. Len(a)
      BY <2>4 DEF Last
    <3>2. a[Len(a)] \in Strings
      BY <2>4, <3>1, ElementOfSeq
    <3>3. Len(Last(a)) \in Nat /\ Len(Last(a)) <= MaxEachArg
      BY <2>4, <3>1, <3>2, LenProperties DEF Strings
    <3> QED
      BY <2>2, <2>3, <3>3
  <2>10. at' > at /\ at' \in 0 .. Len(buf')
    <3>1. Len(buf) \in Nat /\ at \in Nat /\ at < Len(buf)
          /\ buf \in Seq(Chars) /\ buf[at + 1] = "sp"
      BY <1>1, CharType, LenProperties DEF ParserInv, CharAt
    <3>2. NonBlank(buf, at) \in at .. Len(buf) - 1 /\ buf[NonBlank(buf, at) + 1] # "sp"
      BY <1>5, <3>1, NonBlankFound
    <3>3. NonBlank(buf, at) # at
      BY <3>1, <3>2
    <3> QED
      BY <2>2, <3>1, <3>2, <3>3
  <2> QED
    BY <1>1, <2>2, <2>8, <2>9, <2>10 DEF ParserInv, Fine, MovesOn
<1>6. \/ Write(1) \/ Done(cmds) \/ Fail(WriteFailure(cmds)) \/ Fail("overflow")
      \/ /\ ~AtEnd(buf, at)
         /\ Writable(cmds, 1) /\ ~(Len(Args(cmds)) >= Slots)
         /\ LET c == Written(cmds, Nul, 1)
            IN  /\ cmds' = WithArgs(c, Append(Args(c), <<>>))
                /\ old' = Len(Last(Args(c)))
                /\ at' = NonBlank(buf, at)
                /\ UNCHANGED <<buf, quote, target, redir, wrote, torn, fate>>
  BY DEF Blank
<1>7. WriteFailure(cmds) \in Broken /\ "overflow" \in Broken
  BY WriteFailureBreaks DEF Broken
<1> QED
  BY <1>2, <1>3, <1>4, <1>5, <1>6, <1>7

LEMMA AmpersandFine == ASSUME ParserInv, Ampersand PROVE Fine
<1>1. /\ fate = "scan" /\ CharAt(at) # Nul /\ ListOK(cmds) /\ Open(cmds)
      /\ buf \in Seq(Chars) /\ at + 1 \in Nat /\ at + 1 > at
  BY DEF Ampersand, Scan, Nul, ParserInv
<1>2. {"BACKGROUND", "RUN_AND"} \subseteq Types \ {"SINGLE"} /\ "underflow" \in Broken
  BY DEF Types, Broken
<1>3. CASE Write(1)
  BY <1>1, <1>3, WriteFine
<1>4. CASE Fail("underflow")
  BY <1>2, <1>4, FailFine
<1>5. CASE ~FreesNothing /\ Done(Front(Separated("BACKGROUND")))
  <2> DEFINE c == Ended("BACKGROUND")
  <2>1. /\ ListOK(c) /\ \A n \in 1 .. Len(c) : c[n].type # "SINGLE"
        /\ c[Len(c)].type = "BACKGROUND"
    BY <1>1, <1>2, <1>5, EndedOK
  <2>2. Done(c)
    BY <1>1, <1>2, <1>5, SeparatedOK
  <2> HIDE DEF c
  <2>3. Len(c) \in Nat
    BY <2>1, ListFacts
  <2>4. Finished(c)
    BY <2>1, <2>3 DEF Finished
  <2> QED
    BY <2>1, <2>2, <2>4, DoneFine
<1>6. CASE ~FreesNothing /\ AndOr("RUN_AND")
  BY <1>1, <1>2, <1>6, AndOrFine
<1>7. CASE ~FreesNothing /\ Resume(Separated("BACKGROUND"), buf, at + 1)
  <2>1. ListOK(Separated("BACKGROUND")) /\ Open(Separated("BACKGROUND"))
    BY <1>1, <1>2, <1>7, SeparatedOK
  <2> QED
    BY <1>1, <1>7, <2>1, ResumeFine
<1> QED
  BY <1>3, <1>4, <1>5, <1>6, <1>7 DEF Ampersand

LEMMA BarFine == ASSUME ParserInv, Bar PROVE Fine
<1>1. /\ fate = "scan" /\ CharAt(at) # Nul /\ ListOK(cmds) /\ Open(cmds)
      /\ buf \in Seq(Chars) /\ at + 1 \in Nat /\ at + 1 > at
  BY DEF Bar, Scan, Nul, ParserInv
<1>2. {"PIPED", "RUN_OR"} \subseteq Types \ {"SINGLE"} /\ {"underflow", "stray"} \subseteq Broken
  BY DEF Types, Broken
<1>3. CASE Write(1)
  BY <1>1, <1>3, WriteFine
<1>4. CASE Fail("underflow") \/ Fail("stray")
  BY <1>2, <1>4, FailFine
<1>5. CASE ~FreesNothing /\ AndOr("RUN_OR")
  BY <1>1, <1>2, <1>5, AndOrFine
<1>6. CASE /\ ~FreesNothing
           /\ \/ ResumeInMore(Separated("PIPED"), at + 1)
              \/ Resume(Separated("PIPED"), buf, at + 1)
  <2>1. ListOK(Separated("PIPED")) /\ Open(Separated("PIPED"))
    BY <1>1, <1>2, <1>6, SeparatedOK
  <2> QED
    BY <1>1, <1>6, <2>1, ResumeFine, ResumeInMoreFine
<1> QED
  BY <1>3, <1>4, <1>5, <1>6 DEF Bar

(* The end of a run of equal characters, the NUL at the latest *)
LEMMA RunEnds ==
    ASSUME buf \in Seq(Chars), NEW x \in Chars, NEW n \in Nat, n <= Len(buf)
    PROVE  \E m \in n .. Len(buf) :
              CharAt(m) # x /\ \A l \in n .. m - 1 : CharAt(l) = x
<1> DEFINE T == {m \in n .. Len(buf) : CharAt(m) # x}
<1>1. Len(buf) \in Nat
  BY LenProperties
<1>2. CharAt(Len(buf)) = Nul /\ Nul # x
  BY <1>1 DEF CharAt, Nul, Chars, Digits
<1>3. Len(buf) \in T /\ \A y \in T : y \in Nat
  BY <1>1, <1>2
<1>4. T \subseteq Nat /\ T # {}
  <2> HIDE DEF T
  <2> QED
    BY <1>3
<1>5. Min(T) \in T /\ \A y \in T : Min(T) <= y
  <2> HIDE DEF T
  <2> QED
    BY <1>4, MinIsLeast
<1>6. Min(T) \in n .. Len(buf) /\ CharAt(Min(T)) # x
  BY <1>5
<1>7. ASSUME NEW l \in n .. Min(T) - 1 PROVE CharAt(l) = x
  <2>1. l \in n .. Len(buf) /\ ~(Min(T) <= l)
    BY <1>1, <1>6
  <2> QED
    BY <2>1, <1>5
<1> QED
  BY <1>6, <1>7

LEMMA SemicolonFine == ASSUME ParserInv, Semicolon PROVE Fine
<1>1. /\ fate = "scan" /\ CharAt(at) # Nul /\ ListOK(cmds) /\ Open(cmds)
      /\ buf \in Seq(Chars) /\ at \in Nat
  BY DEF Semicolon, Scan, Nul, ParserInv
<1>2. CASE \E f \in Broken \cup {"error"} : Fail(f)
  BY <1>2, FailFine
<1>3. WriteFailure(cmds) \in Broken /\ {"null", "underflow", "fault", "stray"} \subseteq Broken
      /\ AfterLost \subseteq Broken \cup {"error"}
  BY WriteFailureBreaks DEF Broken, AfterLost
<1> DEFINE c == Separated("MULTICMD")
           n == NonBlank(buf, at + 2) - 1
           At(m) == CharAt(m) # "semi" /\ \A l \in n .. m - 1 : CharAt(l) = "semi"
<1>4. ASSUME ~FreesNothing PROVE ListOK(c) /\ Open(c) /\ Finished(c)
  <2>1. "MULTICMD" \in Types \ {"SINGLE"}
    BY DEF Types
  <2> QED
    BY <1>1, <1>4, <2>1, SeparatedOK, OpenFinishes
<1>5. CASE ~FreesNothing /\ DoneAtSemicolon(c)
  <2> HIDE DEF c
  <2>1. CASE cmds' = c /\ fate' = "parsed"
             /\ UNCHANGED <<buf, at, quote, target, redir, old, wrote, torn>>
    BY <1>4, <1>5, <2>1 DEF ParserInv, Fine, MovesOn, Fates
  <2>2. CASE Fail("null") \/ Fail(WriteFailure(cmds))
    BY <1>3, <2>2, FailFine
  <2> QED
    BY <1>5, <2>1, <2>2 DEF DoneAtSemicolon
<1>6. CASE ~FreesNothing /\ Done(c)
  <2> HIDE DEF c
  <2> QED
    BY <1>4, <1>6, DoneFine
<1>7. CASE /\ ~FreesNothing /\ ~AtEnd(buf, at + 2)
           /\ cmds' = c /\ at' = CHOOSE m \in n .. Len(buf) : At(m)
           /\ UNCHANGED <<buf, quote, target, redir, old, wrote, torn, fate>>
  <2> HIDE DEF c
  <2>1. n \in at + 1 .. Len(buf) /\ n \in Nat /\ n <= Len(buf) /\ Len(buf) \in Nat
    <3>1. at + 2 \in Nat /\ Len(buf) \in Nat
      BY <1>1, LenProperties
    <3>2. NonBlank(buf, at + 2) \in at + 2 .. Len(buf) - 1
      BY <1>1, <1>7, <3>1, NonBlankFound
    <3> QED
      BY <1>1, <3>1, <3>2
  <2> HIDE DEF n
  <2>2. \E m \in n .. Len(buf) : At(m)
    BY <1>1, <2>1, RunEnds DEF Chars
  <2>3. at' \in n .. Len(buf)
    BY <1>7, <2>2
  <2>4. at' > at /\ at' \in 0 .. Len(buf')
    BY <1>1, <1>7, <2>1, <2>3
  <2> QED
    BY <1>1, <1>4, <1>7, <2>4 DEF ParserInv, Fine, MovesOn
<1>8. \/ \E f \in Broken \cup {"error"} : Fail(f)
      \/ ~FreesNothing /\ DoneAtSemicolon(c)
      \/ ~FreesNothing /\ Done(c)
      \/ /\ ~FreesNothing /\ ~AtEnd(buf, at + 2)
         /\ cmds' = c /\ at' = CHOOSE m \in n .. Len(buf) : At(m)
         /\ UNCHANGED <<buf, quote, target, redir, old, wrote, torn, fate>>
  BY <1>3 DEF Semicolon
<1> QED
  BY <1>2, <1>5, <1>6, <1>7, <1>8

LEMMA BackslashFine == ASSUME ParserInv, Backslash PROVE Fine
<1> DEFINE End(m) == CharAt(m) # "bs" /\ \A l \in at .. m - 1 : CharAt(l) = "bs"
           stop == CHOOSE m \in at + 1 .. Len(buf) : End(m)
           n == (stop - at) \div 2
<1>1. /\ fate = "scan" /\ CharAt(at) = "bs" /\ ListOK(cmds) /\ Open(cmds)
      /\ buf \in Seq(Chars) /\ at \in Nat /\ Len(buf) \in Nat /\ at < Len(buf)
  BY CharType, LenProperties DEF Backslash, Scan, Nul, ParserInv
<1>2. "bs" \in Chars /\ {"stray", "error"} \subseteq Broken \cup {"error"}
  BY DEF Chars, Broken
<1>3. \E m \in at + 1 .. Len(buf) : End(m)
  <2>0. at + 1 \in Nat /\ at + 1 <= Len(buf)
    BY <1>1
  <2>1. PICK m \in at + 1 .. Len(buf) :
            CharAt(m) # "bs" /\ \A l \in at + 1 .. m - 1 : CharAt(l) = "bs"
    BY <1>1, <1>2, <2>0, RunEnds
  <2>2. \A l \in at .. m - 1 : l = at \/ l \in at + 1 .. m - 1
    BY <1>1
  <2> QED
    BY <1>1, <2>1, <2>2
<1>4. stop \in at + 1 .. Len(buf)
  BY <1>3
<1>5. \/ Fail(WriteFailure(cmds)) \/ Fail("error") \/ Fail("stray")
      \/ /\ ~(n > 0 /\ target = "argv" /\ ~Writable(cmds, n))
         /\ cmds' = IF n > 0 /\ target = "argv" THEN Written(cmds, "bs", n) ELSE cmds
         /\ wrote' = (wrote \/ n > 0)
         /\ at' = stop
         /\ UNCHANGED <<buf, quote, target, redir, old, torn, fate>>
  <2>1. \/ n > 0 /\ target = "argv" /\ ~Writable(cmds, n)
        \/ n > 0 /\ target = "fd"
        \/ stop = Len(buf)
        \/ /\ ~(n > 0 /\ target = "argv" /\ ~Writable(cmds, n))
           /\ ~(n > 0 /\ target = "fd") /\ stop # Len(buf)
    OBVIOUS
  <2> QED
    BY <2>1 DEF Backslash
<1> HIDE DEF stop
<1>6. n \in Nat
  <2>1. stop - at \in Nat
    BY <1>1, <1>4
  <2>2. \A k \in Nat : k \div 2 \in Nat
    OBVIOUS
  <2> QED
    BY <2>1, <2>2
<1> HIDE DEF n
<1>7. CASE Fail(WriteFailure(cmds)) \/ Fail("error") \/ Fail("stray")
  <2>1. {WriteFailure(cmds), "error", "stray"} \subseteq Broken \cup {"error"}
    BY <1>2, WriteFailureBreaks
  <2> QED
    BY <1>7, <2>1, FailFine
<1>8. CASE /\ ~(n > 0 /\ target = "argv" /\ ~Writable(cmds, n))
           /\ cmds' = IF n > 0 /\ target = "argv" THEN Written(cmds, "bs", n) ELSE cmds
           /\ wrote' = (wrote \/ n > 0)
           /\ at' = stop
           /\ UNCHANGED <<buf, quote, target, redir, old, torn, fate>>
  <2>1. ListOK(cmds') /\ Open(cmds')
    <3>1. CASE n > 0 /\ target = "argv"
      <4>1. ListOK(Written(cmds, "bs", n)) /\ Open(Written(cmds, "bs", n))
        BY <1>1, <1>2, <1>6, <1>8, <3>1, WrittenOK
      <4> QED
        BY <1>8, <3>1, <4>1
    <3>2. CASE ~(n > 0 /\ target = "argv")
      BY <1>1, <1>8, <3>2
    <3> QED
      BY <3>1, <3>2
  <2>2. at' > at /\ at' \in 0 .. Len(buf')
    BY <1>1, <1>4, <1>8
  <2> QED
    BY <1>1, <1>8, <2>1, <2>2 DEF ParserInv, Fine, MovesOn
<1> QED
  BY <1>5, <1>7, <1>8

LEMMA EndOfBufferFine == ASSUME ParserInv, EndOfBuffer PROVE Fine
<1>1. /\ fate = "scan" /\ ListOK(cmds) /\ Open(cmds)
      /\ buf \in Seq(Chars) /\ at \in 0 .. Len(buf) /\ Len(buf) \in Nat
  BY LenProperties DEF EndOfBuffer, Scan, ParserInv
<1>2. CASE Done(cmds)
  BY <1>1, <1>2, DoneFine, OpenFinishes
<1>3. CASE NoMoreLines \/ Fail("stray")
  BY <1>3, FailFine DEF NoMoreLines, Broken
<1>4. CASE /\ buf' \in Appended \ {buf} /\ at' = at + 1 /\ torn' = TRUE
           /\ UNCHANGED <<quote, target, list, old, wrote, fate>>
  <2>1. buf' \in Seq(Chars) /\ Len(buf') > Len(buf) /\ Len(buf') \in Nat
    BY <1>1, <1>4, AppendedTypes, LenProperties
  <2>2. at' > at /\ at' \in 0 .. Len(buf')
    BY <1>1, <1>4, <2>1
  <2>3. UNCHANGED <<quote, target, cmds, redir, old, wrote, fate>>
    BY <1>4 DEF list
  <2> QED
    BY <1>4, <2>1, <2>2, <2>3 DEF ParserInv, Fine, MovesOn
<1> QED
  BY <1>2, <1>3, <1>4 DEF EndOfBuffer

LEMMA RedirectedFine ==
    ASSUME ParserInv, fate = "scan", NEW t \in {"FD2FD", "OUT_REDIR", "OUT_APPN"},
           NEW o \in {0, 1}, Redirected(t, o)
    PROVE  Fine
<1> DEFINE x == CharAt(at + 1 + o)
           atStart == at = First
           r == [type |-> t, lhs |-> IF atStart THEN 1 ELSE LhsFd]
           Into(goal, n) ==
              /\ cmds' = IF atStart THEN cmds ELSE WithArgs(cmds, TakenBack)
              /\ redir' = r /\ target' = goal /\ at' = n
              /\ UNCHANGED <<buf, quote, old, wrote, torn, fate>>
<1>1. /\ ListOK(cmds) /\ Open(cmds) /\ buf \in Seq(Chars)
      /\ at \in Nat /\ at + 1 + o \in Nat /\ Len(buf) \in Nat
  BY LenProperties DEF ParserInv
<1>2. \/ Fail("underflow") \/ Fail("error")
      \/ /\ atStart \/ ~FreesNothing
         /\ \/ /\ ~AtEnd(buf, at + 2 + o)
               /\ \E goal \in {"fd", "file"} : Into(goal, at + 3 + o)
            \/ x # Nul /\ Into("file", at + 1 + o)
  BY DEF Redirected
<1>3. CASE Fail("underflow") \/ Fail("error")
  BY <1>3, FailFine DEF Broken
<1>4. ASSUME atStart \/ ~FreesNothing,
             NEW goal \in {"fd", "file"}, NEW n \in at + 1 .. Len(buf), Into(goal, n)
      PROVE  Fine
  <2>1. ListOK(cmds') /\ Open(cmds')
    <3>1. CASE atStart
      BY <1>1, <1>4, <3>1
    <3>2. CASE ~atStart
      <4>1. ListOK(WithArgs(cmds, TakenBack)) /\ Open(WithArgs(cmds, TakenBack))
        BY <1>1, <1>4, <3>2, TakenBackOK, WithArgsOK
      <4> QED
        BY <1>4, <3>2, <4>1
    <3> QED
      BY <3>1, <3>2
  <2>2. redir'.type = t
    BY <1>4
  <2>3. at' > at /\ at' \in 0 .. Len(buf')
    BY <1>1, <1>4
  <2> QED
    BY <1>4, <2>1, <2>2, <2>3 DEF ParserInv, Fine, MovesOn
<1>5. ~AtEnd(buf, at + 2 + o) => at + 3 + o \in at + 1 .. Len(buf)
  <2>1. ASSUME ~AtEnd(buf, at + 2 + o) PROVE at + 3 + o \in at + 1 .. Len(buf)
    <3>1. \E m \in at + 2 + o + 1 .. Len(buf) : TRUE
      BY <2>1 DEF AtEnd
    <3> QED
      BY <1>1, <3>1
  <2> QED
    BY <2>1
<1>6. x # Nul => at + 1 + o \in at + 1 .. Len(buf)
  BY <1>1, CharType
<1> HIDE DEF Into
<1> QED
  BY <1>2, <1>3, <1>4, <1>5, <1>6

LEMMA RedirectFine == ASSUME ParserInv, Redirect PROVE Fine
<1>1. fate = "scan" /\ CharAt(at) # Nul
  BY DEF Redirect, Scan, Nul
<1>2. CASE Write(1)
  BY <1>1, <1>2, WriteFine
<1>3. CASE \E f \in Broken \cup {"error"} : Fail(f)
  BY <1>3, FailFine
<1>4. CASE \/ Redirected("OUT_APPN", 1) \/ Redirected("FD2FD", 0)
           \/ Redirected("OUT_REDIR", 0)
  BY <1>1, <1>4, RedirectedFine
<1>5. {"underflow", "fault"} \subseteq Broken
  BY DEF Broken
<1>6. \/ Write(1) \/ Fail("underflow") \/ Fail("fault") \/ Fail("error")
      \/ Redirected("OUT_APPN", 1) \/ Redirected("FD2FD", 0)
      \/ Redirected("OUT_REDIR", 0)
  BY DEF Redirect
<1> QED
  BY <1>2, <1>3, <1>4, <1>5, <1>6

LEMMA WordFine == ASSUME ParserInv, Dollar \/ Hash \/ Ordinary PROVE Fine
<1>1. fate = "scan" /\ CharAt(at) # Nul /\ ListOK(cmds) /\ Open(cmds)
  BY DEF Dollar, Hash, Ordinary, Scan, Nul, Digits, ParserInv
<1>2. CASE \E n \in {1, 2, 3} : Write(n)
  BY <1>1, <1>2, WriteFine
<1>3. CASE Fail("underflow")
  BY <1>3, FailFine DEF Broken
<1>4. CASE ~FreesNothing /\ Done(WithArgs(cmds, TakenBack))
  <2>1. ListOK(WithArgs(cmds, TakenBack)) /\ Open(WithArgs(cmds, TakenBack))
    BY <1>1, <1>4, TakenBackOK, WithArgsOK
  <2> QED
    BY <1>4, <2>1, DoneFine, OpenFinishes
<1> QED
  BY <1>2, <1>3, <1>4 DEF Dollar, Hash, Ordinary

-----------------------------------------------------------------------------
(* How many characters of a kind a text has *)

Separators == {"&", "|", "semi"}
Ends == Separators \cup {">", "#"}
Quotes == {"'", "dq"}

Seen(b, n, S) == {l \in 1 .. n : b[l] \in S}
Weight(b, n) == n + Cardinality(Seen(b, n, {"$"})) + 2 * Cardinality(Seen(b, n, {"bq"}))

LEMMA SeenFacts ==
    ASSUME NEW b \in Seq(Chars), NEW n \in Nat, NEW S
    PROVE  /\ IsFiniteSet(Seen(b, n, S)) /\ Cardinality(Seen(b, n, S)) \in Nat
           /\ Cardinality(Seen(b, n + 1, S)) =
                Cardinality(Seen(b, n, S)) + (IF b[n + 1] \in S THEN 1 ELSE 0)
<1> DEFINE T == Seen(b, n, S)
<1>1. IsFiniteSet(T)
  <2>1. IsFiniteSet(1 .. n)
    BY FS_Interval
  <2>2. T \in SUBSET (1 .. n)
    BY DEF Seen
  <2> QED
    BY <2>1, <2>2, FS_Subset
<1>2. Cardinality(T) \in Nat
  BY <1>1, FS_CardinalityType
<1>3. n + 1 \notin T
  BY DEF Seen
<1>4. Seen(b, n + 1, S) = IF b[n + 1] \in S THEN T \cup {n + 1} ELSE T
  BY DEF Seen
<1> HIDE DEF T
<1>5. Cardinality(T \cup {n + 1}) = Cardinality(T) + 1
  BY <1>1, <1>3, FS_AddElement
<1>6. Cardinality(Seen(b, n + 1, S)) = Cardinality(T) + (IF b[n + 1] \in S THEN 1 ELSE 0)
  BY <1>2, <1>4, <1>5
<1> QED
  BY <1>1, <1>2, <1>6 DEF T

LEMMA SeenGrows ==
    ASSUME NEW b \in Seq(Chars), NEW n \in Nat, NEW k \in Nat, n <= k, NEW S
    PROVE  Cardinality(Seen(b, n, S)) <= Cardinality(Seen(b, k, S))
<1>1. IsFiniteSet(Seen(b, k, S))
  BY SeenFacts
<1>2. Seen(b, n, S) \in SUBSET Seen(b, k, S)
  BY DEF Seen
<1> QED
  BY <1>1, <1>2, FS_Subset

LEMMA WeightFacts ==
    ASSUME NEW b \in Seq(Chars), NEW n \in Nat
    PROVE  /\ Weight(b, n) \in Nat
           /\ Weight(b, n + 1) >= Weight(b, n) + 1
           /\ b[n + 1] = "$" => Weight(b, n + 1) = Weight(b, n) + 2
           /\ b[n + 1] = "bq" => Weight(b, n + 1) = Weight(b, n) + 3
<1> DEFINE d == Cardinality(Seen(b, n, {"$"}))
           dd == Cardinality(Seen(b, n + 1, {"$"}))
           q == Cardinality(Seen(b, n, {"bq"}))
           qq == Cardinality(Seen(b, n + 1, {"bq"}))
<1>1. d \in Nat /\ q \in Nat
  BY SeenFacts
<1>2. dd = d + (IF b[n + 1] \in {"$"} THEN 1 ELSE 0)
  BY SeenFacts
<1>3. qq = q + (IF b[n + 1] \in {"bq"} THEN 1 ELSE 0)
  BY SeenFacts
<1>4. Weight(b, n) = n + d + 2 * q /\ Weight(b, n + 1) = n + 1 + dd + 2 * qq
  BY DEF Weight
<1> HIDE DEF d, dd, q, qq
<1>5. ~(b[n + 1] = "$" /\ b[n + 1] = "bq")
  OBVIOUS
<1>6. CASE b[n + 1] = "$"
  <2>1. dd = d + 1 /\ qq = q
    BY <1>2, <1>3, <1>5, <1>6, <1>1
  <2> QED
    BY <1>1, <1>4, <1>5, <1>6, <2>1
<1>7. CASE b[n + 1] = "bq"
  <2>1. dd = d /\ qq = q + 1
    BY <1>2, <1>3, <1>5, <1>7, <1>1
  <2> QED
    BY <1>1, <1>4, <1>5, <1>7, <2>1
<1>8. CASE b[n + 1] # "$" /\ b[n + 1] # "bq"
  <2>1. dd = d /\ qq = q
    BY <1>1, <1>2, <1>3, <1>8
  <2> QED
    BY <1>1, <1>4, <1>8, <2>1
<1> QED
  BY <1>6, <1>7, <1>8

LEMMA WeightGrows ==
    ASSUME NEW b \in Seq(Chars), NEW n \in Nat, NEW k \in Nat, n <= k
    PROVE  Weight(b, k) >= Weight(b, n) + (k - n)
<1> DEFINE d(i) == Cardinality(Seen(b, i, {"$"}))
           q(i) == Cardinality(Seen(b, i, {"bq"}))
<1>1. d(n) \in Nat /\ q(n) \in Nat /\ d(k) \in Nat /\ q(k) \in Nat
  BY SeenFacts
<1>2. d(n) <= d(k) /\ q(n) <= q(k)
  BY SeenGrows
<1>3. Weight(b, n) = n + d(n) + 2 * q(n) /\ Weight(b, k) = k + d(k) + 2 * q(k)
  BY DEF Weight
<1> HIDE DEF d, q
<1> QED
  BY <1>1, <1>2, <1>3

(* d is b or begins with it. *)
Longer(b, d) == Len(b) <= Len(d) /\ \A l \in 1 .. Len(b) : d[l] = b[l]

LEMMA SeenInLonger ==
    ASSUME NEW b \in Seq(Chars), NEW d \in Seq(Chars), Longer(b, d),
           NEW n \in Nat, n <= Len(b), NEW S
    PROVE  Seen(d, n, S) = Seen(b, n, S)
<1>1. \A l \in 1 .. n : d[l] = b[l]
  BY LenProperties DEF Longer
<1> QED
  BY <1>1 DEF Seen

LEMMA CountIs ==
    ASSUME NEW b \in Seq(Chars), NEW S
    PROVE  Count(b, S) = Cardinality(Seen(b, Len(b), S))
<1>1. DOMAIN b = 1 .. Len(b)
  BY LenProperties
<1> QED
  BY <1>1 DEF Count, Seen

LEMMA CountsOne ==
    ASSUME NEW b \in Seq(Chars), NEW S, NEW n \in 1 .. Len(b), b[n] \in S
    PROVE  Count(b, S) > 0
<1>1. Len(b) \in Nat
  BY LenProperties
<1>2. IsFiniteSet(Seen(b, Len(b), S)) /\ {n} \in SUBSET Seen(b, Len(b), S)
  BY <1>1, SeenFacts DEF Seen
<1>3. Cardinality({n}) = 1 /\ Cardinality({n}) <= Cardinality(Seen(b, Len(b), S))
  BY <1>2, FS_Singleton, FS_Subset
<1> QED
  BY <1>1, <1>3, CountIs, SeenFacts

LEMMA CountsTwo ==
    ASSUME NEW b \in Seq(Chars), NEW S,
           NEW m \in 1 .. Len(b), NEW n \in 1 .. Len(b), m # n, b[m] \in S, b[n] \in S
    PROVE  Count(b, S) > 1
<1> DEFINE T == {m}  U == T \cup {n}  V == Seen(b, Len(b), S)
<1>1. Len(b) \in Nat
  BY LenProperties
<1>2. IsFiniteSet(V) /\ Cardinality(V) \in Nat /\ U \in SUBSET V
  BY <1>1, SeenFacts DEF Seen
<1>3. IsFiniteSet(T) /\ Cardinality(T) = 1 /\ n \notin T
  BY FS_Singleton
<1>4. Count(b, S) = Cardinality(V)
  BY CountIs
<1> HIDE DEF T, V
<1>5. Cardinality(U) = Cardinality(T) + 1
  BY <1>3, FS_AddElement
<1> HIDE DEF U
<1>6. Cardinality(U) <= Cardinality(V)
  BY <1>2, FS_Subset
<1> QED
  BY <1>2, <1>3, <1>4, <1>5, <1>6

LEMMA AppendedLonger ==
    ASSUME buf \in Seq(Chars), NEW b \in Appended
    PROVE  Longer(buf, b)
<1>1. PICK more \in MoreLines : b = buf \o more
  BY DEF Appended
<1>2. more \in Seq(Chars)
  BY LinesAssumption
<1>3. /\ Len(b) = Len(buf) + Len(more) /\ Len(more) \in Nat /\ Len(buf) \in Nat
      /\ \A l \in 1 .. Len(buf) : b[l] = buf[l]
  BY <1>1, <1>2, ConcatProperties, LenProperties
<1> QED
  BY <1>3 DEF Longer

-----------------------------------------------------------------------------
(* What is in the list *)

(* A command without any argument *)
Hollow(c) == \E n \in 1 .. Len(c) : c[n].argv = <<>>

LEMMA WithArgsAt ==
    ASSUME NEW c, ListOK(c), NEW a, ArgvOK(a)
    PROVE  Hollow(WithArgs(c, a)) => Hollow(c) \/ a = <<>>
<1> DEFINE e == [type |-> c[Len(c)].type, argv |-> a]
<1>1. /\ Len(c) \in 1 .. Len(c) /\ Len(c) \in Nat
      /\ c[Len(c)] \in [type : Types, argv : Seq(Strings)]
      /\ c[Len(c)].type \in Types
  BY ListFacts
<1>2. [c[Len(c)] EXCEPT !.argv = a] = e
  BY <1>1
<1>3. WithArgs(c, a) = Changed(c, e)
  BY <1>2 DEF WithArgs, Changed
<1>4. CommandOK(e) /\ e.argv = a
  BY <1>1 DEF ArgvOK, CommandOK
<1> HIDE DEF e
<1> DEFINE d == Changed(c, e)
<1>5. /\ ListOK(d) /\ Len(d) = Len(c) /\ Args(d) = e.argv
      /\ \A n \in 1 .. Len(c) - 1 : d[n] = c[n]
  BY <1>4, ChangedLast
<1> HIDE DEF d
<1>6. Args(d) = d[Len(d)].argv
  BY <1>5, ListFacts
<1>7. ASSUME NEW n \in 1 .. Len(d), d[n].argv = <<>>
      PROVE  Hollow(c) \/ a = <<>>
  <2>1. CASE n = Len(c)
    BY <1>4, <1>5, <1>6, <1>7, <2>1
  <2>2. CASE n # Len(c)
    <3>1. n \in 1 .. Len(c) - 1 /\ n \in 1 .. Len(c)
      BY <1>1, <1>5, <2>2
    <3> QED
      BY <1>5, <1>7, <3>1 DEF Hollow
  <2> QED
    BY <2>1, <2>2
<1>8. Hollow(d) => Hollow(c) \/ a = <<>>
  BY <1>7 DEF Hollow
<1> QED
  BY <1>3, <1>8 DEF d

LEMMA WrittenArgs ==
    ASSUME NEW c, ListOK(c), NEW n \in Nat, Writable(c, n),
           NEW x \in Chars \cup {Nul}
    PROVE  /\ Args(c) # <<>> /\ Len(Args(c)) \in Nat \ {0}
           /\ Len(Args(Written(c, x, n))) = Len(Args(c))
           /\ \A m \in 1 .. Len(Args(c)) - 1 : Args(Written(c, x, n))[m] = Args(c)[m]
           /\ Len(Args(Written(c, x, n))[Len(Args(c))]) = Len(Args(c)[Len(Args(c))]) + n
           /\ Len(Args(c)[Len(Args(c))]) \in Nat
           /\ Hollow(Written(c, x, n)) => Hollow(c)
<1> DEFINE a == Args(c)
           xs == [m \in 1 .. n |-> x]
           new == Last(a) \o xs
           d == [a EXCEPT ![Len(a)] = new]
<1>1. ArgvOK(a) /\ a # <<>> /\ Len(Last(a)) + n <= MaxEachArg
  BY ListFacts DEF Writable
<1>2. a \in Seq(Strings) /\ Len(a) \in Nat \ {0} /\ Len(a) \in 1 .. Len(a)
  BY <1>1, EmptySeq DEF ArgvOK
<1>3. Last(a) \in Strings /\ Last(a) = a[Len(a)] /\ Len(a[Len(a)]) \in Nat
  BY <1>2, ElementOfSeq, LenProperties DEF Last, Strings
<1>4. xs \in Strings /\ Len(xs) = n
  BY DEF Strings
<1> HIDE DEF xs, a
<1>5. new \in Strings /\ Len(new) = Len(Last(a)) + n
  BY <1>3, <1>4, ConcatProperties DEF Strings
<1> HIDE DEF new
<1>6. /\ d \in Seq(Strings) /\ Len(d) = Len(a)
      /\ \A m \in 1 .. Len(a) : d[m] = IF m = Len(a) THEN new ELSE a[m]
  BY <1>2, <1>5, ExceptSeq
<1> HIDE DEF d
<1>7. ArgvOK(d)
  BY <1>1, <1>2, <1>5, <1>6 DEF ArgvOK
<1>8. Written(c, x, n) = WithArgs(c, d)
  BY DEF Written, d, new, xs, a
<1>9. d # <<>>
  BY <1>2, <1>6, EmptySeq
<1>10. Args(Written(c, x, n)) = d
  BY <1>7, <1>8, WithArgsOK
<1>11. Hollow(Written(c, x, n)) => Hollow(c)
  BY <1>7, <1>8, <1>9, WithArgsAt
<1>12. /\ \A m \in 1 .. Len(a) - 1 : d[m] = a[m]
       /\ Len(d[Len(a)]) = Len(a[Len(a)]) + n
  <2>1. d[Len(a)] = new
    BY <1>2, <1>6
  <2>2. ASSUME NEW m \in 1 .. Len(a) - 1 PROVE d[m] = a[m]
    <3>1. m \in 1 .. Len(a) /\ m # Len(a)
      BY <1>2
    <3> QED
      BY <1>6, <3>1
  <2> QED
    BY <1>3, <1>5, <2>1, <2>2
<1> QED
  BY <1>1, <1>2, <1>3, <1>6, <1>10, <1>11, <1>12 DEF a

(* What is taken back is an empty argument behind another one. *)
LEMMA TakenBackArgs ==
    ASSUME ListOK(cmds), ~FreesNothing
    PROVE  /\ Len(TakenBack) \in Nat /\ Len(TakenBack) <= Len(Args(cmds))
           /\ Len(Args(cmds)) \in Nat
           /\ \A m \in 1 .. Len(TakenBack) : TakenBack[m] = Args(cmds)[m]
           /\ Args(cmds) = <<>> \/ Args(cmds) = << <<>> >> \/ TakenBack # <<>>
           /\ Len(TakenBack) = Len(Args(cmds)) /\ Args(cmds) # <<>> =>
                  TakenBack[Len(TakenBack)] # <<>>
<1> DEFINE a == Args(cmds)
<1>1. ArgvOK(a)
  BY ListFacts
<1>2. /\ a \in Seq(Strings) /\ Len(a) \in Nat /\ (a # <<>> => Len(a) \in 1 .. Len(a))
      /\ \A m \in 1 .. Len(a) : a[m] \in Strings
  BY <1>1, EmptySeq, ElementOfSeq, LenProperties DEF ArgvOK
<1>3. ArgChar = IF a = <<>> THEN old ELSE Len(a[Len(a)])
  BY DEF ArgChar, Last
<1>4. TakenBack = IF ArgChar = 0 THEN Front(a) ELSE a
  BY DEF TakenBack
<1>5. ~(ArgChar = 0 /\ a = <<>>)
  BY DEF FreesNothing
<1> HIDE DEF a
<1>6. CASE ArgChar # 0
  <2>1. a # <<>> => Len(a[Len(a)]) # 0
    BY <1>3, <1>6
  <2>2. a # <<>> => a[Len(a)] # <<>>
    BY <2>1, EmptySeq
  <2>3. TakenBack = a
    BY <1>4, <1>6
  <2> QED
    BY <1>2, <2>2, <2>3 DEF a
<1>7. CASE ArgChar = 0
  <2>1. a # <<>> /\ Len(a) \in Nat \ {0} /\ Len(a[Len(a)]) = 0 /\ a[Len(a)] \in Strings
    BY <1>2, <1>3, <1>5, <1>7
  <2>2. a[Len(a)] = <<>>
    BY <2>1, EmptySeq DEF Strings
  <2>3. TakenBack = Front(a)
    BY <1>4, <1>7
  <2>4. Front(a) = SubSeq(a, 1, Len(a) - 1)
    BY DEF Front
  <2>5. /\ Len(Front(a)) = Len(a) - 1
        /\ \A m \in 1 .. Len(a) - 1 : Front(a)[m] = a[m]
    <3> DEFINE k == Len(a) - 1
    <3>1. /\ k \in Nat /\ 1 \in Int /\ k \in Int /\ k - 1 + 1 = k
          /\ \A m \in 1 .. k : a[m] \in Strings
      BY <1>2, <2>1
    <3> HIDE DEF k
    <3>2. /\ Len(SubSeq(a, 1, k)) = IF 1 <= k THEN k - 1 + 1 ELSE 0
          /\ \A m \in 1 .. k - 1 + 1 : SubSeq(a, 1, k)[m] = a[1 + m - 1]
      BY <3>1, SubSeqProperties
    <3>3. \A m \in 1 .. k : 1 + m - 1 = m
      OBVIOUS
    <3>4. Len(SubSeq(a, 1, k)) = k
      BY <3>1, <3>2
    <3>5. \A m \in 1 .. k : SubSeq(a, 1, k)[m] = a[m]
      BY <3>1, <3>2, <3>3
    <3> QED
      BY <2>4, <3>4, <3>5 DEF k
  <2>6. a = << <<>> >> \/ Front(a) # <<>>
    <3>1. CASE Len(a) = 1
      <4>1. << <<>> >> \in Seq(Strings) /\ Len(<< <<>> >>) = 1 /\ << <<>> >>[1] = <<>>
        BY <2>1, <2>2
      <4>2. \A m \in 1 .. Len(a) : a[m] = << <<>> >>[m]
        BY <2>2, <3>1, <4>1
      <4> QED
        BY <1>2, <3>1, <4>1, <4>2, SeqEqual
    <3>2. CASE Len(a) # 1
      <4>1. Len(Front(a)) # 0
        BY <2>1, <2>5, <3>2
      <4> QED
        BY <4>1, EmptySeq
    <3> QED
      BY <3>1, <3>2
  <2>7. Len(Front(a)) \in Nat /\ Len(Front(a)) <= Len(a) /\ Len(Front(a)) # Len(a)
    BY <2>1, <2>5
  <2> QED
    BY <1>2, <2>3, <2>5, <2>6, <2>7 DEF a
<1> QED
  BY <1>6, <1>7

LEMMA EndedArgs ==
    ASSUME ListOK(cmds), Open(cmds), ~FreesNothing, NEW t \in Types \ {"SINGLE"}
    PROVE  /\ Args(Ended(t)) = TakenBack
           /\ Hollow(Ended(t)) => Hollow(cmds) \/ TakenBack = <<>>
           /\ Args(Separated(t)) = << <<>> >>
           /\ Hollow(Separated(t)) => Hollow(Ended(t))
<1> DEFINE c == WithArgs(cmds, TakenBack)
<1>1. ListOK(c) /\ Open(c) /\ Args(c) = TakenBack
      /\ (Hollow(c) => Hollow(cmds) \/ TakenBack = <<>>)
  BY TakenBackOK, WithArgsOK, WithArgsAt
<1>2. Len(c) = Len(cmds) /\ Len(cmds) \in Nat \ {0}
  BY ListFacts DEF WithArgs
<1> HIDE DEF c
<1> DEFINE e == [type |-> t, argv |-> c[Len(c)].argv]
<1>3. c[Len(c)] \in [type : Types, argv : Seq(Strings)] /\ ArgvOK(c[Len(c)].argv)
      /\ Args(c) = c[Len(c)].argv
  BY <1>1, ListFacts
<1>4. [c[Len(c)] EXCEPT !.type = t] = e
  BY <1>3
<1>5. Ended(t) = Changed(c, e)
  BY <1>2, <1>4 DEF Ended, Changed, c
<1>6. CommandOK(e) /\ e.argv = Args(c)
  BY <1>3 DEF CommandOK
<1> HIDE DEF e
<1> DEFINE d == Changed(c, e)
<1>7. /\ ListOK(d) /\ Len(d) = Len(c) /\ Args(d) = e.argv
      /\ \A n \in 1 .. Len(c) - 1 : d[n] = c[n]
  BY <1>1, <1>6, ChangedLast
<1> HIDE DEF d
<1>8. Args(d) = d[Len(d)].argv /\ Len(d) \in Nat \ {0}
      /\ d \in Seq([type : Types, argv : Seq(Strings)])
  BY <1>7, ListFacts
<1>9. Hollow(d) => Hollow(c)
  <2>1. ASSUME NEW n \in 1 .. Len(d), d[n].argv = <<>> PROVE c[n].argv = <<>>
    <3>1. CASE n = Len(c)
      BY <1>3, <1>6, <1>7, <1>8, <2>1, <3>1
    <3>2. CASE n # Len(c)
      BY <1>7, <1>8, <2>1, <3>2
    <3> QED
      BY <3>1, <3>2
  <2> QED
    BY <1>7, <2>1 DEF Hollow
<1> DEFINE s == Append(d, NewCommand)
<1>10. Separated(t) = s
  BY <1>5 DEF Separated, Ended, d
<1>11. NewCommand \in [type : Types, argv : Seq(Strings)] /\ NewCommand.argv = << <<>> >>
  BY NewCommandOK DEF NewCommand
<1>12. Len(s) = Len(d) + 1 /\ s[Len(d) + 1] = NewCommand /\ \A n \in 1 .. Len(d) : s[n] = d[n]
  BY <1>8, <1>11
<1> HIDE DEF s
<1>13. Args(s) = << <<>> >>
  BY <1>11, <1>12 DEF Args, Last
<1>14. Hollow(s) => Hollow(d)
  <2>1. ASSUME NEW n \in 1 .. Len(s), s[n].argv = <<>>
        PROVE  n \in 1 .. Len(d) /\ d[n].argv = <<>>
    <3>1. n # Len(d) + 1
      BY <1>11, <1>12, <2>1
    <3> QED
      BY <1>8, <1>12, <2>1, <3>1
  <2> QED
    BY <2>1 DEF Hollow
<1> QED
  BY <1>1, <1>5, <1>6, <1>7, <1>9, <1>10, <1>13, <1>14 DEF d

-----------------------------------------------------------------------------
(* Why filpinfo goes wrong *)

(* A > is the reason for a target other than argv. *)
RedirSeen == target # "argv" \/ redir.type # "NONE" => \E q \in 1 .. at : buf[q] = ">"

(* Since the last separator there was no word; an open quote is behind it. *)
NoWordSince ==
    \E m \in 0 .. at :
        /\ m = 0 \/ buf[m] \in Separators
        /\ NoWord(m, at + 1)
        /\ quote # "none" => \E q \in m + 1 .. at : buf[q] \in Quotes

(* A command with one empty argument.  After ; the scan may resume behind  *)
(* a word, but then on a blank, which ends the empty argument.             *)
StillBare ==
    Args(cmds) = << <<>> >> =>
        \/ WordlessCommand \/ NoWordSince
        \/ target = "argv" /\ quote = "none" /\ CharAt(at) = "sp"

(* A blank for every argument, a character or more for all that is written *)
Fits(c, b, n) ==
    /\ Len(Args(c)) - 1 <= Cardinality(Seen(b, n, {"sp"}))
    /\ \A m \in 1 .. Len(Args(c)) : Len(Args(c)[m]) <= Weight(b, n)
    /\ \A m \in 1 .. Len(Args(c)) - 1 : Args(c)[m] # <<>>

(* A backslash before the NUL that is not stepped over: it followed >&. *)
EscapedEnd == at = Len(buf) /\ Before = "bs" /\ quote = "none" => target # "argv"

Scanning == StillBare /\ Fits(cmds, buf, at) /\ EscapedEnd

ReasonInv ==
    /\ RedirSeen
    /\ Hollow(cmds) => WordlessCommand
    /\ fate = "start" => at = 0 /\ quote = "none"
    /\ fate \in {"start", "scan"} => Scanning
    /\ GoesWrongForAReason

(* What may end the scan with f *)
Excused(f) ==
    /\ f = "stray" =>
            \/ quote # "none" \/ Last(buf) \in {"bs", "|"}
            \/ \E m \in 2 .. Len(buf), n \in 2 .. Len(buf) :
                    /\ m < n /\ buf[m - 1] = "bs" /\ buf[m] = "semi"
                    /\ buf[n] \in {"'", "dq"}
    /\ f = "null" => Unfinished \/ Count(buf, {"semi"}) > 0
    /\ f = "fault" => Count(buf, {">"}) > 1
    /\ f = "underflow" => WordlessCommand
    /\ f = "overflow" =>
            \/ Count(buf, {"sp"}) >= Slots
            \/ Len(buf) + Count(buf, {"$"}) + 2 * Count(buf, {"bq"}) >= MaxEachArg
    /\ f = "error" => Count(buf, {">"}) > 0

LEMMA FailReason ==
    ASSUME ReasonInv, NEW f \in Broken \cup {"error"}, Fail(f), Excused(f)
    PROVE  ReasonInv'
<1>1. /\ UNCHANGED <<buf, at, quote, target, cmds, redir, old, wrote, torn>>
      /\ fate' = f /\ f \notin {"start", "scan", "parsed"}
  BY DEF Fail, Broken
<1>2. RedirSeen' /\ (Hollow(cmds) => WordlessCommand)'
  BY <1>1 DEF ReasonInv, RedirSeen, Hollow, WordlessCommand, NoWord
<1>3. Excused(f)'
  BY <1>1 DEF Excused, Unfinished, WordlessCommand, NoWord
<1>4. GoesWrongForAReason'
  BY <1>1, <1>3 DEF GoesWrongForAReason, Excused
<1> QED
  BY <1>1, <1>2, <1>4 DEF ReasonInv

(* The text only grows. *)
Grows == buf \in Seq(Chars) /\ buf' \in Seq(Chars) /\ Longer(buf, buf') /\ (torn => torn')

LEMMA SameGrows ==
    ASSUME buf \in Seq(Chars), UNCHANGED <<buf, torn>>
    PROVE  Grows
BY LenProperties DEF Grows, Longer

LEMMA NoWordStays ==
    ASSUME Grows, NEW m \in Nat, NEW n \in Nat, n <= Len(buf) + 1, NoWord(m, n)
    PROVE  NoWord(m, n)'
<1>1. Len(buf) \in Nat /\ \A l \in 1 .. Len(buf) : buf'[l] = buf[l]
  BY LenProperties DEF Grows, Longer
<1>2. ASSUME NEW l \in m + 1 .. n - 1
      PROVE  \/ buf'[l] \in {"sp", "'", "dq", "bs"}
             \/ torn' /\ \E q \in m + 1 .. l - 1 : buf'[q] \in {"'", "dq"}
             \/ \E q \in 1 .. l - 1 : buf'[q] = ">"
  <2>1. l \in 1 .. Len(buf) /\ \A q \in m + 1 .. l - 1 : q \in 1 .. Len(buf)
    BY <1>1
  <2>2. \A q \in 1 .. l - 1 : q \in 1 .. Len(buf)
    BY <1>1, <2>1
  <2>3. \/ buf[l] \in {"sp", "'", "dq", "bs"}
        \/ torn /\ \E q \in m + 1 .. l - 1 : buf[q] \in {"'", "dq"}
        \/ \E q \in 1 .. l - 1 : buf[q] = ">"
    BY <1>2 DEF NoWord
  <2> QED
    BY <1>1, <2>1, <2>2, <2>3 DEF Grows
<1> QED
  BY <1>2 DEF NoWord

LEMMA WordlessStays ==
    ASSUME Grows, WordlessCommand
    PROVE  WordlessCommand'
<1>1. /\ Len(buf) \in Nat /\ Len(buf') \in Nat /\ Len(buf) <= Len(buf')
      /\ \A l \in 1 .. Len(buf) : buf'[l] = buf[l]
  BY LenProperties DEF Grows, Longer
<1>2. PICK m \in 0 .. Len(buf), n \in 1 .. Len(buf) :
          /\ m < n /\ buf[n] \in {"&", "|", "semi", ">", "#"}
          /\ m = 0 \/ buf[m] \in {"&", "|", "semi"}
          /\ NoWord(m, n)
  BY DEF WordlessCommand
<1>3. NoWord(m, n)'
  BY <1>1, <1>2, NoWordStays
<1>4. m \in 0 .. Len(buf') /\ n \in 1 .. Len(buf') /\ (m # 0 => m \in 1 .. Len(buf))
  BY <1>1, <1>2
<1>5. buf'[n] = buf[n] /\ (m # 0 => buf'[m] = buf[m])
  BY <1>1, <1>4
<1> QED
  BY <1>2, <1>3, <1>4, <1>5 DEF WordlessCommand

LEMMA RedirSeenStays ==
    ASSUME ParserInv, RedirSeen, Grows, at' \in Nat, at' >= at, UNCHANGED <<target, redir>>
    PROVE  RedirSeen'
<1>1. at \in Nat /\ Len(buf) \in Nat /\ at <= Len(buf)
      /\ \A l \in 1 .. Len(buf) : buf'[l] = buf[l]
  BY LenProperties DEF Grows, Longer, ParserInv
<1>2. \A q \in 1 .. at : q \in 1 .. at' /\ buf'[q] = buf[q]
  BY <1>1
<1> QED
  BY <1>2 DEF RedirSeen

LEMMA FitsFurther ==
    ASSUME NEW b \in Seq(Chars), NEW d \in Seq(Chars), Longer(b, d), NEW c, ListOK(c),
           NEW n \in Nat, NEW k \in Nat, n <= k, n <= Len(b), Fits(c, b, n)
    PROVE  Fits(c, d, k)
<1>1. /\ Seen(d, n, {"sp"}) = Seen(b, n, {"sp"}) /\ Seen(d, n, {"$"}) = Seen(b, n, {"$"})
      /\ Seen(d, n, {"bq"}) = Seen(b, n, {"bq"})
  BY SeenInLonger
<1>2. Weight(d, n) = Weight(b, n)
  BY <1>1 DEF Weight
<1>3. Weight(d, k) >= Weight(b, n) + (k - n) /\ Weight(b, n) \in Nat /\ Weight(d, k) \in Nat
  BY <1>2, WeightGrows, WeightFacts
<1>4. /\ Cardinality(Seen(b, n, {"sp"})) <= Cardinality(Seen(d, k, {"sp"}))
      /\ Cardinality(Seen(b, n, {"sp"})) \in Nat /\ Cardinality(Seen(d, k, {"sp"})) \in Nat
  BY <1>1, SeenGrows, SeenFacts
<1>5. ArgvOK(Args(c))
  BY ListFacts
<1>6. /\ Len(Args(c)) \in Nat
      /\ \A m \in 1 .. Len(Args(c)) : Len(Args(c)[m]) \in Nat
  <2>1. \A m \in 1 .. Len(Args(c)) : Args(c)[m] \in Strings
    BY <1>5, ElementOfSeq DEF ArgvOK
  <2> QED
    BY <1>5, <2>1, LenProperties DEF ArgvOK, Strings
<1>7. \A m \in 1 .. Len(Args(c)) : Len(Args(c)[m]) <= Weight(d, k)
  BY <1>3, <1>6 DEF Fits
<1>8. Len(Args(c)) - 1 <= Cardinality(Seen(d, k, {"sp"}))
  BY <1>4, <1>6 DEF Fits
<1> QED
  BY <1>7, <1>8 DEF Fits

LEMMA WeightIs ==
    ASSUME buf \in Seq(Chars)
    PROVE  Weight(buf, Len(buf)) = Len(buf) + Count(buf, {"$"}) + 2 * Count(buf, {"bq"})
BY CountIs DEF Weight

(* Too much is written, or to no argument. *)
LEMMA WriteFailureReason ==
    ASSUME ParserInv, NEW c, ListOK(c), NEW n \in Nat, ~Writable(c, n),
           Hollow(c) => WordlessCommand,
           Args(c) # <<>> => Len(Args(c)[Len(Args(c))]) + n <= Weight(buf, Len(buf)) + 1
    PROVE  Excused(WriteFailure(c)) /\ WriteFailure(c) \in Broken
<1>1. WriteFailure(c) \in {"underflow", "overflow"}
  BY DEF WriteFailure
<1>2. CASE Args(c) = <<>>
  <2>1. Hollow(c)
    BY <1>2, ListFacts DEF Hollow
  <2>2. WriteFailure(c) = "underflow"
    BY <1>2 DEF WriteFailure
  <2> QED
    BY <2>1, <2>2, WriteFailureBreaks DEF Excused
<1>3. CASE Args(c) # <<>>
  <2> DEFINE k == Len(Args(c)[Len(Args(c))])  w == Weight(buf, Len(buf))
  <2>1. k + n > MaxEachArg /\ k \in Nat /\ MaxEachArg \in Nat
    <3>1. ArgvOK(Args(c))
      BY ListFacts
    <3>2. Len(Args(c)) \in 1 .. Len(Args(c)) /\ Args(c) \in Seq(Strings)
      BY <1>3, <3>1, EmptySeq DEF ArgvOK
    <3>3. k \in Nat
      BY <3>2, ElementOfSeq, LenProperties DEF Strings
    <3>4. ~(Len(Last(Args(c))) + n <= MaxEachArg) /\ Last(Args(c)) = Args(c)[Len(Args(c))]
      BY <1>3 DEF Writable, Last
    <3>5. ~(k + n <= MaxEachArg)
      BY <3>4
    <3> HIDE DEF k
    <3> QED
      BY <3>3, <3>5, SizeFacts
  <2>2. w \in Nat
    BY WeightFacts, LenProperties DEF ParserInv
  <2>3. k + n <= w + 1
    BY <1>3
  <2>4. w >= MaxEachArg
    <3> HIDE DEF k, w
    <3> QED
      BY <2>1, <2>2, <2>3
  <2>5. Len(buf) + Count(buf, {"$"}) + 2 * Count(buf, {"bq"}) >= MaxEachArg
    BY <2>4, WeightIs DEF ParserInv
  <2>6. WriteFailure(c) = "overflow"
    BY <1>3 DEF WriteFailure
  <2> QED
    BY <2>5, <2>6, WriteFailureBreaks DEF Excused
<1> QED
  BY <1>2, <1>3

(* The last argument of c is one that fits. *)
ShortEnough(c) == \A m \in 1 .. Len(Args(c)) : Len(Args(c)[m]) <= Weight(buf, Len(buf))

LEMMA FittingIsShort ==
    ASSUME ParserInv, NEW c, ListOK(c), Fits(c, buf, at)
    PROVE  ShortEnough(c)
<1>1. Len(buf) \in Nat /\ at \in Nat /\ at <= Len(buf) /\ buf \in Seq(Chars) /\ Longer(buf, buf)
  BY LenProperties DEF ParserInv, Longer
<1>2. Fits(c, buf, Len(buf))
  BY <1>1, FitsFurther
<1> QED
  BY <1>2 DEF Fits, ShortEnough

LEMMA DoneReason ==
    ASSUME ParserInv, ReasonInv, NEW c, ListOK(c), Done(c),
           Hollow(c) => WordlessCommand, ShortEnough(c)
    PROVE  ReasonInv'
<1>1. CASE wrote /\ ~Writable(c, 1)
  <2> DEFINE k == Len(Args(c)[Len(Args(c))])  w == Weight(buf, Len(buf))
  <2>1. Fail(WriteFailure(c))
    BY <1>1 DEF Done
  <2>2. ASSUME Args(c) # <<>> PROVE k + 1 <= w + 1
    <3>1. Len(Args(c)) \in 1 .. Len(Args(c)) /\ Args(c) \in Seq(Strings)
      BY <2>2, ListFacts, EmptySeq DEF ArgvOK
    <3>2. k \in Nat /\ w \in Nat
      BY <3>1, ElementOfSeq, LenProperties, WeightFacts DEF Strings, ParserInv
    <3>3. k <= w
      BY <3>1 DEF ShortEnough
    <3> HIDE DEF k, w
    <3> QED
      BY <3>2, <3>3
  <2>3. Excused(WriteFailure(c)) /\ WriteFailure(c) \in Broken
    BY <1>1, <2>2, WriteFailureReason
  <2> QED
    BY <2>1, <2>3, FailReason
<1>2. CASE ~(wrote /\ ~Writable(c, 1))
  <2>1. /\ cmds' = IF wrote THEN Written(c, Nul, 1) ELSE c
        /\ fate' = "parsed" /\ UNCHANGED <<buf, at, quote, target, redir, old, wrote, torn>>
    BY <1>2 DEF Done
  <2>2. Hollow(cmds') => Hollow(c)
    <3>1. CASE wrote
      BY <1>2, <2>1, <3>1, WrittenArgs
    <3>2. CASE ~wrote
      BY <2>1, <3>2
    <3> QED
      BY <3>1, <3>2
  <2>3. buf \in Seq(Chars) /\ at \in Nat
    BY DEF ParserInv
  <2>4. Grows
    BY <2>1, <2>3, SameGrows
  <2>5. RedirSeen'
    BY <2>1, <2>3, <2>4, RedirSeenStays DEF ReasonInv
  <2>6. Hollow(cmds') => WordlessCommand'
    BY <2>2, <2>4, WordlessStays
  <2>7. GoesWrongForAReason'
    <3>1. (\E n \in DOMAIN cmds' : cmds'[n].argv = <<>>) => WordlessCommand'
      <4>1. ListOK(cmds')
        <5>1. CASE wrote
          BY <1>2, <2>1, <5>1, WrittenOK
        <5>2. CASE ~wrote
          BY <2>1, <5>2
        <5> QED
          BY <5>1, <5>2
      <4>2. DOMAIN cmds' = 1 .. Len(cmds')
        BY <4>1, LenProperties DEF ListOK
      <4> QED
        BY <2>6, <4>2 DEF Hollow
    <3> QED
      BY <2>1, <3>1 DEF GoesWrongForAReason
  <2> QED
    BY <2>1, <2>5, <2>6, <2>7 DEF ReasonInv
<1> QED
  BY <1>1, <1>2

LEMMA BareListFits ==
    ASSUME NEW c, Args(c) = << <<>> >>, NEW b \in Seq(Chars), NEW n \in Nat
    PROVE  Fits(c, b, n)
<1>1. Len(<< <<>> >>) = 1 /\ << <<>> >>[1] = <<>> /\ Len(<<>>) = 0
  OBVIOUS
<1>2. Weight(b, n) \in Nat /\ Cardinality(Seen(b, n, {"sp"})) \in Nat
  BY SeenFacts, WeightFacts
<1>3. \A m \in 1 .. Len(Args(c)) : m = 1 /\ Len(Args(c)[m]) = 0
  BY <1>1
<1>4. Len(Args(c)) - 1 = 0 /\ (1 .. Len(Args(c)) - 1) = {}
  BY <1>1
<1> QED
  BY <1>2, <1>3, <1>4 DEF Fits

(* Behind the separator b[n] there are but blanks. *)
LEMMA NoWordRun ==
    ASSUME NEW n \in Nat, NEW k \in Nat, at' = k,
           \A l \in n .. k - 1 : buf'[l + 1] = "sp"
    PROVE  NoWord(n, at + 1)'
<1>1. ASSUME NEW l \in n + 1 .. (k + 1) - 1 PROVE buf'[l] = "sp"
  <2>1. l - 1 \in n .. k - 1 /\ (l - 1) + 1 = l
    OBVIOUS
  <2> QED
    BY <2>1
<1>2. \A l \in n + 1 .. (at' + 1) - 1 : buf'[l] = "sp"
  BY <1>1
<1> QED
  BY <1>2 DEF NoWord

(* A new command begins behind the separator b[n]. *)
LEMMA ResumeReason ==
    ASSUME ParserInv, ReasonInv, fate = "scan", quote = "none",
           NEW c, ListOK(c), Args(c) = << <<>> >>, Hollow(c) => WordlessCommand,
           NEW b \in Seq(Chars), Longer(buf, b),
           NEW n \in Nat, at < n, n <= Len(buf), buf[n] \in Separators, Resume(c, b, n)
    PROVE  ReasonInv'
<1>1. /\ buf \in Seq(Chars) /\ at \in Nat /\ Len(buf) \in Nat /\ Len(b) \in Nat
      /\ n \in 1 .. Len(buf) /\ Len(buf) <= Len(b) /\ b[n] = buf[n]
  <2>1. buf \in Seq(Chars) /\ at \in Nat /\ Len(buf) \in Nat /\ Len(b) \in Nat
    BY LenProperties DEF ParserInv
  <2>2. n \in 1 .. Len(buf)
    BY <2>1
  <2> QED
    BY <2>1, <2>2 DEF Longer
<1>2. CASE AtEnd(b, n)
  <2>1. Done(c)
    BY <1>2 DEF Resume
  <2>2. Fits(c, buf, at)
    BY <1>1, BareListFits
  <2> QED
    BY <2>1, <2>2, FittingIsShort, DoneReason
<1>3. CASE ~AtEnd(b, n)
  <2> DEFINE k == NonBlank(b, n)
  <2>1. /\ cmds' = c /\ buf' = b /\ at' = k
        /\ UNCHANGED <<quote, target, redir, old, wrote, torn, fate>>
    BY <1>3 DEF Resume
  <2>2. k \in n .. Len(b) - 1 /\ \A l \in n .. k - 1 : b[l + 1] = "sp"
    BY <1>3, NonBlankFound
  <2> HIDE DEF k
  <2>3. k \in Nat /\ at < k /\ n <= k /\ k < Len(b)
    BY <1>1, <2>2
  <2>4. Grows
    BY <1>1, <2>1 DEF Grows
  <2>5. at' \in Nat /\ at' >= at /\ RedirSeen
    BY <1>1, <2>1, <2>3 DEF ReasonInv
  <2>6. RedirSeen'
    BY <2>1, <2>4, <2>5, RedirSeenStays
  <2>7. Hollow(cmds') => WordlessCommand'
    BY <2>1, <2>4, WordlessStays
  <2>8. NoWord(n, at + 1)'
    BY <2>1, <2>2, <2>3, NoWordRun
  <2>9. n \in 0 .. at' /\ buf'[n] \in Separators
    BY <1>1, <2>1, <2>3
  <2>10. NoWordSince'
    BY <2>1, <2>8, <2>9 DEF NoWordSince
  <2>11. Fits(cmds', buf', at')
    BY <2>1, <2>3, BareListFits
  <2>12. at' # Len(buf')
    BY <1>1, <2>1, <2>3
  <2>13. GoesWrongForAReason'
    BY <2>1 DEF GoesWrongForAReason
  <2>14. Scanning'
    BY <2>10, <2>11, <2>12 DEF Scanning, StillBare, EscapedEnd
  <2> QED
    BY <2>1, <2>6, <2>7, <2>13, <2>14 DEF ReasonInv
<1> QED
  BY <1>2, <1>3

LEMMA ResumeInMoreReason ==
    ASSUME ParserInv, ReasonInv, fate = "scan", quote = "none",
           NEW c, ListOK(c), Args(c) = << <<>> >>, Hollow(c) => WordlessCommand,
           NEW n \in Nat, at < n, n <= Len(buf), buf[n] \in Separators, Unfinished,
           ResumeInMore(c, n)
    PROVE  ReasonInv'
<1>1. CASE NoMoreLines
  BY <1>1, FailReason DEF NoMoreLines, Broken, Excused
<1>2. CASE \E b \in Appended : Resume(c, b, n)
  <2>1. PICK b \in Appended : Resume(c, b, n)
    BY <1>2
  <2>2. b \in Seq(Chars) /\ Longer(buf, b)
    BY AppendedTypes, AppendedLonger DEF ParserInv
  <2> QED
    BY <2>1, <2>2, ResumeReason
<1> QED
  BY <1>1, <1>2 DEF ResumeInMore

LEMMA ScanReason ==
    ASSUME ReasonInv, Grows, fate' = "scan", RedirSeen', Scanning',
           Hollow(cmds') => WordlessCommand
    PROVE  ReasonInv'
<1>1. Hollow(cmds') => WordlessCommand'
  BY WordlessStays
<1>2. GoesWrongForAReason'
  BY DEF GoesWrongForAReason
<1> QED
  BY <1>1, <1>2 DEF ReasonInv

LEMMA PlaceFacts ==
    ASSUME ParserInv
    PROVE  /\ buf \in Seq(Chars) /\ Len(buf) \in Nat /\ at \in Nat /\ at <= Len(buf)
           /\ CharAt(at) # Nul => at < Len(buf) /\ buf[at + 1] = CharAt(at)
           /\ CharAt(at) \in Chars \cup {Nul}
           /\ ListOK(cmds)
<1>1. buf \in Seq(Chars) /\ Len(buf) \in Nat /\ at \in Nat /\ at <= Len(buf) /\ ListOK(cmds)
  BY LenProperties DEF ParserInv
<1> QED
  BY <1>1, CharType DEF CharAt

(* What ends a command without a word *)
LEMMA EndsBare ==
    ASSUME ParserInv, ReasonInv, fate = "scan", CharAt(at) \in Ends,
           Args(cmds) = << <<>> >>
    PROVE  WordlessCommand
<1>1. StillBare
  BY DEF ReasonInv, Scanning
<1>2. CharAt(at) # Nul /\ CharAt(at) # "sp"
  BY DEF Ends, Separators, Nul
<1>3. at \in Nat /\ Len(buf) \in Nat /\ at < Len(buf) /\ buf[at + 1] \in Ends
  BY <1>2, PlaceFacts
<1>4. CASE NoWordSince
  <2>1. PICK m \in 0 .. at : (m = 0 \/ buf[m] \in Separators) /\ NoWord(m, at + 1)
    BY <1>4 DEF NoWordSince
  <2> DEFINE n == at + 1
  <2>2. m \in 0 .. Len(buf) /\ n \in 1 .. Len(buf) /\ m < n
    BY <1>3, <2>1
  <2>3. buf[n] \in {"&", "|", "semi", ">", "#"} /\ NoWord(m, n)
    BY <1>3, <2>1 DEF Ends, Separators
  <2> HIDE DEF n
  <2> QED
    BY <2>1, <2>2, <2>3 DEF WordlessCommand, Separators
<1> QED
  BY <1>1, <1>2, <1>4 DEF StillBare

LEMMA NothingToFree ==
    ASSUME ParserInv, ReasonInv, FreesNothing, Fail("underflow")
    PROVE  ReasonInv'
<1>1. Args(cmds) = <<>> /\ ListOK(cmds)
  BY DEF FreesNothing, ParserInv
<1>2. Hollow(cmds)
  BY <1>1, ListFacts DEF Hollow
<1> QED
  BY <1>2, FailReason DEF ReasonInv, Excused, Broken

LEMMA TakenBackReason ==
    ASSUME ParserInv, ReasonInv, fate = "scan", ~FreesNothing
    PROVE  /\ CharAt(at) \in Ends /\ TakenBack = <<>> => WordlessCommand
           /\ TakenBack # << <<>> >>
           /\ \A m \in 1 .. Len(TakenBack) : Len(TakenBack[m]) <= Weight(buf, at)
           /\ Len(TakenBack) - 1 <= Cardinality(Seen(buf, at, {"sp"}))
           /\ \A m \in 1 .. Len(TakenBack) - 1 : TakenBack[m] # <<>>
<1> DEFINE a == Args(cmds)  b == TakenBack
<1>1. /\ Len(b) \in Nat /\ Len(b) <= Len(a) /\ Len(a) \in Nat
      /\ \A m \in 1 .. Len(b) : b[m] = a[m]
      /\ a = <<>> \/ a = << <<>> >> \/ b # <<>>
      /\ Len(b) = Len(a) /\ a # <<>> => b[Len(b)] # <<>>
  BY TakenBackArgs DEF ParserInv
<1>2. Fits(cmds, buf, at) /\ ListOK(cmds)
  BY DEF ReasonInv, Scanning, ParserInv
<1>3. /\ Len(a) - 1 <= Cardinality(Seen(buf, at, {"sp"}))
      /\ \A m \in 1 .. Len(a) : Len(a[m]) <= Weight(buf, at)
      /\ \A m \in 1 .. Len(a) - 1 : a[m] # <<>>
  BY <1>2 DEF Fits
<1>4. a = <<>> => WordlessCommand
  BY <1>2, ListFacts DEF Hollow, ReasonInv
<1>5. a = << <<>> >> /\ CharAt(at) \in Ends => WordlessCommand
  BY EndsBare
<1>6. Cardinality(Seen(buf, at, {"sp"})) \in Nat
  BY SeenFacts, PlaceFacts
<1> HIDE DEF a, b
<1>7. b # << <<>> >>
  <2> SUFFICES ASSUME b = << <<>> >> PROVE FALSE
    OBVIOUS
  <2>1. Len(b) = 1 /\ b[1] = <<>>
    OBVIOUS
  <2>2. a[1] = <<>> /\ Len(a) >= 1
    BY <1>1, <2>1
  <2>3. CASE Len(a) = 1
    <3>1. a # <<>>
      BY <2>3
    <3> QED
      BY <1>1, <2>1, <2>3, <3>1
  <2>4. CASE Len(a) # 1
    <3>1. 1 \in 1 .. Len(a) - 1
      BY <1>1, <2>2, <2>4
    <3> QED
      BY <1>3, <2>2, <3>1
  <2> QED
    BY <2>3, <2>4
<1>8. /\ \A m \in 1 .. Len(b) : Len(b[m]) <= Weight(buf, at)
      /\ \A m \in 1 .. Len(b) - 1 : b[m] # <<>>
  <2>1. \A m \in 1 .. Len(b) : m \in 1 .. Len(a)
    BY <1>1
  <2>2. \A m \in 1 .. Len(b) - 1 : m \in 1 .. Len(a) - 1 /\ m \in 1 .. Len(b)
    BY <1>1
  <2> QED
    BY <1>1, <1>3, <2>1, <2>2
<1>9. Len(b) - 1 <= Cardinality(Seen(buf, at, {"sp"}))
  BY <1>1, <1>3, <1>6
<1> QED
  BY <1>1, <1>4, <1>5, <1>7, <1>8, <1>9 DEF b

(* The list whose last command is left with the arguments a *)
LEMMA ShortArgs ==
    ASSUME ParserInv, NEW c, NEW a, Args(c) = a,
           \A m \in 1 .. Len(a) : Len(a[m]) \in Nat /\ Len(a[m]) <= Weight(buf, at)
    PROVE  ShortEnough(c)
<1>1. Weight(buf, at) <= Weight(buf, Len(buf))
      /\ Weight(buf, at) \in Nat /\ Weight(buf, Len(buf)) \in Nat
  <2>1. /\ Weight(buf, Len(buf)) >= Weight(buf, at) + (Len(buf) - at)
        /\ Weight(buf, at) \in Nat /\ Weight(buf, Len(buf)) \in Nat
    BY PlaceFacts, WeightGrows, WeightFacts
  <2> QED
    BY <2>1, PlaceFacts
<1> QED
  BY <1>1 DEF ShortEnough

LEMMA TakenBackShort ==
    ASSUME ParserInv, ReasonInv, fate = "scan", ~FreesNothing, NEW c, Args(c) = TakenBack
    PROVE  ShortEnough(c)
<1>1. ArgvOK(TakenBack)
  BY TakenBackOK DEF ParserInv
<1>2. \A m \in 1 .. Len(TakenBack) : Len(TakenBack[m]) \in Nat
  <2>1. \A m \in 1 .. Len(TakenBack) : TakenBack[m] \in Strings
    BY <1>1, ElementOfSeq DEF ArgvOK
  <2> QED
    BY <2>1, LenProperties DEF Strings
<1> QED
  BY <1>2, TakenBackReason, ShortArgs

LEMMA SeparatedReason ==
    ASSUME ParserInv, ReasonInv, fate = "scan", ~FreesNothing, CharAt(at) \in Separators,
           NEW t \in Types \ {"SINGLE"}
    PROVE  /\ ListOK(Separated(t)) /\ Args(Separated(t)) = << <<>> >>
           /\ Hollow(Separated(t)) => WordlessCommand
           /\ ListOK(Ended(t)) /\ ShortEnough(Ended(t))
           /\ Hollow(Ended(t)) => WordlessCommand
           /\ Front(Separated(t)) = Ended(t)
<1>1. ListOK(cmds) /\ Open(cmds)
  BY DEF ParserInv
<1>2. /\ Args(Ended(t)) = TakenBack
      /\ Hollow(Ended(t)) => Hollow(cmds) \/ TakenBack = <<>>
      /\ Args(Separated(t)) = << <<>> >>
      /\ Hollow(Separated(t)) => Hollow(Ended(t))
  BY <1>1, EndedArgs
<1>3. ListOK(Separated(t)) /\ ListOK(Ended(t)) /\ Front(Separated(t)) = Ended(t)
  BY <1>1, SeparatedOK, EndedOK
<1>4. ShortEnough(Ended(t))
  BY <1>2, TakenBackShort
<1>5. CharAt(at) \in Ends
  BY DEF Ends
<1>6. (TakenBack = <<>> => WordlessCommand) /\ (Hollow(cmds) => WordlessCommand)
  BY <1>5, TakenBackReason DEF ReasonInv
<1> QED
  BY <1>2, <1>3, <1>4, <1>6

(* Since the last separator there is still no word. *)
LEMMA NoWordOn ==
    ASSUME ParserInv, NoWordSince, Grows, NEW k \in Nat, at' = k, at <= k,
           \A l \in at + 1 .. k :
              \/ buf'[l] \in {"sp", "'", "dq", "bs"}
              \/ torn' /\ quote # "none"
              \/ \E q \in 1 .. l - 1 : buf'[q] = ">",
           quote' # "none" => quote # "none" \/ \E q \in at + 1 .. k : buf'[q] \in Quotes
    PROVE  NoWordSince'
<1>1. /\ at \in Nat /\ Len(buf) \in Nat /\ at <= Len(buf)
      /\ \A l \in 1 .. Len(buf) : buf'[l] = buf[l]
  BY PlaceFacts DEF Grows, Longer
<1>2. PICK m \in 0 .. at :
          /\ m = 0 \/ buf[m] \in Separators
          /\ NoWord(m, at + 1)
          /\ quote # "none" => \E q \in m + 1 .. at : buf[q] \in Quotes
  BY DEF NoWordSince
<1>3. m \in Nat /\ m <= at /\ m \in 0 .. k
  BY <1>1, <1>2
<1>4. m = 0 \/ buf'[m] \in Separators
  BY <1>1, <1>2, <1>3
<1>5. \A l \in m + 1 .. at : l \in 1 .. Len(buf) /\ l \in m + 1 .. (at + 1) - 1
  BY <1>1, <1>3
<1>6. ASSUME NEW l \in m + 1 .. k
      PROVE  \/ buf'[l] \in {"sp", "'", "dq", "bs"}
             \/ torn' /\ \E q \in m + 1 .. l - 1 : buf'[q] \in {"'", "dq"}
             \/ \E q \in 1 .. l - 1 : buf'[q] = ">"
  <2>1. CASE l \in m + 1 .. at
    <3>1. \/ buf[l] \in {"sp", "'", "dq", "bs"}
          \/ torn /\ \E q \in m + 1 .. l - 1 : buf[q] \in {"'", "dq"}
          \/ \E q \in 1 .. l - 1 : buf[q] = ">"
      BY <1>2, <1>5, <2>1 DEF NoWord
    <3>2. \A q \in 1 .. l : q \in 1 .. Len(buf)
      BY <1>1, <1>3, <2>1
    <3>3. /\ l \in 1 .. l /\ \A q \in m + 1 .. l - 1 : q \in 1 .. l
          /\ \A q \in 1 .. l - 1 : q \in 1 .. l
      BY <1>1, <1>3, <2>1
    <3>4. torn => torn'
      BY DEF Grows
    <3> QED
      BY <1>1, <3>1, <3>2, <3>3, <3>4
  <2>2. CASE l \in at + 1 .. k
    <3>1. CASE torn' /\ quote # "none"
      <4>1. PICK q \in m + 1 .. at : buf[q] \in Quotes
        BY <1>2, <3>1
      <4>2. q \in m + 1 .. l - 1 /\ q \in 1 .. Len(buf)
        BY <1>1, <1>3, <2>2, <4>1
      <4> QED
        BY <1>1, <3>1, <4>1, <4>2 DEF Quotes
    <3> QED
      BY <2>2, <3>1
  <2>3. l \in m + 1 .. at \/ l \in at + 1 .. k
    BY <1>1, <1>3
  <2> QED
    BY <2>1, <2>2, <2>3
<1>7. NoWord(m, at + 1)'
  <2>1. \A l \in m + 1 .. (at' + 1) - 1 : l \in m + 1 .. k
    BY <1>1, <1>3
  <2> QED
    BY <1>6, <2>1 DEF NoWord
<1>8. quote' # "none" => \E q \in m + 1 .. k : buf'[q] \in Quotes
  <2>1. CASE quote # "none"
    <3>1. PICK q \in m + 1 .. at : buf[q] \in Quotes
      BY <1>2, <2>1
    <3>2. q \in m + 1 .. k /\ q \in 1 .. Len(buf)
      BY <1>1, <1>3
    <3> QED
      BY <1>1, <3>1, <3>2
  <2>2. CASE \E q \in at + 1 .. k : buf'[q] \in Quotes
    <3>1. \A q \in at + 1 .. k : q \in m + 1 .. k
      BY <1>1, <1>3
    <3> QED
      BY <2>2, <3>1
  <2> QED
    BY <2>1, <2>2
<1> QED
  BY <1>3, <1>4, <1>7, <1>8 DEF NoWordSince

-----------------------------------------------------------------------------
(* Every case of the switch has its reason *)

LEMMA RedirectSeen ==
    ASSUME ParserInv, ReasonInv, target # "argv" \/ redir.type # "NONE"
    PROVE  /\ \E q \in 1 .. at : buf[q] = ">"
           /\ Count(buf, {">"}) > 0
<1>1. PICK q \in 1 .. at : buf[q] = ">"
  BY DEF ReasonInv, RedirSeen
<1>2. q \in 1 .. Len(buf) /\ buf \in Seq(Chars)
  BY PlaceFacts
<1> QED
  BY <1>1, <1>2, CountsOne

(* One step on, without a word *)
LEMMA StillBareOn ==
    ASSUME ParserInv, ReasonInv, fate = "scan", Args(cmds') = Args(cmds),
           Grows, NEW k \in Nat, at' = k, at <= k, CharAt(at) # "sp",
           NoWordSince => NoWordSince'
    PROVE  StillBare'
<1>1. ASSUME Args(cmds) = << <<>> >> PROVE WordlessCommand' \/ NoWordSince'
  BY <1>1, WordlessStays DEF ReasonInv, Scanning, StillBare
<1>2. Args(cmds)' = Args(cmds')
  BY DEF Args, Last
<1> QED
  BY <1>1, <1>2 DEF StillBare

LEMMA OneOn ==
    ASSUME ParserInv, CharAt(at) # Nul, UNCHANGED <<buf, torn>>, at' = at + 1
    PROVE  /\ Grows /\ at' \in Nat /\ at <= at + 1 /\ at + 1 \in Nat /\ at + 1 <= Len(buf)
           /\ buf'[at + 1] = CharAt(at) /\ Before' = CharAt(at)
           /\ Longer(buf, buf) /\ at' >= at
<1>1. /\ buf \in Seq(Chars) /\ at \in Nat /\ at < Len(buf) /\ Len(buf) \in Nat
      /\ buf[at + 1] = CharAt(at)
  BY PlaceFacts
<1>2. Grows
  BY <1>1, SameGrows
<1>3. Longer(buf, buf)
  BY <1>1 DEF Longer
<1>4. Before' = CharAt(at)
  <2>1. at' # 0 /\ at' - 1 = at /\ at' - 1 < Len(buf')
    BY <1>1
  <2>2. Before' = buf'[(at' - 1) + 1]
    BY <2>1 DEF Before, CharAt
  <2> QED
    BY <1>1, <2>1, <2>2
<1> QED
  BY <1>1, <1>2, <1>3, <1>4

LEMMA ToggleReason ==
    ASSUME ParserInv, ReasonInv, fate = "scan", NEW q, Toggle(q), CharAt(at) \in Quotes
    PROVE  ReasonInv'
<1>1. /\ UNCHANGED <<buf, target, cmds, redir, torn, fate>> /\ at' = at + 1
  BY DEF Toggle, Next1, list
<1>2. CharAt(at) \notin {Nul, "sp", "bs"}
  BY DEF Quotes, Nul
<1>3. /\ Grows /\ at' \in Nat /\ at <= at + 1 /\ at + 1 \in Nat /\ at + 1 <= Len(buf)
      /\ buf'[at + 1] = CharAt(at) /\ Before' = CharAt(at)
      /\ Longer(buf, buf) /\ at' >= at
  BY <1>1, <1>2, OneOn
<1>4. at \in Nat /\ buf \in Seq(Chars) /\ ListOK(cmds) /\ at <= Len(buf)
  BY PlaceFacts
<1>5. ASSUME NoWordSince PROVE NoWordSince'
  <2>1. \A l \in at + 1 .. at + 1 : l = at + 1
    BY <1>4
  <2>2. \A l \in at + 1 .. at + 1 : buf'[l] \in {"sp", "'", "dq", "bs"}
    BY <1>3, <2>1 DEF Quotes
  <2>3. \E l \in at + 1 .. at + 1 : buf'[l] \in Quotes
    BY <1>3, <1>4
  <2> QED
    BY <1>1, <1>3, <1>5, <2>2, <2>3, NoWordOn
<1>6. StillBare'
  BY <1>1, <1>2, <1>3, <1>5, StillBareOn
<1>7. Fits(cmds', buf', at')
  <2>1. Fits(cmds, buf, at)
    BY DEF ReasonInv, Scanning
  <2> QED
    BY <1>1, <1>3, <1>4, <2>1, FitsFurther
<1>8. EscapedEnd'
  BY <1>2, <1>3 DEF EscapedEnd
<1>9. RedirSeen'
  BY <1>1, <1>3, RedirSeenStays DEF ReasonInv
<1>10. Scanning'
  BY <1>6, <1>7, <1>8 DEF Scanning
<1>11. Hollow(cmds') => WordlessCommand
  BY <1>1 DEF ReasonInv
<1> QED
  BY <1>1, <1>3, <1>9, <1>10, <1>11, ScanReason

(* What is written keeps to the bound, and makes an argument of none. *)
LEMMA WrittenFits ==
    ASSUME ParserInv, Fits(cmds, buf, at), NEW n \in Nat, Writable(cmds, n),
           NEW x \in Chars \cup {Nul},
           NEW k \in Nat, at <= k, Weight(buf, k) >= Weight(buf, at) + n
    PROVE  /\ Fits(Written(cmds, x, n), buf, k)
           /\ n > 0 => Args(Written(cmds, x, n)) # << <<>> >>
           /\ Hollow(Written(cmds, x, n)) => Hollow(cmds)
<1> DEFINE a == Args(cmds)
           e == Args(Written(cmds, x, n))
<1>1. /\ Len(a) \in Nat \ {0} /\ Len(e) = Len(a)
      /\ \A m \in 1 .. Len(a) - 1 : e[m] = a[m]
      /\ Len(e[Len(a)]) = Len(a[Len(a)]) + n
      /\ Len(a[Len(a)]) \in Nat
      /\ Hollow(Written(cmds, x, n)) => Hollow(cmds)
  BY WrittenArgs DEF ParserInv
<1>2. /\ Len(a) - 1 <= Cardinality(Seen(buf, at, {"sp"}))
      /\ \A m \in 1 .. Len(a) : Len(a[m]) <= Weight(buf, at)
      /\ \A m \in 1 .. Len(a) - 1 : a[m] # <<>>
  BY DEF Fits
<1>3. /\ Cardinality(Seen(buf, at, {"sp"})) \in Nat /\ Cardinality(Seen(buf, k, {"sp"})) \in Nat
      /\ Cardinality(Seen(buf, at, {"sp"})) <= Cardinality(Seen(buf, k, {"sp"}))
      /\ Weight(buf, at) \in Nat /\ Weight(buf, k) \in Nat
  BY PlaceFacts, SeenFacts, SeenGrows, WeightFacts
<1>4. \A m \in 1 .. Len(a) : Len(a[m]) \in Nat
  <2>1. ArgvOK(a)
    BY ListFacts DEF ParserInv
  <2>2. \A m \in 1 .. Len(a) : a[m] \in Strings
    BY <2>1, ElementOfSeq DEF ArgvOK
  <2> QED
    BY <2>2, LenProperties DEF Strings
<1> HIDE DEF a, e
<1>5. ASSUME NEW m \in 1 .. Len(e) PROVE Len(e[m]) <= Weight(buf, k)
  <2>1. CASE m = Len(a)
    <3>1. Len(a[Len(a)]) <= Weight(buf, at)
      BY <1>1, <1>2
    <3> QED
      BY <1>1, <1>3, <2>1, <3>1
  <2>2. CASE m # Len(a)
    <3>1. m \in 1 .. Len(a) - 1 /\ m \in 1 .. Len(a)
      BY <1>1, <2>2
    <3>2. Len(e[m]) = Len(a[m]) /\ Len(a[m]) <= Weight(buf, at) /\ Len(a[m]) \in Nat
      BY <1>1, <1>2, <1>4, <3>1
    <3> QED
      BY <1>3, <3>2
  <2> QED
    BY <2>1, <2>2
<1>6. Len(e) - 1 <= Cardinality(Seen(buf, k, {"sp"}))
  BY <1>1, <1>2, <1>3
<1>7. \A m \in 1 .. Len(e) - 1 : e[m] # <<>>
  BY <1>1, <1>2
<1>8. Fits(Written(cmds, x, n), buf, k)
  BY <1>5, <1>6, <1>7 DEF Fits, e
<1>9. ASSUME n > 0, e = << <<>> >> PROVE FALSE
  <2>1. Len(e) = 1 /\ e[1] = <<>> /\ Len(<<>>) = 0
    BY <1>9
  <2>2. Len(a) = 1 /\ Len(e[1]) = 0
    BY <1>1, <2>1
  <2>3. Len(a[1]) + n = 0 /\ Len(a[1]) \in Nat
    BY <1>1, <2>2
  <2> QED
    BY <1>9, <2>3
<1> QED
  BY <1>1, <1>8, <1>9 DEF e

LEMMA TooMuchWritten ==
    ASSUME ParserInv, ReasonInv, fate = "scan", NEW n \in Nat, ~Writable(cmds, n),
           NEW k \in Nat, k <= Len(buf), Weight(buf, k) + 1 >= Weight(buf, at) + n,
           Fail(WriteFailure(cmds))
    PROVE  ReasonInv'
<1>1. Fits(cmds, buf, at) /\ ListOK(cmds) /\ (Hollow(cmds) => WordlessCommand)
  BY DEF ReasonInv, Scanning, ParserInv
<1>2. Weight(buf, Len(buf)) >= Weight(buf, k) + (Len(buf) - k)
      /\ Weight(buf, k) \in Nat /\ Weight(buf, Len(buf)) \in Nat /\ Weight(buf, at) \in Nat
  BY PlaceFacts, WeightGrows, WeightFacts
<1>3. ASSUME Args(cmds) # <<>>
      PROVE  Len(Args(cmds)[Len(Args(cmds))]) + n <= Weight(buf, Len(buf)) + 1
  <2> DEFINE s == Len(Args(cmds)[Len(Args(cmds))])
  <2>1. Len(Args(cmds)) \in 1 .. Len(Args(cmds)) /\ Args(cmds) \in Seq(Strings)
    BY <1>1, <1>3, ListFacts, EmptySeq DEF ArgvOK
  <2>2. s \in Nat /\ s <= Weight(buf, at)
    BY <1>1, <2>1, ElementOfSeq, LenProperties DEF Strings, Fits
  <2> HIDE DEF s
  <2>3. Len(buf) \in Nat /\ k <= Len(buf)
    BY PlaceFacts
  <2>4. s + n <= Weight(buf, Len(buf)) + 1
    BY <1>2, <2>2, <2>3
  <2> QED
    BY <2>4 DEF s
<1>4. Excused(WriteFailure(cmds)) /\ WriteFailure(cmds) \in Broken
  BY <1>1, <1>3, WriteFailureReason
<1> QED
  BY <1>4, FailReason

LEMMA WriteReason ==
    ASSUME ParserInv, ReasonInv, fate = "scan", NEW n \in {1, 2, 3}, Write(n),
           CharAt(at) \notin {Nul, "bs"}, Weight(buf, at + 1) >= Weight(buf, at) + n
    PROVE  ReasonInv'
<1> DEFINE x == CharAt(at)  c == Written(cmds, x, n)
<1>1. /\ at \in Nat /\ at + 1 \in Nat /\ at + 1 <= Len(buf) /\ buf \in Seq(Chars)
      /\ ListOK(cmds) /\ x \in Chars \cup {Nul} /\ Fits(cmds, buf, at) /\ n \in Nat /\ n > 0
  BY PlaceFacts DEF ReasonInv, Scanning
<1>2. Weight(buf, at) \in Nat /\ Weight(buf, at + 1) \in Nat
  BY <1>1, WeightFacts
<1>3. CASE target = "argv" /\ ~Writable(cmds, n)
  <2>1. Fail(WriteFailure(cmds))
    BY <1>3 DEF Write
  <2>2. Weight(buf, at + 1) + 1 >= Weight(buf, at) + n
    BY <1>1, <1>2
  <2> QED
    BY <1>1, <1>3, <2>1, <2>2, TooMuchWritten
<1>4. CASE target = "fd" /\ x \notin Digits
  <2>1. target # "argv"
    BY <1>4
  <2>2. Fail("error")
    BY <1>4, <2>1 DEF Write
  <2>3. Excused("error")
    BY <2>1, RedirectSeen DEF Excused
  <2> QED
    BY <2>2, <2>3, FailReason
<1>5. CASE ~(target = "argv" /\ ~Writable(cmds, n)) /\ ~(target = "fd" /\ x \notin Digits)
  <2>1. /\ cmds' = IF target = "argv" THEN c ELSE cmds
        /\ UNCHANGED <<buf, quote, target, redir, old, torn, fate>> /\ at' = at + 1
    BY <1>5 DEF Write, Next1
  <2>2. /\ Grows /\ at' \in Nat /\ at <= at + 1 /\ at' >= at
        /\ buf'[at + 1] = x /\ Before' = x /\ Longer(buf, buf)
    BY <2>1, OneOn
  <2>3. RedirSeen'
    BY <2>1, <2>2, RedirSeenStays DEF ReasonInv
  <2>4. EscapedEnd'
    BY <2>2 DEF EscapedEnd
  <2>5. CASE target = "argv"
    <3>1. cmds' = c /\ Writable(cmds, n)
      BY <1>5, <2>1, <2>5
    <3>2. /\ Fits(c, buf, at + 1) /\ Args(c) # << <<>> >>
          /\ Hollow(c) => Hollow(cmds)
      BY <1>1, <2>2, <3>1, WrittenFits
    <3> HIDE DEF c
    <3>3. Fits(cmds', buf', at')
      BY <2>1, <3>1, <3>2
    <3>4. Args(cmds)' = Args(cmds')
      BY DEF Args, Last
    <3>5. StillBare'
      BY <3>1, <3>2, <3>4 DEF StillBare
    <3>6. Scanning'
      BY <2>4, <3>3, <3>5 DEF Scanning
    <3>7. Hollow(cmds') => WordlessCommand
      BY <3>1, <3>2 DEF ReasonInv
    <3> QED
      BY <2>1, <2>2, <2>3, <3>6, <3>7, ScanReason
  <2>6. CASE target # "argv"
    <3>1. cmds' = cmds
      BY <2>1, <2>6
    <3>2. PICK q \in 1 .. at : buf[q] = ">"
      BY <2>6, RedirectSeen
    <3>3. ASSUME NoWordSince PROVE NoWordSince'
      <4>1. \A l \in at + 1 .. at + 1 : q \in 1 .. l - 1 /\ buf'[q] = ">"
        BY <1>1, <2>1, <3>2
      <4>2. \A l \in at + 1 .. at + 1 : \E r \in 1 .. l - 1 : buf'[r] = ">"
        BY <4>1
      <4> QED
        BY <1>1, <2>1, <2>2, <3>3, <4>2, NoWordOn
    <3>4. ASSUME Args(cmds) = << <<>> >> PROVE WordlessCommand' \/ NoWordSince'
      BY <2>2, <2>6, <3>3, <3>4, WordlessStays DEF ReasonInv, Scanning, StillBare
    <3>5. Args(cmds)' = Args(cmds')
      BY DEF Args, Last
    <3>6. StillBare'
      BY <3>1, <3>4, <3>5 DEF StillBare
    <3>7. Fits(cmds', buf', at')
      BY <1>1, <2>1, <2>2, <3>1, FitsFurther, PlaceFacts
    <3>8. Scanning'
      BY <2>4, <3>6, <3>7 DEF Scanning
    <3>9. Hollow(cmds') => WordlessCommand
      BY <3>1 DEF ReasonInv
    <3> QED
      BY <2>1, <2>2, <2>3, <3>8, <3>9, ScanReason
  <2> QED
    BY <2>5, <2>6
<1> QED
  BY <1>3, <1>4, <1>5

LEMMA DoneHere ==
    ASSUME ParserInv, ReasonInv, fate \in {"start", "scan"}, Done(cmds)
    PROVE  ReasonInv'
<1>1. ListOK(cmds) /\ Fits(cmds, buf, at) /\ (Hollow(cmds) => WordlessCommand)
  BY DEF ParserInv, ReasonInv, Scanning
<1> QED
  BY <1>1, FittingIsShort, DoneReason

LEMMA BeginReason == ASSUME ParserInv, ReasonInv, Begin PROVE ReasonInv'
<1>1. /\ fate = "start" /\ at = 0 /\ quote = "none" /\ Scanning /\ ListOK(cmds)
      /\ buf \in Seq(Chars) /\ Len(buf) \in Nat
  BY PlaceFacts DEF Begin, ReasonInv
<1>2. CASE AtEnd(buf, 0)
  BY <1>1, <1>2, DoneHere DEF Begin
<1>3. CASE ~AtEnd(buf, 0)
  <2> DEFINE k == NonBlank(buf, 0)
  <2>1. /\ at' = k /\ fate' = "scan"
        /\ UNCHANGED <<buf, quote, target, cmds, redir, torn>>
    BY <1>3 DEF Begin, First, list
  <2>2. k \in 0 .. Len(buf) - 1 /\ \A l \in 0 .. k - 1 : buf[l + 1] = "sp"
    BY <1>1, <1>3, NonBlankFound
  <2> HIDE DEF k
  <2>3. k \in Nat /\ at <= k /\ k < Len(buf) /\ at' \in Nat /\ at' >= at
    BY <1>1, <2>1, <2>2
  <2>4. Grows
    BY <1>1, <2>1, SameGrows
  <2>5. RedirSeen'
    BY <2>1, <2>3, <2>4, RedirSeenStays DEF ReasonInv
  <2>6. NoWord(0, at + 1)'
    BY <2>1, <2>2, <2>3, NoWordRun
  <2>7. NoWordSince'
    <3>1. 0 \in 0 .. at'
      BY <2>3
    <3> QED
      BY <1>1, <2>1, <2>6, <3>1 DEF NoWordSince
  <2>8. Fits(cmds', buf', at')
    <3>1. Longer(buf, buf)
      BY <1>1 DEF Longer
    <3> QED
      BY <1>1, <2>1, <2>3, <3>1, FitsFurther, PlaceFacts DEF Scanning
  <2>9. at' # Len(buf')
    BY <1>1, <2>1, <2>3
  <2>10. Scanning'
    BY <2>7, <2>8, <2>9 DEF Scanning, StillBare, EscapedEnd
  <2> QED
    BY <2>1, <2>4, <2>5, <2>10, ScanReason DEF ReasonInv
<1> QED
  BY <1>2, <1>3

LEMMA QuoteReason == ASSUME ParserInv, ReasonInv, SingleQuote \/ DoubleQuote PROVE ReasonInv'
<1>1. /\ fate = "scan" /\ CharAt(at) \in Quotes /\ CharAt(at) \notin {Nul, "bs", "sp"}
  BY DEF SingleQuote, DoubleQuote, Scan, Quotes, Nul
<1>2. CASE \E q \in {"single", "double"} : Toggle(q)
  BY <1>1, <1>2, ToggleReason
<1>3. CASE Write(1)
  <2>1. Weight(buf, at + 1) >= Weight(buf, at) + 1
    BY PlaceFacts, WeightFacts
  <2> QED
    BY <1>1, <1>3, <2>1, WriteReason
<1> QED
  BY <1>2, <1>3 DEF SingleQuote, DoubleQuote

LEMMA WordReason == ASSUME ParserInv, ReasonInv, Dollar \/ Hash \/ Ordinary PROVE ReasonInv'
<1>1. /\ fate = "scan" /\ CharAt(at) \notin {Nul, "bs", "sp"}
      /\ at \in Nat /\ buf \in Seq(Chars) /\ ListOK(cmds)
      /\ (CharAt(at) # Nul => buf[at + 1] = CharAt(at))
  <2>1. fate = "scan" /\ CharAt(at) \in {"$", "bq", "#", "a", "1", "2"}
    BY DEF Dollar, Hash, Ordinary, Scan, Digits
  <2>2. CharAt(at) \notin {Nul, "bs", "sp"}
    BY <2>1 DEF Nul
  <2> QED
    BY <2>1, <2>2, PlaceFacts
<1>2. /\ Weight(buf, at + 1) >= Weight(buf, at) + 1
      /\ CharAt(at) = "$" => Weight(buf, at + 1) >= Weight(buf, at) + 2
      /\ CharAt(at) = "bq" => Weight(buf, at + 1) >= Weight(buf, at) + 3
  <2>1. /\ Weight(buf, at) \in Nat /\ Weight(buf, at + 1) >= Weight(buf, at) + 1
        /\ buf[at + 1] = "$" => Weight(buf, at + 1) = Weight(buf, at) + 2
        /\ buf[at + 1] = "bq" => Weight(buf, at + 1) = Weight(buf, at) + 3
    BY <1>1, WeightFacts
  <2>2. CharAt(at) = buf[at + 1]
    BY <1>1
  <2> QED
    BY <2>1, <2>2
<1>3. CASE Write(1)
  BY <1>1, <1>2, <1>3, WriteReason
<1>4. CASE Dollar
  <2>1. CASE Write(2) /\ CharAt(at) = "$"
    BY <1>1, <1>2, <2>1, WriteReason
  <2>2. CASE Write(3) /\ CharAt(at) = "bq"
    BY <1>1, <1>2, <2>2, WriteReason
  <2>3. \/ Write(1)
        \/ Write(2) /\ CharAt(at) = "$"
        \/ Write(3) /\ CharAt(at) = "bq"
    <3>1. CharAt(at) = "$" \/ (CharAt(at) = "bq" /\ CharAt(at) # "$")
      BY <1>4 DEF Dollar, Scan
    <3>2. CASE quote = "single" \/ Escape
      BY <1>4, <3>1, <3>2 DEF Dollar
    <3>3. CASE ~(quote = "single" \/ Escape)
      BY <1>4, <3>3 DEF Dollar
    <3> QED
      BY <3>2, <3>3
  <2> QED
    BY <1>3, <2>1, <2>2, <2>3
<1>5. CASE Hash
  <2>1. CASE FreesNothing /\ Fail("underflow")
    BY <2>1, NothingToFree
  <2>2. CASE ~FreesNothing /\ Done(WithArgs(cmds, TakenBack))
    <3> DEFINE c == WithArgs(cmds, TakenBack)
    <3>1. CharAt(at) \in Ends
      BY <1>5 DEF Hash, Scan, Ends
    <3>2. ArgvOK(TakenBack)
      BY <1>1, <2>2, TakenBackOK
    <3>3. /\ ListOK(c) /\ Args(c) = TakenBack
          /\ Hollow(c) => Hollow(cmds) \/ TakenBack = <<>>
      BY <1>1, <3>2, WithArgsOK, WithArgsAt
    <3>4. (TakenBack = <<>> => WordlessCommand) /\ (Hollow(cmds) => WordlessCommand)
      BY <1>1, <2>2, <3>1, TakenBackReason DEF ReasonInv
    <3>5. Done(c)
      BY <2>2
    <3> HIDE DEF c
    <3>6. ShortEnough(c)
      BY <1>1, <2>2, <3>3, TakenBackShort
    <3> QED
      BY <3>3, <3>4, <3>5, <3>6, DoneReason
  <2> QED
    BY <1>3, <1>5, <2>1, <2>2 DEF Hash
<1> QED
  BY <1>3, <1>4, <1>5 DEF Ordinary

LEMMA BlankReason == ASSUME ParserInv, ReasonInv, Blank PROVE ReasonInv'
<1>1. /\ fate = "scan" /\ CharAt(at) = "sp" /\ CharAt(at) \notin {Nul, "bs"}
      /\ at \in Nat /\ at + 1 \in Nat /\ at < Len(buf) /\ Len(buf) \in Nat
      /\ buf \in Seq(Chars) /\ ListOK(cmds) /\ buf[at + 1] = "sp"
      /\ Fits(cmds, buf, at) /\ (Hollow(cmds) => WordlessCommand)
  <2>1. fate = "scan" /\ CharAt(at) = "sp" /\ CharAt(at) \notin {Nul, "bs"}
    BY DEF Blank, Scan, Nul
  <2> QED
    BY <2>1, PlaceFacts DEF ReasonInv, Scanning
<1>2. Weight(buf, at + 1) >= Weight(buf, at) + 1
      /\ Weight(buf, at) \in Nat /\ Weight(buf, at + 1) \in Nat
  BY <1>1, WeightFacts
<1>3. /\ Cardinality(Seen(buf, at + 1, {"sp"})) = Cardinality(Seen(buf, at, {"sp"})) + 1
      /\ Cardinality(Seen(buf, at, {"sp"})) \in Nat
  <2>1. Cardinality(Seen(buf, at + 1, {"sp"})) =
          Cardinality(Seen(buf, at, {"sp"})) + (IF buf[at + 1] \in {"sp"} THEN 1 ELSE 0)
    BY <1>1, SeenFacts
  <2> QED
    BY <1>1, <2>1, SeenFacts
<1>4. Slots \in Nat /\ Len(Args(cmds)) \in Nat
  BY <1>1, SizeFacts, ListFacts, LenProperties DEF ArgvOK
<1>5. CASE Ignore /\ Write(1)
  BY <1>1, <1>2, <1>5, WriteReason
<1>6. CASE Done(cmds)
  BY <1>1, <1>6, DoneHere
<1>7. CASE ~Writable(cmds, 1) /\ Fail(WriteFailure(cmds))
  <2>1. Weight(buf, at) + 1 >= Weight(buf, at) + 1
    BY <1>2
  <2>2. at <= Len(buf)
    BY <1>1
  <2> QED
    BY <1>1, <1>7, <2>1, <2>2, TooMuchWritten
<1>8. CASE Len(Args(cmds)) >= Slots /\ Fail("overflow")
  <2>1. Cardinality(Seen(buf, at + 1, {"sp"})) <= Cardinality(Seen(buf, Len(buf), {"sp"}))
    BY <1>1, SeenGrows
  <2>2. Cardinality(Seen(buf, Len(buf), {"sp"})) \in Nat
    BY <1>1, SeenFacts
  <2>3. Len(Args(cmds)) - 1 <= Cardinality(Seen(buf, at, {"sp"}))
    BY <1>1 DEF Fits
  <2>4. Cardinality(Seen(buf, Len(buf), {"sp"})) >= Slots
    BY <1>3, <1>4, <1>8, <2>1, <2>2, <2>3
  <2>5. Count(buf, {"sp"}) >= Slots
    BY <1>1, <2>4, CountIs
  <2> QED
    BY <1>8, <2>5, FailReason DEF Excused, Broken
<1>9. CASE /\ ~AtEnd(buf, at) /\ Writable(cmds, 1) /\ ~(Len(Args(cmds)) >= Slots)
           /\ LET c == Written(cmds, Nul, 1)
              IN  cmds' = WithArgs(c, Append(Args(c), <<>>))
           /\ at' = NonBlank(buf, at)
           /\ UNCHANGED <<buf, quote, target, redir, torn, fate>>
  <2> DEFINE c == Written(cmds, Nul, 1)
             a == Args(c)
             e == Append(a, <<>>)
             k == NonBlank(buf, at)
  <2>1. cmds' = WithArgs(c, e) /\ at' = k /\ UNCHANGED <<buf, quote, target, redir, torn, fate>>
    BY <1>9
  <2>2. k \in at .. Len(buf) - 1 /\ buf[k + 1] # "sp"
    BY <1>1, <1>9, NonBlankFound
  <2>3. /\ ListOK(c) /\ Len(a) = Len(Args(cmds)) /\ a # <<>> /\ ArgvOK(a)
        /\ Hollow(c) => Hollow(cmds)
        /\ Args(cmds) # <<>> /\ Len(Args(cmds)) \in Nat \ {0}
        /\ \A m \in 1 .. Len(Args(cmds)) - 1 : a[m] = Args(cmds)[m]
        /\ Len(a[Len(Args(cmds))]) = Len(Args(cmds)[Len(Args(cmds))]) + 1
        /\ Len(Args(cmds)[Len(Args(cmds))]) \in Nat
    BY <1>1, <1>9, WrittenOK, WrittenArgs
  <2>4. Fits(c, buf, at + 1)
    <3>1. at <= at + 1 /\ 1 \in Nat
      BY <1>1
    <3> QED
      BY <1>1, <1>2, <1>9, <3>1, WrittenFits
  <2> HIDE DEF c, k
  <2>5. k \in Nat /\ at + 1 <= k /\ k < Len(buf) /\ at' >= at /\ at' \in Nat
    <3>1. k # at
      BY <1>1, <2>2
    <3> QED
      BY <1>1, <2>1, <2>2, <3>1
  <2>6. Longer(buf, buf) /\ at + 1 <= Len(buf)
    BY <1>1 DEF Longer
  <2>7. Fits(c, buf, k)
    BY <1>1, <2>3, <2>4, <2>5, <2>6, FitsFurther
  <2> DEFINE s == Cardinality(Seen(buf, k, {"sp"}))  w == Weight(buf, k)
  <2>8. s \in Nat /\ w \in Nat /\ Cardinality(Seen(buf, at + 1, {"sp"})) <= s
    BY <1>1, <2>5, SeenFacts, SeenGrows, WeightFacts
  <2>9. /\ Len(a) - 1 <= Cardinality(Seen(buf, at, {"sp"}))
        /\ \A m \in 1 .. Len(a) - 1 : a[m] # <<>>
    <3>1. /\ Len(Args(cmds)) - 1 <= Cardinality(Seen(buf, at, {"sp"}))
          /\ \A m \in 1 .. Len(Args(cmds)) - 1 : Args(cmds)[m] # <<>>
      BY <1>1 DEF Fits
    <3> QED
      BY <2>3, <3>1
  <2>10. \A m \in 1 .. Len(a) : Len(a[m]) <= w
    BY <2>7 DEF Fits
  <2>11. Len(a[Len(a)]) # 0 /\ Len(a) \in Nat \ {0}
    BY <2>3
  <2>12. a[Len(a)] # <<>>
    BY <2>11
  <2>13. a \in Seq(Strings) /\ <<>> \in Strings
    BY <2>3 DEF ArgvOK, Strings
  <2> HIDE DEF a, s, w
  <2>14. /\ e \in Seq(Strings) /\ Len(e) = Len(a) + 1 /\ e[Len(a) + 1] = <<>>
         /\ \A m \in 1 .. Len(a) : e[m] = a[m]
    BY <2>13
  <2> HIDE DEF e
  <2>15. ArgvOK(e)
    <3>1. Len(e) <= Slots
      BY <1>4, <1>9, <2>3, <2>14
    <3>2. ASSUME NEW m \in 1 .. Len(e) PROVE Len(e[m]) <= MaxEachArg
      <4>1. CASE m = Len(a) + 1
        BY <2>14, <4>1, SizeFacts
      <4>2. CASE m # Len(a) + 1
        <5>1. m \in 1 .. Len(a)
          BY <2>11, <2>14, <4>2
        <5> QED
          BY <2>3, <2>14, <5>1 DEF ArgvOK
      <4> QED
        BY <4>1, <4>2
    <3> QED
      BY <2>14, <3>1, <3>2 DEF ArgvOK
  <2>16. ListOK(cmds') /\ Args(cmds') = e /\ (Hollow(cmds') => Hollow(c) \/ e = <<>>)
    BY <2>1, <2>3, <2>15, WithArgsOK, WithArgsAt
  <2>17. e # <<>> /\ e # << <<>> >>
    <3>1. Len(e) # 0 /\ Len(e) # 1
      BY <2>11, <2>14
    <3>2. Len(<<>>) = 0 /\ Len(<< <<>> >>) = 1
      OBVIOUS
    <3> QED
      BY <3>1, <3>2
  <2>18. Fits(cmds', buf, k)
    <3>1. Len(e) - 1 <= s
      BY <1>3, <2>8, <2>9, <2>11, <2>14
    <3>2. ASSUME NEW m \in 1 .. Len(e) PROVE Len(e[m]) <= w
      <4>1. CASE m = Len(a) + 1
        BY <2>8, <2>14, <4>1
      <4>2. CASE m # Len(a) + 1
        <5>1. m \in 1 .. Len(a)
          BY <2>11, <2>14, <4>2
        <5> QED
          BY <2>10, <2>14, <5>1
      <4> QED
        BY <4>1, <4>2
    <3>3. ASSUME NEW m \in 1 .. Len(e) - 1 PROVE e[m] # <<>>
      <4>1. m \in 1 .. Len(a)
        BY <2>11, <2>14
      <4>2. CASE m = Len(a)
        BY <2>12, <2>14, <4>1, <4>2
      <4>3. CASE m # Len(a)
        <5>1. m \in 1 .. Len(a) - 1
          BY <2>11, <4>1, <4>3
        <5> QED
          BY <2>9, <2>14, <4>1, <5>1
      <4> QED
        BY <4>2, <4>3
    <3> QED
      BY <2>16, <3>1, <3>2, <3>3 DEF Fits, s, w
  <2>19. Grows
    BY <1>1, <2>1, SameGrows
  <2>20. RedirSeen'
    BY <2>1, <2>5, <2>19, RedirSeenStays DEF ReasonInv
  <2>21. Scanning'
    <3>1. Args(cmds)' = Args(cmds')
      BY DEF Args, Last
    <3>2. at' # Len(buf')
      BY <1>1, <2>1, <2>5
    <3>3. Fits(cmds', buf', at')
      BY <2>1, <2>18
    <3> QED
      BY <2>16, <2>17, <3>1, <3>2, <3>3 DEF Scanning, StillBare, EscapedEnd
  <2>22. Hollow(cmds') => WordlessCommand
    BY <1>1, <2>3, <2>16, <2>17
  <2> QED
    BY <1>1, <2>1, <2>19, <2>20, <2>21, <2>22, ScanReason
<1>10. \/ Ignore /\ Write(1)
       \/ Done(cmds)
       \/ ~Writable(cmds, 1) /\ Fail(WriteFailure(cmds))
       \/ Len(Args(cmds)) >= Slots /\ Fail("overflow")
       \/ /\ ~AtEnd(buf, at) /\ Writable(cmds, 1) /\ ~(Len(Args(cmds)) >= Slots)
          /\ LET c == Written(cmds, Nul, 1)
             IN  cmds' = WithArgs(c, Append(Args(c), <<>>))
          /\ at' = NonBlank(buf, at)
          /\ UNCHANGED <<buf, quote, target, redir, torn, fate>>
  BY DEF Blank
<1> QED
  BY <1>5, <1>6, <1>7, <1>8, <1>9, <1>10

LEMMA TypesOfSeparators ==
    {"BACKGROUND", "RUN_AND", "RUN_OR", "PIPED", "MULTICMD"} \subseteq Types \ {"SINGLE"}
  BY DEF Types

(* && and ||: the second character is the separator behind which it goes   *)
(* on.                                                                     *)
LEMMA AndOrReason ==
    ASSUME ParserInv, ReasonInv, fate = "scan", quote = "none", ~FreesNothing,
           NEW t \in {"RUN_AND", "RUN_OR"}, CharAt(at) \in Separators,
           CharAt(at + 1) = CharAt(at), CharAt(at) \in {"&", "|"}, AndOr(t)
    PROVE  ReasonInv'
<1> DEFINE c == Separated(t)  n == at + 2
<1>1. t \in Types \ {"SINGLE"}
  BY TypesOfSeparators
<1>2. ListOK(c) /\ Args(c) = << <<>> >> /\ (Hollow(c) => WordlessCommand)
  BY <1>1, SeparatedReason
<1>3. /\ at \in Nat /\ Len(buf) \in Nat /\ at < Len(buf) /\ buf[at + 1] = CharAt(at)
      /\ buf \in Seq(Chars) /\ CharAt(at + 1) # Nul
  BY PlaceFacts DEF Nul
<1>4. at + 1 \in Nat /\ at + 1 < Len(buf)
  BY <1>3, CharType
<1>5. CharAt(at + 1) = buf[(at + 1) + 1] /\ (at + 1) + 1 = n
  BY <1>3, <1>4 DEF CharAt
<1>6. n \in Nat /\ at < n /\ n <= Len(buf) /\ n \in 2 .. Len(buf) /\ n - 1 = at + 1
  BY <1>3, <1>4
<1>7. buf[n] \in Separators /\ buf[n] = buf[n - 1] /\ buf[n] = CharAt(at)
  BY <1>3, <1>5, <1>6
<1>8. Longer(buf, buf)
  BY <1>3 DEF Longer
<1> HIDE DEF c
<1>9. CASE AtEnd(buf, n) /\ ResumeInMore(c, n)
  <2>1. Unfinished
    <3>1. CASE CharAt(at) = "&"
      BY <1>6, <1>7, <1>9, <3>1 DEF Unfinished
    <3>2. CASE CharAt(at) = "|"
      <4>1. at + 1 \in 1 .. Len(buf) /\ buf[at + 1] = "|" /\ AtEnd(buf, (at + 1) + 1)
        BY <1>3, <1>4, <1>5, <1>9, <3>2
      <4> QED
        BY <4>1 DEF Unfinished
    <3> QED
      BY <3>1, <3>2
  <2> HIDE DEF n
  <2> QED
    BY <1>2, <1>6, <1>7, <1>9, <2>1, ResumeInMoreReason
<1>10. CASE Resume(c, buf, n)
  <2> HIDE DEF n
  <2> QED
    BY <1>2, <1>3, <1>6, <1>7, <1>8, <1>10, ResumeReason
<1> QED
  BY <1>9, <1>10 DEF AndOr, c

LEMMA SeparatorPlace ==
    ASSUME ParserInv, CharAt(at) # Nul
    PROVE  /\ at \in Nat /\ at + 1 \in Nat /\ at < at + 1 /\ at + 1 <= Len(buf)
           /\ at + 1 \in 1 .. Len(buf) /\ buf[at + 1] = CharAt(at)
           /\ buf \in Seq(Chars) /\ Longer(buf, buf) /\ Len(buf) \in Nat
           /\ Weight(buf, at + 1) >= Weight(buf, at) + 1
<1>1. /\ at \in Nat /\ Len(buf) \in Nat /\ at < Len(buf) /\ buf[at + 1] = CharAt(at)
      /\ buf \in Seq(Chars)
  BY PlaceFacts
<1> QED
  BY <1>1, WeightFacts DEF Longer

LEMMA AmpersandReason == ASSUME ParserInv, ReasonInv, Ampersand PROVE ReasonInv'
<1>1. /\ fate = "scan" /\ CharAt(at) = "&" /\ CharAt(at) \notin {Nul, "bs"}
      /\ CharAt(at) \in Separators
  BY DEF Ampersand, Scan, Separators, Nul
<1>2. /\ at + 1 \in Nat /\ at < at + 1 /\ at + 1 <= Len(buf) /\ buf[at + 1] \in Separators
      /\ buf \in Seq(Chars) /\ Longer(buf, buf) /\ Weight(buf, at + 1) >= Weight(buf, at) + 1
  BY <1>1, SeparatorPlace
<1>3. CASE Write(1)
  BY <1>1, <1>2, <1>3, WriteReason
<1>4. CASE FreesNothing /\ Fail("underflow")
  BY <1>4, NothingToFree
<1>5. "BACKGROUND" \in Types \ {"SINGLE"}
  BY TypesOfSeparators
<1>6. CASE ~FreesNothing /\ Done(Front(Separated("BACKGROUND")))
  BY <1>1, <1>5, <1>6, SeparatedReason, DoneReason
<1>7. CASE ~Ignore /\ ~FreesNothing /\ CharAt(at + 1) = "&" /\ AndOr("RUN_AND")
  BY <1>1, <1>7, AndOrReason DEF Ignore
<1>8. CASE ~Ignore /\ ~FreesNothing /\ Resume(Separated("BACKGROUND"), buf, at + 1)
  <2> DEFINE n == at + 1
  <2>1. quote = "none" /\ Resume(Separated("BACKGROUND"), buf, n)
    BY <1>8 DEF Ignore
  <2> HIDE DEF n
  <2> QED
    BY <1>1, <1>2, <1>5, <1>8, <2>1, SeparatedReason, ResumeReason DEF n
<1> QED
  BY <1>3, <1>4, <1>6, <1>7, <1>8 DEF Ampersand

LEMMA BarReason == ASSUME ParserInv, ReasonInv, Bar PROVE ReasonInv'
<1>1. /\ fate = "scan" /\ CharAt(at) = "|" /\ CharAt(at) \notin {Nul, "bs"}
      /\ CharAt(at) \in Separators
  BY DEF Bar, Scan, Separators, Nul
<1>2. /\ at + 1 \in Nat /\ at < at + 1 /\ at + 1 <= Len(buf) /\ buf[at + 1] \in Separators
      /\ buf \in Seq(Chars) /\ Longer(buf, buf) /\ Weight(buf, at + 1) >= Weight(buf, at) + 1
      /\ at + 1 \in 1 .. Len(buf) /\ buf[at + 1] = "|" /\ Len(buf) \in Nat /\ at \in Nat
  BY <1>1, SeparatorPlace
<1>3. CASE Write(1)
  BY <1>1, <1>2, <1>3, WriteReason
<1>4. CASE FreesNothing /\ Fail("underflow")
  BY <1>4, NothingToFree
<1>5. CASE ~Ignore /\ ~FreesNothing /\ CharAt(at + 1) = "|" /\ AndOr("RUN_OR")
  BY <1>1, <1>5, AndOrReason DEF Ignore
<1>6. CASE CharAt(at + 1) = Nul /\ Fail("stray")
  <2>1. ~(at + 1 < Len(buf))
    BY <1>2, <1>6, CharType
  <2>2. at + 1 = Len(buf)
    BY <1>2, <2>1
  <2>3. Last(buf) = "|"
    BY <1>2, <2>2 DEF Last
  <2> QED
    BY <1>6, <2>3, FailReason DEF Excused, Broken
<1>7. CASE /\ ~Ignore /\ ~FreesNothing
           /\ \/ AtEnd(buf, at + 2) /\ ResumeInMore(Separated("PIPED"), at + 1)
              \/ Resume(Separated("PIPED"), buf, at + 1)
  <2> DEFINE n == at + 1  c == Separated("PIPED")
  <2>1. quote = "none"
    BY <1>7 DEF Ignore
  <2>2. "PIPED" \in Types \ {"SINGLE"}
    BY TypesOfSeparators
  <2>3. ListOK(c) /\ Args(c) = << <<>> >> /\ (Hollow(c) => WordlessCommand)
    BY <1>1, <1>7, <2>2, SeparatedReason
  <2>4. AtEnd(buf, at + 2) => Unfinished
    <3>1. (at + 1) + 1 = at + 2
      BY <1>2
    <3> QED
      BY <1>2, <3>1 DEF Unfinished
  <2>5. n \in Nat /\ at < n /\ n <= Len(buf) /\ buf[n] \in Separators
    BY <1>2
  <2>6. (AtEnd(buf, at + 2) /\ ResumeInMore(c, n)) \/ Resume(c, buf, n)
    BY <1>7
  <2> HIDE DEF n, c
  <2>7. CASE Resume(c, buf, n)
    BY <1>1, <1>2, <2>1, <2>3, <2>5, <2>7, ResumeReason
  <2>8. CASE AtEnd(buf, at + 2) /\ ResumeInMore(c, n)
    BY <1>1, <2>1, <2>3, <2>4, <2>5, <2>8, ResumeInMoreReason
  <2> QED
    BY <2>6, <2>7, <2>8
<1> QED
  BY <1>3, <1>4, <1>5, <1>6, <1>7 DEF Bar

(* A run of backslashes *)
LEMMA BackslashReason == ASSUME ParserInv, ReasonInv, Backslash PROVE ReasonInv'
<1> DEFINE End(m) == CharAt(m) # "bs" /\ \A l \in at .. m - 1 : CharAt(l) = "bs"
           k == CHOOSE m \in at + 1 .. Len(buf) : End(m)
           n == (k - at) \div 2
<1>1. /\ fate = "scan" /\ CharAt(at) = "bs" /\ CharAt(at) \notin {Nul, "sp"}
  BY DEF Backslash, Scan, Nul
<1>2. /\ at \in Nat /\ at + 1 \in Nat /\ Len(buf) \in Nat /\ at + 1 <= Len(buf)
      /\ buf \in Seq(Chars) /\ ListOK(cmds) /\ Longer(buf, buf)
      /\ Fits(cmds, buf, at) /\ (Hollow(cmds) => WordlessCommand)
  BY <1>1, SeparatorPlace DEF ParserInv, ReasonInv, Scanning
<1>3. \E m \in at + 1 .. Len(buf) : End(m)
  <2>1. "bs" \in Chars
    BY DEF Chars
  <2>2. PICK m \in at + 1 .. Len(buf) :
            CharAt(m) # "bs" /\ \A l \in at + 1 .. m - 1 : CharAt(l) = "bs"
    BY <1>2, <2>1, RunEnds
  <2>3. \A l \in at .. m - 1 : l = at \/ l \in at + 1 .. m - 1
    BY <1>2
  <2> QED
    BY <1>1, <2>2, <2>3
<1>4. k \in at + 1 .. Len(buf) /\ End(k)
  BY <1>3
<1>5. \/ n > 0 /\ target = "argv" /\ ~Writable(cmds, n) /\ Fail(WriteFailure(cmds))
      \/ n > 0 /\ target = "fd" /\ Fail("error")
      \/ k = Len(buf) /\ Fail("stray")
      \/ /\ ~(n > 0 /\ target = "argv" /\ ~Writable(cmds, n)) /\ k # Len(buf)
         /\ cmds' = IF n > 0 /\ target = "argv" THEN Written(cmds, "bs", n) ELSE cmds
         /\ at' = k
         /\ UNCHANGED <<buf, quote, target, redir, torn, fate>>
  <2>1. \/ n > 0 /\ target = "argv" /\ ~Writable(cmds, n)
        \/ n > 0 /\ target = "fd" /\ ~(n > 0 /\ target = "argv" /\ ~Writable(cmds, n))
        \/ /\ k = Len(buf) /\ ~(n > 0 /\ target = "fd")
           /\ ~(n > 0 /\ target = "argv" /\ ~Writable(cmds, n))
        \/ /\ ~(n > 0 /\ target = "argv" /\ ~Writable(cmds, n))
           /\ ~(n > 0 /\ target = "fd") /\ k # Len(buf)
    OBVIOUS
  <2> QED
    BY <2>1 DEF Backslash
<1>6. ASSUME NEW l \in at + 1 .. k PROVE buf[l] = "bs"
  <2>1. l - 1 \in at .. k - 1 /\ (l - 1) + 1 = l /\ l - 1 < Len(buf)
    BY <1>2, <1>4
  <2>2. CharAt(l - 1) = "bs"
    BY <1>4, <2>1
  <2> QED
    BY <2>1, <2>2 DEF CharAt
<1> HIDE DEF k
<1>7. k \in Nat /\ at < k /\ at <= k /\ k <= Len(buf) /\ k \in at + 1 .. k
  BY <1>2, <1>4
<1>8. n \in Nat /\ n <= k - at
  <2>1. k - at \in Nat
    BY <1>2, <1>7
  <2>2. \A j \in Nat : j \div 2 \in Nat /\ j \div 2 <= j
    OBVIOUS
  <2> QED
    BY <2>1, <2>2
<1> HIDE DEF n
<1>9. /\ Weight(buf, k) >= Weight(buf, at) + n /\ Weight(buf, k) + 1 >= Weight(buf, at) + n
  <2>1. Weight(buf, k) >= Weight(buf, at) + (k - at) /\ Weight(buf, at) \in Nat
        /\ Weight(buf, k) \in Nat
    BY <1>2, <1>7, WeightGrows, WeightFacts
  <2> QED
    BY <1>2, <1>7, <1>8, <2>1
<1>10. CASE ~Writable(cmds, n) /\ Fail(WriteFailure(cmds))
  BY <1>1, <1>7, <1>8, <1>9, <1>10, TooMuchWritten
<1>11. CASE target = "fd" /\ Fail("error")
  <2>1. target # "argv"
    BY <1>11
  <2>2. Excused("error")
    BY <2>1, RedirectSeen DEF Excused
  <2> QED
    BY <1>11, <2>2, FailReason
<1>12. CASE k = Len(buf) /\ Fail("stray")
  <2>1. Last(buf) = "bs"
    BY <1>6, <1>7, <1>12 DEF Last
  <2> QED
    BY <1>12, <2>1, FailReason DEF Excused, Broken
<1>13. CASE /\ ~(n > 0 /\ target = "argv" /\ ~Writable(cmds, n)) /\ k # Len(buf)
            /\ cmds' = IF n > 0 /\ target = "argv" THEN Written(cmds, "bs", n) ELSE cmds
            /\ at' = k
            /\ UNCHANGED <<buf, quote, target, redir, torn, fate>>
  <2>1. Grows /\ at' \in Nat /\ at' >= at
    BY <1>2, <1>7, <1>13, SameGrows
  <2>2. RedirSeen'
    BY <1>13, <2>1, RedirSeenStays DEF ReasonInv
  <2>3. EscapedEnd'
    BY <1>13 DEF EscapedEnd
  <2>4. Args(cmds)' = Args(cmds')
    BY DEF Args, Last
  <2>5. CASE n > 0 /\ target = "argv"
    <3> DEFINE c == Written(cmds, "bs", n)
    <3>1. cmds' = c /\ Writable(cmds, n) /\ "bs" \in Chars \cup {Nul}
      BY <1>13, <2>5 DEF Chars
    <3>2. Fits(c, buf, k) /\ Args(c) # << <<>> >> /\ (Hollow(c) => Hollow(cmds))
      BY <1>2, <1>7, <1>8, <1>9, <2>5, <3>1, WrittenFits
    <3> HIDE DEF c
    <3>3. Fits(cmds', buf', at')
      BY <1>13, <3>1, <3>2
    <3>4. Scanning'
      BY <2>3, <2>4, <3>1, <3>2, <3>3 DEF Scanning, StillBare
    <3> QED
      BY <1>1, <1>2, <1>13, <2>1, <2>2, <3>1, <3>2, <3>4, ScanReason
  <2>6. CASE ~(n > 0 /\ target = "argv")
    <3>1. cmds' = cmds
      BY <1>13, <2>6
    <3>2. ASSUME NoWordSince PROVE NoWordSince'
      <4>1. \A l \in at + 1 .. k : buf'[l] \in {"sp", "'", "dq", "bs"}
        BY <1>6, <1>13
      <4>2. quote' = quote /\ at' = k
        BY <1>13
      <4> QED
        BY <1>7, <2>1, <3>2, <4>1, <4>2, NoWordOn
    <3>3. StillBare'
      BY <1>1, <1>7, <1>13, <2>1, <3>1, <3>2, StillBareOn
    <3>4. Fits(cmds', buf', at')
      BY <1>2, <1>7, <1>13, <3>1, FitsFurther, PlaceFacts
    <3>5. Scanning'
      BY <2>3, <3>3, <3>4 DEF Scanning
    <3> QED
      BY <1>1, <1>2, <1>13, <2>1, <2>2, <3>1, <3>5, ScanReason
  <2> QED
    BY <2>5, <2>6
<1> QED
  BY <1>5, <1>10, <1>11, <1>12, <1>13

LEMMA SemicolonReason == ASSUME ParserInv, ReasonInv, Semicolon PROVE ReasonInv'
<1> DEFINE c == Separated("MULTICMD")
           n == NonBlank(buf, at + 2) - 1
           At(m) == CharAt(m) # "semi" /\ \A l \in n .. m - 1 : CharAt(l) = "semi"
           k == CHOOSE m \in n .. Len(buf) : At(m)
<1>1. /\ fate = "scan" /\ CharAt(at) = "semi" /\ CharAt(at) \notin {Nul, "bs"}
      /\ CharAt(at) \in Separators
  BY DEF Semicolon, Scan, Separators, Nul
<1>2. /\ at \in Nat /\ at + 1 \in 1 .. Len(buf) /\ at + 1 <= Len(buf) /\ Len(buf) \in Nat
      /\ buf[at + 1] = "semi" /\ buf \in Seq(Chars) /\ Longer(buf, buf) /\ ListOK(cmds)
  BY <1>1, SeparatorPlace, PlaceFacts
<1>3. Count(buf, {"semi"}) > 0
  BY <1>2, CountsOne
<1>4. ASSUME ~FreesNothing
      PROVE  ListOK(c) /\ Args(c) = << <<>> >> /\ (Hollow(c) => WordlessCommand)
  BY <1>1, <1>4, TypesOfSeparators, SeparatedReason
<1>5. CASE target = "fd" /\ Fail("error")
  <2>1. target # "argv"
    BY <1>5
  <2>2. Excused("error")
    BY <2>1, RedirectSeen DEF Excused
  <2> QED
    BY <1>5, <2>2, FailReason
<1>6. CASE ~Writable(cmds, 1) /\ Fail(WriteFailure(cmds))
  <2>1. Weight(buf, at) \in Nat
    BY <1>2, WeightFacts
  <2>2. Weight(buf, at) + 1 >= Weight(buf, at) + 1
    BY <2>1
  <2>3. at <= Len(buf)
    BY PlaceFacts
  <2> QED
    BY <1>1, <1>2, <1>6, <2>2, <2>3, TooMuchWritten
<1>7. CASE Ignore /\ \E f \in AfterLost : Fail(f)
  <2>1. CASE Fail("null")
    BY <1>3, <2>1, FailReason DEF Excused, Broken
  <2>2. CASE /\ ">" \in Rest
             /\ Fail(IF redir.type = "NONE" THEN "error" ELSE "fault")
    <3>1. PICK j \in at + 1 .. Len(buf) - 1 : CharAt(j) = ">"
      BY <2>2 DEF Rest
    <3>2. j + 1 \in 1 .. Len(buf) /\ buf[j + 1] = ">" /\ j + 1 > at
      BY <1>2, <3>1 DEF CharAt
    <3>3. CASE redir.type = "NONE"
      <4>1. Count(buf, {">"}) > 0
        BY <1>2, <3>2, CountsOne
      <4> QED
        BY <2>2, <3>3, <4>1, FailReason DEF Excused
    <3>4. CASE redir.type # "NONE"
      <4>1. PICK q \in 1 .. at : buf[q] = ">"
        BY <3>4, RedirectSeen
      <4>2. q \in 1 .. Len(buf) /\ q # j + 1
        BY <1>2, <3>2, <4>1
      <4>3. Count(buf, {">"}) > 1
        BY <1>2, <3>2, <4>1, <4>2, CountsTwo
      <4> QED
        BY <2>2, <3>4, <4>3, FailReason DEF Excused, Broken
    <3> QED
      BY <3>3, <3>4
  <2>3. CASE /\ Last(buf) = "bs" \/ quote # "none" \/ Rest \cap {"'", "dq"} # {}
             /\ Fail("stray")
    <3>1. CASE Last(buf) = "bs" \/ quote # "none"
      BY <2>3, <3>1, FailReason DEF Excused, Broken
    <3>2. CASE quote = "none" /\ Rest \cap {"'", "dq"} # {}
      <4>1. PICK j \in at + 1 .. Len(buf) - 1 : CharAt(j) \in {"'", "dq"}
        BY <3>2 DEF Rest
      <4>2. j + 1 \in 2 .. Len(buf) /\ buf[j + 1] \in {"'", "dq"} /\ at + 1 < j + 1
        BY <1>2, <4>1 DEF CharAt
      <4>3. at # 0 /\ CharAt(at - 1) = "bs"
        BY <1>7, <3>2 DEF Ignore, Escape, Before, Nul
      <4>4. at + 1 \in 2 .. Len(buf) /\ buf[at + 1 - 1] = "bs"
        BY <1>2, <4>3 DEF CharAt
      <4>5. Excused("stray")
        BY <1>2, <4>2, <4>4 DEF Excused
      <4> QED
        BY <2>3, <4>5, FailReason DEF Broken
    <3> QED
      BY <2>3, <3>1, <3>2
  <2>4. PICK f \in AfterLost : Fail(f)
    BY <1>7
  <2>5. \/ f = "null"
        \/ ">" \in Rest /\ f = IF redir.type = "NONE" THEN "error" ELSE "fault"
        \/ /\ Last(buf) = "bs" \/ quote # "none" \/ Rest \cap {"'", "dq"} # {}
           /\ f = "stray"
    BY <2>4 DEF AfterLost
  <2> QED
    BY <2>1, <2>2, <2>3, <2>4, <2>5
<1>8. CASE FreesNothing /\ Fail("underflow")
  BY <1>8, NothingToFree
<1>9. CASE ~FreesNothing /\ DoneAtSemicolon(c)
  <2> HIDE DEF c
  <2>1. CASE Fail("null")
    BY <1>3, <2>1, FailReason DEF Excused, Broken
  <2>2. CASE cmds' = c /\ fate' = "parsed"
             /\ UNCHANGED <<buf, at, quote, target, redir, old, wrote, torn>>
    <3>1. Grows /\ at' \in Nat /\ at' >= at
      BY <1>2, <2>2, SameGrows
    <3>2. RedirSeen'
      BY <2>2, <3>1, RedirSeenStays DEF ReasonInv
    <3>3. Hollow(cmds') => WordlessCommand'
      BY <1>4, <1>9, <2>2, <3>1, WordlessStays
    <3>4. DOMAIN cmds' = 1 .. Len(cmds')
      BY <1>4, <1>9, <2>2, LenProperties DEF ListOK
    <3>5. GoesWrongForAReason'
      BY <2>2, <3>3, <3>4 DEF GoesWrongForAReason, Hollow
    <3> QED
      BY <2>2, <3>2, <3>3, <3>5 DEF ReasonInv
  <2> QED
    BY <1>6, <1>9, <2>1, <2>2 DEF DoneAtSemicolon
<1>10. CASE ~FreesNothing /\ Done(c)
  <2> HIDE DEF c
  <2>1. Fits(c, buf, at)
    BY <1>2, <1>4, <1>10, BareListFits
  <2> QED
    BY <1>4, <1>10, <2>1, FittingIsShort, DoneReason
<1>11. CASE /\ quote = "none" /\ ~FreesNothing /\ ~AtEnd(buf, at + 2)
            /\ cmds' = c /\ at' = k
            /\ UNCHANGED <<buf, quote, target, redir, old, wrote, torn, fate>>
  <2> HIDE DEF c
  <2> DEFINE b == NonBlank(buf, at + 2)
  <2>1. b \in at + 2 .. Len(buf) - 1 /\ \A l \in at + 2 .. b - 1 : buf[l + 1] = "sp"
    <3>1. at + 2 \in Nat
      BY <1>2
    <3> QED
      BY <1>2, <1>11, <3>1, NonBlankFound
  <2> HIDE DEF b
  <2>2. n = b - 1 /\ n \in Nat /\ at + 1 <= n /\ n < Len(buf) /\ b \in Nat
    BY <1>2, <2>1 DEF b
  <2> HIDE DEF n
  <2>3. \E m \in n .. Len(buf) : At(m)
    <3>1. n <= Len(buf) /\ "semi" \in Chars
      BY <2>2 DEF Chars
    <3> QED
      BY <1>2, <2>2, <3>1, RunEnds
  <2>4. k \in n .. Len(buf) /\ At(k)
    BY <2>3
  <2> HIDE DEF k
  <2>4a. k \in Nat
    BY <2>2, <2>4
  <2>4b. PICK j \in Nat : j = k
    BY <2>4a
  <2>5. j \in Nat /\ n <= j /\ at <= j /\ at + 1 <= j /\ j <= Len(buf)
        /\ at' = j /\ at' \in Nat /\ at' >= at
    BY <1>2, <1>11, <2>2, <2>4, <2>4b
  <2>6. Grows
    BY <1>2, <1>11, SameGrows
  <2>7. RedirSeen'
    BY <1>11, <2>5, <2>6, RedirSeenStays DEF ReasonInv
  <2>8. Fits(cmds', buf', at')
    BY <1>2, <1>4, <1>11, <2>5, BareListFits
  <2>9. ASSUME b = at + 2 PROVE StillBare' /\ EscapedEnd'
    <3>1. n = at + 1
      BY <1>2, <2>2, <2>9
    <3>2. buf[j] = "semi"
      <4>1. CASE j = at + 1
        BY <1>2, <4>1
      <4>2. CASE j # at + 1
        <5>1. j - 1 \in n .. j - 1 /\ j - 1 < Len(buf) /\ (j - 1) + 1 = j
          BY <1>2, <2>5, <3>1, <4>2
        <5>2. CharAt(j - 1) = "semi"
          BY <2>4, <2>4b, <5>1
        <5> QED
          BY <5>1, <5>2 DEF CharAt
      <4> QED
        BY <4>1, <4>2
    <3>3. buf'[j] = "semi" /\ j \in 0 .. at' /\ j \in Nat
      BY <1>11, <2>5, <3>2
    <3>4. NoWord(j, at + 1)'
      <4>1. j + 1 .. (at' + 1) - 1 = {}
        BY <2>5
      <4> QED
        BY <4>1 DEF NoWord
    <3>5. quote' = "none"
      BY <1>11
    <3>6. NoWordSince'
      BY <3>3, <3>4, <3>5 DEF NoWordSince, Separators
    <3>7. Before' # "bs"
      <4>1. at' # 0 /\ at' - 1 < Len(buf') /\ (at' - 1) + 1 = at'
        BY <1>2, <1>11, <2>5
      <4>2. Before' = buf'[at']
        BY <4>1 DEF Before, CharAt
      <4> QED
        BY <2>5, <3>3, <4>2
    <3> QED
      BY <3>6, <3>7 DEF StillBare, EscapedEnd
  <2>10. ASSUME b # at + 2 PROVE StillBare' /\ EscapedEnd'
    <3>1. n \in at + 2 .. b - 1 /\ n \in n .. Len(buf)
      BY <1>2, <2>1, <2>2, <2>10
    <3>2. buf[n + 1] = "sp" /\ CharAt(n) = "sp"
      BY <2>1, <2>2, <3>1 DEF CharAt
    <3>3. j = n
      <4>1. j # n => n \in n .. j - 1
        BY <2>2, <2>5
      <4> QED
        BY <2>4, <2>4b, <3>2, <4>1
    <3>4. at' < Len(buf') /\ CharAt(at)' = "sp"
      BY <1>11, <2>2, <2>5, <3>2, <3>3 DEF CharAt
    <3>5. at' # Len(buf')
      <4>1. at' \in Nat /\ Len(buf') \in Nat
        BY <1>2, <1>11, <2>5
      <4> QED
        BY <3>4, <4>1
    <3>6. CASE target = "argv"
      <4>1. target' = "argv" /\ quote' = "none"
        BY <1>11, <3>6
      <4> QED
        BY <3>4, <3>5, <4>1 DEF StillBare, EscapedEnd
    <3>7. CASE target # "argv"
      <4>1. PICK q \in 1 .. at : buf[q] = ">"
        BY <3>7, RedirectSeen
      <4>0. PICK m \in Nat : m = at + 1
        BY <1>2
      <4>2. /\ m \in Nat /\ m \in 0 .. at' /\ buf'[m] = "semi"
            /\ \A l \in m + 1 .. (at' + 1) - 1 : q \in 1 .. l - 1
        BY <1>2, <1>11, <2>5, <4>0, <4>1
      <4>3. buf'[q] = ">" /\ quote' = "none"
        BY <1>11, <4>1
      <4>4. NoWord(m, at + 1)'
        BY <4>2, <4>3 DEF NoWord
      <4>5. NoWordSince'
        BY <4>2, <4>3, <4>4 DEF NoWordSince, Separators
      <4> QED
        BY <3>5, <4>5 DEF StillBare, EscapedEnd
    <3> QED
      BY <3>6, <3>7
  <2>11. Scanning'
    BY <2>8, <2>9, <2>10 DEF Scanning
  <2>12. Hollow(cmds') => WordlessCommand
    BY <1>4, <1>11
  <2> QED
    BY <1>1, <1>11, <2>6, <2>7, <2>11, <2>12, ScanReason
<1>12. \/ target = "fd" /\ Fail("error")
       \/ ~Writable(cmds, 1) /\ Fail(WriteFailure(cmds))
       \/ Ignore /\ \E f \in AfterLost : Fail(f)
       \/ FreesNothing /\ Fail("underflow")
       \/ ~FreesNothing /\ DoneAtSemicolon(c)
       \/ ~FreesNothing /\ Done(c)
       \/ /\ quote = "none" /\ ~FreesNothing /\ ~AtEnd(buf, at + 2)
          /\ cmds' = c /\ at' = k
          /\ UNCHANGED <<buf, quote, target, redir, old, wrote, torn, fate>>
  BY DEF Semicolon, Ignore
<1> QED
  BY <1>5, <1>6, <1>7, <1>8, <1>9, <1>10, <1>11, <1>12

LEMMA EndOfBufferReason == ASSUME ParserInv, ReasonInv, EndOfBuffer PROVE ReasonInv'
<1>1. fate = "scan" /\ CharAt(at) = Nul /\ CharAt(at) # "sp"
  BY DEF EndOfBuffer, Scan, Nul
<1>2. /\ at \in Nat /\ at = Len(buf) /\ Len(buf) \in Nat /\ buf \in Seq(Chars)
      /\ ListOK(cmds) /\ Fits(cmds, buf, at) /\ EscapedEnd
      /\ Hollow(cmds) => WordlessCommand
  <2>1. /\ at \in Nat /\ at <= Len(buf) /\ Len(buf) \in Nat /\ buf \in Seq(Chars)
        /\ ListOK(cmds) /\ Fits(cmds, buf, at) /\ EscapedEnd
        /\ Hollow(cmds) => WordlessCommand
    BY <1>1, PlaceFacts DEF ReasonInv, Scanning, ParserInv
  <2>2. ~(at < Len(buf))
    BY <1>1, <2>1, CharType
  <2> QED
    BY <2>1, <2>2
<1>3. CASE Done(cmds)
  BY <1>1, <1>3, DoneHere
<1>4. ASSUME Ignore PROVE quote # "none" \/ Last(buf) = "bs"
  <2>1. CASE Escape
    <3>1. at # 0 /\ CharAt(at - 1) = "bs"
      BY <2>1 DEF Escape, Before, Nul
    <3>2. at - 1 < Len(buf) /\ (at - 1) + 1 = Len(buf)
      BY <1>2, <3>1
    <3> QED
      BY <3>1, <3>2 DEF CharAt, Last
  <2> QED
    BY <1>4, <2>1 DEF Ignore
<1>5. CASE Ignore /\ (NoMoreLines \/ Fail("stray"))
  <2>1. Excused("null") /\ Excused("stray")
    BY <1>4, <1>5 DEF Excused, Unfinished
  <2> QED
    BY <1>5, <2>1, FailReason DEF NoMoreLines, Broken
<1>6. CASE /\ Ignore /\ buf' \in Appended /\ buf' # buf /\ at' = at + 1 /\ torn' = TRUE
           /\ UNCHANGED <<quote, target, cmds, redir, fate>>
  <2>1. PICK b \in Appended : b = buf'
    BY <1>6
  <2>2. b \in Seq(Chars) /\ Longer(buf, b) /\ Len(b) > Len(buf) /\ Len(b) \in Nat
    BY <1>2, <1>6, <2>1, AppendedTypes, AppendedLonger, LenProperties
  <2>3. Grows /\ at' \in Nat /\ at' >= at /\ at <= at + 1 /\ at + 1 \in Nat
    BY <1>2, <1>6, <2>1, <2>2 DEF Grows
  <2>4. RedirSeen'
    BY <1>6, <2>3, RedirSeenStays DEF ReasonInv
  <2>5. quote # "none" \/ target # "argv"
    <3>1. CASE quote = "none"
      <4>1. Before = "bs"
        BY <1>6, <3>1 DEF Ignore, Escape
      <4> QED
        BY <1>2, <3>1, <4>1 DEF EscapedEnd
    <3> QED
      BY <3>1
  <2>6. ASSUME NoWordSince PROVE NoWordSince'
    <3>1. CASE quote # "none"
      BY <1>6, <2>3, <2>6, <3>1, NoWordOn
    <3>2. CASE target # "argv"
      <4>1. PICK q \in 1 .. at : buf[q] = ">"
        BY <3>2, RedirectSeen
      <4>2. buf'[q] = ">"
        BY <1>2, <2>1, <2>2, <4>1 DEF Longer
      <4>3. \A l \in at + 1 .. at + 1 : q \in 1 .. l - 1
        BY <1>2, <4>1
      <4>4. \A l \in at + 1 .. at + 1 : \E r \in 1 .. l - 1 : buf'[r] = ">"
        BY <4>2, <4>3
      <4>5. quote' = quote
        BY <1>6
      <4> QED
        BY <1>6, <2>3, <2>6, <4>4, <4>5, NoWordOn
    <3> QED
      BY <2>5, <3>1, <3>2
  <2>7. StillBare'
    BY <1>1, <1>6, <2>3, <2>6, StillBareOn
  <2>8. Fits(cmds', buf', at')
    <3>1. Fits(cmds, b, at + 1)
      BY <1>2, <2>2, <2>3, FitsFurther
    <3> QED
      BY <1>6, <2>1, <3>1
  <2>9. EscapedEnd'
    BY <1>6, <2>5 DEF EscapedEnd
  <2>10. Scanning'
    BY <2>7, <2>8, <2>9 DEF Scanning
  <2> QED
    BY <1>1, <1>2, <1>6, <2>3, <2>4, <2>10, ScanReason
<1>7. \/ Done(cmds)
      \/ Ignore /\ (NoMoreLines \/ Fail("stray"))
      \/ /\ Ignore /\ buf' \in Appended /\ buf' # buf /\ at' = at + 1 /\ torn' = TRUE
         /\ UNCHANGED <<quote, target, cmds, redir, fate>>
  BY DEF EndOfBuffer, list
<1> QED
  BY <1>3, <1>5, <1>6, <1>7

LEMMA RedirectedReason ==
    ASSUME ParserInv, ReasonInv, fate = "scan", CharAt(at) = ">",
           NEW t \in {"FD2FD", "OUT_REDIR", "OUT_APPN"}, NEW o \in {0, 1}, Redirected(t, o)
    PROVE  ReasonInv'
<1> DEFINE x == CharAt(at + 1 + o)
           atStart == at = First
           Into(goal, n) ==
              /\ cmds' = IF atStart THEN cmds ELSE WithArgs(cmds, TakenBack)
              /\ target' = goal /\ at' = n
              /\ UNCHANGED <<buf, quote, torn, fate>>
<1>1. /\ at \in Nat /\ at + 1 \in 1 .. Len(buf) /\ Len(buf) \in Nat
      /\ buf[at + 1] = ">" /\ buf \in Seq(Chars) /\ Longer(buf, buf) /\ ListOK(cmds)
      /\ CharAt(at) \in Ends /\ Fits(cmds, buf, at) /\ (Hollow(cmds) => WordlessCommand)
  <2>1. CharAt(at) # Nul /\ CharAt(at) \in Ends
    BY DEF Nul, Ends
  <2> QED
    BY <2>1, SeparatorPlace DEF ParserInv, ReasonInv, Scanning
<1>2. \/ ~atStart /\ FreesNothing /\ Fail("underflow")
      \/ Fail("error")
      \/ /\ atStart \/ ~FreesNothing
         /\ \E goal \in {"fd", "file"}, n \in {at + 1 + o, at + 3 + o} : Into(goal, n)
  BY DEF Redirected
<1>3. CASE FreesNothing /\ Fail("underflow")
  BY <1>3, NothingToFree
<1>4. CASE Fail("error")
  <2>1. Count(buf, {">"}) > 0
    BY <1>1, CountsOne
  <2> QED
    BY <1>4, <2>1, FailReason DEF Excused
<1>5. ASSUME atStart \/ ~FreesNothing,
             NEW goal \in {"fd", "file"}, NEW n \in Nat, n >= at + 1, Into(goal, n)
      PROVE  ReasonInv'
  <2>1. /\ UNCHANGED <<buf, quote, torn, fate>> /\ at' = n /\ target' = goal
    BY <1>5
  <2>2. Grows /\ at + 1 \in 1 .. at' /\ at <= n
    BY <1>1, <1>5, <2>1, SameGrows
  <2>3. RedirSeen'
    <3>1. buf'[at + 1] = ">"
      BY <1>1, <2>1
    <3>2. PICK q \in 1 .. at' : buf'[q] = ">"
      BY <2>2, <3>1
    <3> QED
      BY <3>2 DEF RedirSeen
  <2>4. EscapedEnd'
    <3>1. target' # "argv"
      BY <1>5, <2>1
    <3> QED
      BY <3>1 DEF EscapedEnd
  <2>5. Args(cmds)' = Args(cmds')
    BY DEF Args, Last
  <2>6. CASE atStart
    <3>1. cmds' = cmds
      BY <1>5, <2>6
    <3>2. StillBare'
      <4>1. Args(cmds) = << <<>> >> => WordlessCommand'
        BY <1>1, <2>2, EndsBare, WordlessStays
      <4> QED
        BY <2>5, <3>1, <4>1 DEF StillBare
    <3>3. Fits(cmds', buf', at')
      BY <1>1, <2>1, <2>2, <3>1, FitsFurther, PlaceFacts
    <3>4. Scanning'
      BY <2>4, <3>2, <3>3 DEF Scanning
    <3> QED
      BY <1>1, <2>1, <2>2, <2>3, <3>1, <3>4, ScanReason
  <2>7. CASE ~atStart
    <3> DEFINE c == WithArgs(cmds, TakenBack)
    <3>1. cmds' = c /\ ~FreesNothing
      BY <1>5, <2>7
    <3>2. ArgvOK(TakenBack)
      BY <1>1, <3>1, TakenBackOK
    <3>3. /\ ListOK(c) /\ Args(c) = TakenBack
          /\ Hollow(c) => Hollow(cmds) \/ TakenBack = <<>>
      BY <1>1, <3>2, WithArgsOK, WithArgsAt
    <3> HIDE DEF c
    <3>4. /\ TakenBack = <<>> => WordlessCommand
          /\ TakenBack # << <<>> >>
          /\ \A m \in 1 .. Len(TakenBack) : Len(TakenBack[m]) <= Weight(buf, at)
          /\ Len(TakenBack) - 1 <= Cardinality(Seen(buf, at, {"sp"}))
          /\ \A m \in 1 .. Len(TakenBack) - 1 : TakenBack[m] # <<>>
      BY <1>1, <3>1, TakenBackReason
    <3>5. StillBare'
      BY <2>5, <3>1, <3>3, <3>4 DEF StillBare
    <3>6. Fits(c, buf, at)
      BY <3>3, <3>4 DEF Fits
    <3>7. Fits(cmds', buf', at')
      BY <1>1, <2>1, <2>2, <3>1, <3>3, <3>6, FitsFurther, PlaceFacts
    <3>8. Scanning'
      BY <2>4, <3>5, <3>7 DEF Scanning
    <3>9. Hollow(cmds') => WordlessCommand
      BY <1>1, <3>1, <3>3, <3>4
    <3> QED
      BY <1>1, <2>1, <2>2, <2>3, <3>8, <3>9, ScanReason
  <2> QED
    BY <2>6, <2>7
<1>6. \A n \in {at + 1 + o, at + 3 + o} : n \in Nat /\ n >= at + 1
  BY <1>1
<1> HIDE DEF Into
<1> QED
  BY <1>2, <1>3, <1>4, <1>5, <1>6

LEMMA RedirectReason == ASSUME ParserInv, ReasonInv, Redirect PROVE ReasonInv'
<1>1. /\ fate = "scan" /\ CharAt(at) = ">" /\ CharAt(at) \notin {Nul, "bs"}
  BY DEF Redirect, Scan, Nul
<1>2. /\ at \in Nat /\ at + 1 \in 1 .. Len(buf) /\ buf[at + 1] = ">" /\ buf \in Seq(Chars)
      /\ Weight(buf, at + 1) >= Weight(buf, at) + 1
  BY <1>1, SeparatorPlace
<1>3. CASE Write(1)
  BY <1>1, <1>2, <1>3, WriteReason
<1>4. CASE FreesNothing /\ Fail("underflow")
  BY <1>4, NothingToFree
<1>5. CASE redir.type # "NONE" /\ Fail("fault")
  <2>1. PICK q \in 1 .. at : buf[q] = ">"
    BY <1>5, RedirectSeen
  <2>2. q \in 1 .. Len(buf) /\ q # at + 1
    BY <1>2, <2>1
  <2>3. Count(buf, {">"}) > 1
    BY <1>2, <2>1, <2>2, CountsTwo
  <2> QED
    BY <1>5, <2>3, FailReason DEF Excused, Broken
<1>6. CASE Fail("error")
  <2>1. Count(buf, {">"}) > 0
    BY <1>2, CountsOne
  <2> QED
    BY <1>6, <2>1, FailReason DEF Excused
<1>7. CASE \/ Redirected("OUT_APPN", 1) \/ Redirected("FD2FD", 0)
           \/ Redirected("OUT_REDIR", 0)
  BY <1>1, <1>7, RedirectedReason
<1>8. \/ Write(1)
      \/ FreesNothing /\ Fail("underflow")
      \/ redir.type # "NONE" /\ Fail("fault")
      \/ Fail("error")
      \/ Redirected("OUT_APPN", 1) \/ Redirected("FD2FD", 0)
      \/ Redirected("OUT_REDIR", 0)
  BY DEF Redirect
<1> QED
  BY <1>3, <1>4, <1>5, <1>6, <1>7, <1>8

-----------------------------------------------------------------------------
(* The invariant, and what follows from it *)

LEMMA ParserInit == Init => ParserInv
<1> SUFFICES ASSUME Init PROVE ParserInv
  OBVIOUS
<1>1. buf \in Seq(Chars) /\ Len(buf) \in Nat
  BY LinesAssumption, LenProperties DEF Init
<1> DEFINE S == [type : Types, argv : Seq(Strings)]
<1>2. NewCommand \in S /\ ArgvOK(NewCommand.argv) /\ NewCommand.type = "SINGLE"
  BY NewCommandOK
<1> HIDE DEF S
<1>3. cmds \in Seq(S) /\ Len(cmds) = 1 /\ cmds[1] = NewCommand /\ cmds # <<>>
  BY <1>2 DEF Init
<1>4. ListOK(cmds)
  BY <1>2, <1>3 DEF ListOK, S
<1>5. Open(cmds)
  BY <1>2, <1>3 DEF Open
<1>6. wrote \in BOOLEAN /\ torn \in BOOLEAN
  BY DEF Init
<1>7. /\ at \in 0 .. Len(buf) /\ old \in 0 .. MaxEachArg
      /\ redir.type \in {"NONE", "FD2FD", "OUT_REDIR", "OUT_APPN"}
      /\ quote \in {"none", "single", "double"} /\ target \in {"argv", "fd", "file"}
      /\ fate = "start"
  BY <1>1, SizeFacts DEF Init
<1>8. fate \in Fates /\ (fate = "parsed" => Finished(cmds))
  BY <1>7 DEF Fates
<1> QED
  BY <1>1, <1>4, <1>5, <1>6, <1>7, <1>8 DEF ParserInv

LEMMA ParserStep == ParserInv /\ [Next]_vars => ParserInv' /\ [MovesOn]_vars
<1> SUFFICES ASSUME ParserInv, [Next]_vars PROVE ParserInv' /\ [MovesOn]_vars
  OBVIOUS
<1>1. CASE Next
  <2>1. Fine
    BY <1>1, BeginFine, QuoteFine, BlankFine, AmpersandFine, BarFine, SemicolonFine,
       BackslashFine, EndOfBufferFine, RedirectFine, WordFine DEF Next
  <2> QED
    BY <2>1 DEF Fine
<1>2. CASE UNCHANGED vars
  <2>1. UNCHANGED <<buf, at, quote, target, cmds, redir, old, wrote, torn, fate>>
    BY <1>2 DEF vars
  <2>2. /\ ListOK(cmds')
        /\ fate \in {"start", "scan"} => Open(cmds')
        /\ fate = "parsed" => Finished(cmds')
    BY <2>1 DEF ParserInv
  <2>3. ParserInv'
    BY <2>1, <2>2 DEF ParserInv
  <2> QED
    BY <1>2, <2>3
<1> QED
  BY <1>1, <1>2

LEMMA InvariantHolds == Spec => []ParserInv
<1>1. ParserInv /\ [Next]_vars => ParserInv'
  BY ParserStep
<1> QED
  BY <1>1, ParserInit, PTL DEF Spec

(* filpinfo enters its switch only on a character of the line or on its    *)
(* NUL, and stores nothing outside an argument or the argument vector,     *)
(* whatever the line and its continuations: it stops before it would.      *)
THEOREM TypeCorrect == Spec => []TypeOK
<1>1. ParserInv => TypeOK
  <2> SUFFICES ASSUME ParserInv PROVE TypeOK
    OBVIOUS
  <2>1. /\ ListOK(cmds) /\ DOMAIN cmds = 1 .. Len(cmds)
        /\ \A n \in 1 .. Len(cmds) : cmds[n] \in [type : Types, argv : Seq(Strings)]
    BY ListFacts, LenProperties DEF ParserInv
  <2>2. ASSUME NEW n \in DOMAIN cmds
        PROVE  /\ cmds[n].type \in Types /\ Len(cmds[n].argv) <= Slots
               /\ \A m \in DOMAIN cmds[n].argv :
                    /\ cmds[n].argv[m] \in Seq(Chars \cup {Nul})
                    /\ Len(cmds[n].argv[m]) <= MaxEachArg
    <3> DEFINE a == cmds[n].argv
    <3>1. ArgvOK(a) /\ cmds[n].type \in Types
      BY <2>1, <2>2 DEF ListOK
    <3> HIDE DEF a
    <3>2. a \in Seq(Strings) /\ DOMAIN a = 1 .. Len(a) /\ Len(a) <= Slots
          /\ \A m \in 1 .. Len(a) : Len(a[m]) <= MaxEachArg
      BY <3>1, LenProperties DEF ArgvOK
    <3>3. \A m \in 1 .. Len(a) : a[m] \in Strings
      BY <3>2, ElementOfSeq
    <3>4. \A m \in DOMAIN a : a[m] \in Seq(Chars \cup {Nul}) /\ Len(a[m]) <= MaxEachArg
      BY <3>2, <3>3 DEF Strings
    <3> QED
      BY <3>1, <3>2, <3>4 DEF a
  <2> QED
    BY <2>2 DEF ParserInv, TypeOK
<1> QED
  BY <1>1, InvariantHolds, PTL

(* Every round of filpinfo's loop ends further on in the line than it      *)
(* began, through all the cases that step back.                            *)
THEOREM ScanGoesOn == Spec => ScanMovesOn
<1>1. ParserInv /\ [Next]_vars => [fate = "scan" /\ fate' = "scan" => at' > at]_vars
  BY ParserStep DEF MovesOn
<1> QED
  BY <1>1, InvariantHolds, PTL DEF Spec, ScanMovesOn

(* The list do_run gets of filpinfo has a separator after every command    *)
(* but the last one, which has none or &.                                  *)
THEOREM ListsFit == Spec => []ListFitsTheRunner
<1>1. ParserInv => ListFitsTheRunner
  BY DEF ParserInv, ListFitsTheRunner, Finished, Last
<1> QED
  BY <1>1, InvariantHolds, PTL

LEMMA ReasonInit == Init => ReasonInv
<1> SUFFICES ASSUME Init PROVE ReasonInv
  OBVIOUS
<1>1. ParserInv
  BY ParserInit
<1>2. /\ at = 0 /\ quote = "none" /\ target = "argv" /\ redir.type = "NONE"
      /\ fate = "start" /\ buf \in Seq(Chars) /\ cmds = <<NewCommand>>
  BY <1>1 DEF Init, ParserInv
<1>3. Len(cmds) = 1 /\ cmds[1] = NewCommand /\ NewCommand.argv = << <<>> >>
  BY <1>2 DEF NewCommand
<1>4. Args(cmds) = << <<>> >> /\ ~Hollow(cmds)
  BY <1>3 DEF Args, Last, Hollow
<1>5. Fits(cmds, buf, at)
  BY <1>2, <1>4, BareListFits
<1>6. NoWordSince
  <2>1. 0 \in 0 .. at /\ 0 + 1 .. (at + 1) - 1 = {}
    BY <1>2
  <2> QED
    BY <1>2, <2>1 DEF NoWordSince, NoWord
<1>7. EscapedEnd
  BY <1>2 DEF EscapedEnd, Before, Nul
<1>8. Scanning
  BY <1>5, <1>6, <1>7 DEF Scanning, StillBare
<1>9. GoesWrongForAReason
  BY <1>2 DEF GoesWrongForAReason
<1> QED
  BY <1>2, <1>4, <1>8, <1>9 DEF ReasonInv, RedirSeen

LEMMA ReasonStep == ParserInv /\ ReasonInv /\ [Next]_vars => ReasonInv'
<1> SUFFICES ASSUME ParserInv, ReasonInv, [Next]_vars PROVE ReasonInv'
  OBVIOUS
<1>1. CASE Next
  BY <1>1, BeginReason, QuoteReason, BlankReason, AmpersandReason, BarReason,
     SemicolonReason, BackslashReason, EndOfBufferReason, RedirectReason, WordReason
     DEF Next
<1>2. CASE UNCHANGED vars
  <2>1. UNCHANGED <<buf, at, quote, target, cmds, redir, old, wrote, torn, fate>>
    BY <1>2 DEF vars
  <2>2. WordlessCommand' = WordlessCommand
    BY <2>1 DEF WordlessCommand, NoWord
  <2>3. RedirSeen' /\ (Hollow(cmds') => WordlessCommand')
    BY <2>1, <2>2 DEF ReasonInv, RedirSeen
  <2>4. Scanning' = Scanning
    <3>1. StillBare' = StillBare /\ EscapedEnd' = EscapedEnd
      BY <2>1, <2>2 DEF StillBare, NoWordSince, NoWord, EscapedEnd, Before, CharAt, Args, Last
    <3> QED
      BY <2>1, <3>1 DEF Scanning
  <2>5. GoesWrongForAReason'
    BY <2>1, <2>2 DEF ReasonInv, GoesWrongForAReason, Unfinished
  <2> QED
    BY <2>1, <2>3, <2>4, <2>5 DEF ReasonInv
<1> QED
  BY <1>1, <1>2

(* filpinfo leaves the line, the argument vectors or the list, or hands     *)
(* over a command without arguments, only on lines of the kinds that       *)
(* GoesWrongForAReason names, whatever the line and its continuations.     *)
THEOREM GoesWrongOnlyForAReason == Spec => []GoesWrongForAReason
<1>1. ParserInv /\ [Next]_vars => ParserInv'
  BY ParserStep
<1>2. ReasonInv => GoesWrongForAReason
  BY DEF ReasonInv
<1> QED
  BY <1>1, <1>2, ParserInit, ReasonInit, ReasonStep, PTL DEF Spec

-----------------------------------------------------------------------------
(* The tokens of a line *)

Kinds == {"word", "&", "&&", "|", "||"}
Tokens == {t \in [kind : Kinds, text : Seq(Chars)] : t.kind # "word" => t.text = <<>>}
Lexers ==
    {l \in [quote : {"none", "'", "dq"}, glue : {"", "word", "&", "|"}, toks : Seq(Tokens)] :
        /\ l.glue # "" => l.toks # <<>> /\ l.toks[Len(l.toks)].kind = l.glue
        /\ l.quote # "none" => l.glue = "word"}
Unread == [quote |-> "none", glue |-> "", toks |-> <<>>]

(* The last element of a sequence, replaced and split off *)
LEMMA FrontFacts ==
    ASSUME NEW S, NEW s \in Seq(S), s # <<>>
    PROVE  /\ Len(s) \in Nat \ {0} /\ s[Len(s)] \in S
           /\ Front(s) \in Seq(S) /\ Len(Front(s)) = Len(s) - 1
           /\ \A m \in 1 .. Len(s) - 1 : Front(s)[m] = s[m]
<1>1. Len(s) \in Nat \ {0}
  BY EmptySeq
<1>2. \A m \in 1 .. Len(s) : s[m] \in S
  BY ElementOfSeq
<1> DEFINE k == Len(s) - 1
<1>3. /\ k \in Nat /\ 1 \in Int /\ k \in Int /\ k - 1 + 1 = k
      /\ \A m \in 1 .. k : s[m] \in S
  BY <1>1, <1>2
<1> HIDE DEF k
<1>4. /\ SubSeq(s, 1, k) \in Seq(S)
      /\ Len(SubSeq(s, 1, k)) = IF 1 <= k THEN k - 1 + 1 ELSE 0
      /\ \A m \in 1 .. k - 1 + 1 : SubSeq(s, 1, k)[m] = s[1 + m - 1]
  BY <1>3, SubSeqProperties
<1>5. \A m \in 1 .. k : 1 + m - 1 = m
  OBVIOUS
<1>6. Len(SubSeq(s, 1, k)) = k
  BY <1>3, <1>4
<1>7. \A m \in 1 .. k : SubSeq(s, 1, k)[m] = s[m]
  BY <1>3, <1>4, <1>5
<1>8. Len(s) \in 1 .. Len(s)
  BY <1>1
<1> QED
  BY <1>1, <1>2, <1>4, <1>6, <1>7, <1>8 DEF Front, k

LEMMA Replaced ==
    ASSUME NEW S, NEW s \in Seq(S), s # <<>>, NEW e \in S
    PROVE  /\ Append(Front(s), e) \in Seq(S) /\ Append(Front(s), e) # <<>>
           /\ Len(Append(Front(s), e)) = Len(s)
           /\ \A m \in 1 .. Len(s) - 1 : Append(Front(s), e)[m] = s[m]
           /\ Append(Front(s), e)[Len(s)] = e
<1>1. /\ Len(s) \in Nat \ {0} /\ Front(s) \in Seq(S) /\ Len(Front(s)) = Len(s) - 1
      /\ \A m \in 1 .. Len(s) - 1 : Front(s)[m] = s[m]
  BY FrontFacts
<1> DEFINE f == Front(s)
<1> HIDE DEF f
<1>2. /\ Append(f, e) \in Seq(S) /\ Append(f, e) # <<>> /\ Len(Append(f, e)) = Len(f) + 1
      /\ \A i \in 1 .. Len(f) : Append(f, e)[i] = f[i]
      /\ Append(f, e)[Len(f) + 1] = e
  BY <1>1, AppendProperties DEF f
<1>3. Len(f) + 1 = Len(s) /\ Len(f) = Len(s) - 1
  BY <1>1 DEF f
<1> QED
  BY <1>1, <1>2, <1>3 DEF f

LEMMA FrontAndLast ==
    ASSUME NEW S, NEW s \in Seq(S), s # <<>>
    PROVE  s = Append(Front(s), s[Len(s)])
<1>1. Len(s) \in Nat \ {0} /\ s[Len(s)] \in S
  BY FrontFacts
<1> DEFINE t == Append(Front(s), s[Len(s)])
<1>2. /\ t \in Seq(S) /\ Len(t) = Len(s)
      /\ \A m \in 1 .. Len(s) - 1 : t[m] = s[m]
      /\ t[Len(s)] = s[Len(s)]
  BY <1>1, Replaced
<1> HIDE DEF t
<1>3. \A m \in 1 .. Len(s) : s[m] = t[m]
  BY <1>1, <1>2
<1>4. s \in Seq(S) /\ Len(s) = Len(t)
  BY <1>2
<1>5. s = t
  BY ONLY <1>2, <1>3, <1>4, SeqEqual
<1> QED
  BY <1>5 DEF t

LEMMA FrontOfAppend ==
    ASSUME NEW S, NEW s \in Seq(S), NEW e \in S
    PROVE  Front(Append(s, e)) = s /\ Last(Append(s, e)) = e
<1> DEFINE u == Append(s, e)  f == Front(u)
<1>1. /\ u \in Seq(S) /\ u # <<>> /\ Len(u) = Len(s) + 1 /\ u[Len(s) + 1] = e
      /\ \A i \in 1 .. Len(s) : u[i] = s[i]
  BY AppendProperties
<1>2. Len(s) \in Nat
  BY LenProperties
<1> HIDE DEF u
<1>3. /\ Front(u) \in Seq(S) /\ Len(Front(u)) = Len(u) - 1
      /\ \A m \in 1 .. Len(u) - 1 : Front(u)[m] = u[m]
  BY ONLY <1>1, FrontFacts
<1> HIDE DEF f
<1>4. f \in Seq(S) /\ s \in Seq(S) /\ Len(f) = Len(s) /\ \A i \in 1 .. Len(f) : f[i] = s[i]
  BY <1>1, <1>2, <1>3 DEF f
<1>5. f = s
  BY ONLY <1>4, SeqEqual
<1> QED
  BY <1>1, <1>5 DEF f, u, Last

LEMMA LexerFacts ==
    ASSUME NEW l \in Lexers
    PROVE  /\ l = [quote |-> l.quote, glue |-> l.glue, toks |-> l.toks]
           /\ l.quote \in {"none", "'", "dq"} /\ l.glue \in {"", "word", "&", "|"}
           /\ l.toks \in Seq(Tokens)
           /\ l.glue # "" => l.toks # <<>> /\ l.toks[Len(l.toks)].kind = l.glue
           /\ l.quote # "none" => l.glue = "word"
  BY DEF Lexers

LEMMA LexerWith ==
    ASSUME NEW l, l = [quote |-> l.quote, glue |-> l.glue, toks |-> l.toks],
           NEW q, NEW g
    PROVE  /\ [l EXCEPT !.quote = q] = [quote |-> q, glue |-> l.glue, toks |-> l.toks]
           /\ [l EXCEPT !.glue = g] = [quote |-> l.quote, glue |-> g, toks |-> l.toks]
<1>1. PICK a, b, c : l = [quote |-> a, glue |-> b, toks |-> c]
  OBVIOUS
<1>2. [l EXCEPT !.quote = q] = [quote |-> q, glue |-> b, toks |-> c]
  BY ONLY <1>1
<1>3. [l EXCEPT !.glue = g] = [quote |-> a, glue |-> g, toks |-> c]
  BY ONLY <1>1
<1> QED
  BY <1>1, <1>2, <1>3

(* The last word gets s, or a word s begins.                               *)
GrownToks(l, s) ==
    IF l.glue = "word" THEN Append(Front(l.toks), Tok("word", l.toks[Len(l.toks)].text \o s))
    ELSE Append(l.toks, Tok("word", s))

LEMMA GrownIs ==
    ASSUME NEW l \in Lexers, NEW s \in Seq(Chars)
    PROVE  /\ Grown(l, s) = [quote |-> l.quote, glue |-> "word", toks |-> GrownToks(l, s)]
           /\ Grown(l, s) \in Lexers
           /\ GrownToks(l, s) \in Seq(Tokens) /\ GrownToks(l, s) # <<>>
           /\ GrownToks(l, s)[Len(GrownToks(l, s))].kind = "word"
<1> DEFINE T == l.toks  t == GrownToks(l, s)
<1>1. /\ l = [quote |-> l.quote, glue |-> l.glue, toks |-> l.toks]
      /\ l.quote \in {"none", "'", "dq"} /\ T \in Seq(Tokens)
      /\ l.glue # "" => T # <<>>
  BY LexerFacts
<1>2. Grown(l, s) = [quote |-> l.quote, glue |-> "word", toks |-> t]
  BY DEF Grown, GrownToks, Last
<1> HIDE DEF T
<1>3. t \in Seq(Tokens) /\ t # <<>> /\ t[Len(t)].kind = "word"
  <2>1. CASE l.glue = "word"
    <3> DEFINE w == T[Len(T)].text \o s  e == Tok("word", w)
    <3>1. T # <<>>
      BY <1>1, <2>1
    <3>2. T[Len(T)] \in Tokens
      BY <1>1, <3>1, FrontFacts
    <3>3. T[Len(T)].text \in Seq(Chars)
      BY <3>2 DEF Tokens
    <3>4. w \in Seq(Chars)
      BY <3>3, ConcatProperties
    <3> HIDE DEF w
    <3>5. e \in Tokens /\ e.kind = "word"
      BY <3>4 DEF Tokens, Tok, Kinds
    <3> HIDE DEF e
    <3>6. /\ Append(Front(T), e) \in Seq(Tokens) /\ Append(Front(T), e) # <<>>
          /\ Len(Append(Front(T), e)) = Len(T) /\ Append(Front(T), e)[Len(T)] = e
      <4>1. T \in Seq(Tokens) /\ T # <<>> /\ e \in Tokens
        BY <1>1, <3>1, <3>5
      <4> QED
        BY ONLY <4>1, Replaced
    <3>7. t = Append(Front(T), e)
      BY <2>1 DEF GrownToks, e, w, T
    <3> QED
      BY <3>5, <3>6, <3>7
  <2>2. CASE l.glue # "word"
    <3> DEFINE e == Tok("word", s)
    <3>1. e \in Tokens /\ e.kind = "word"
      BY DEF Tokens, Tok, Kinds
    <3> HIDE DEF e
    <3>2. T \in Seq(Tokens) /\ e \in Tokens
      BY <1>1, <3>1
    <3>3. /\ Append(T, e) \in Seq(Tokens) /\ Append(T, e) # <<>>
          /\ Len(Append(T, e)) = Len(T) + 1 /\ Append(T, e)[Len(T) + 1] = e
      BY ONLY <3>2, AppendProperties
    <3>4. t = Append(T, e)
      BY <2>2 DEF GrownToks, e, T
    <3> QED
      BY <3>1, <3>3, <3>4
  <2> QED
    BY <2>1, <2>2
<1> HIDE DEF t
<1>4. [quote |-> l.quote, glue |-> "word", toks |-> t] \in Lexers
  BY <1>1, <1>3 DEF Lexers
<1> QED
  BY <1>2, <1>3, <1>4 DEF t

(* An operator behind the tokens, or a second one that doubles the last    *)
OpToks(l, x) ==
    IF l.glue = x THEN Append(Front(l.toks), Tok(Doubled(x), <<>>))
    ELSE Append(l.toks, Tok(x, <<>>))

LEMMA OpToksIs ==
    ASSUME NEW l \in Lexers, NEW x \in {"&", "|"}
    PROVE  /\ OpToks(l, x) \in Seq(Tokens) /\ OpToks(l, x) # <<>>
           /\ l.glue # x => OpToks(l, x)[Len(OpToks(l, x))].kind = x
<1> DEFINE T == l.toks
<1>1. T \in Seq(Tokens) /\ (l.glue # "" => T # <<>>)
  BY LexerFacts
<1> HIDE DEF T
<1>2. <<>> \in Seq(Chars)
  BY EmptySeq
<1>3. CASE l.glue = x
  <2> DEFINE e == Tok(Doubled(x), <<>>)
  <2>1. e \in Tokens
    BY <1>2 DEF Tokens, Tok, Kinds, Doubled
  <2>2. T # <<>>
    BY <1>1, <1>3
  <2> HIDE DEF e
  <2>3. Append(Front(T), e) \in Seq(Tokens) /\ Append(Front(T), e) # <<>>
    BY <1>1, <2>1, <2>2, Replaced
  <2>4. OpToks(l, x) = Append(Front(T), e)
    BY <1>3 DEF OpToks, T, e
  <2> QED
    BY <1>3, <2>3, <2>4
<1>4. CASE l.glue # x
  <2> DEFINE e == Tok(x, <<>>)
  <2>1. e \in Tokens /\ e.kind = x
    BY <1>2 DEF Tokens, Tok, Kinds
  <2> HIDE DEF e
  <2>2. T \in Seq(Tokens) /\ e \in Tokens
    BY <1>1, <2>1
  <2>3. /\ Append(T, e) \in Seq(Tokens) /\ Append(T, e) # <<>>
        /\ Len(Append(T, e)) = Len(T) + 1 /\ Append(T, e)[Len(T) + 1] = e
    BY ONLY <2>2, AppendProperties
  <2>4. OpToks(l, x) = Append(T, e)
    BY <1>4 DEF OpToks, T, e
  <2> QED
    BY <2>1, <2>3, <2>4
<1> QED
  BY <1>3, <1>4

(* The cases of LexChar *)
LEMMA LexCharIs ==
    ASSUME NEW l \in Lexers, NEW x \in Chars
    PROVE  /\ l.quote = x =>
                LexChar(l, x) = [quote |-> "none", glue |-> l.glue, toks |-> l.toks]
           /\ l.quote \notin {"none", x} => LexChar(l, x) = Grown(l, <<x>>)
           /\ l.quote = "none" /\ x \in {"'", "dq"} =>
                LexChar(l, x) = [quote |-> x, glue |-> "word", toks |-> GrownToks(l, <<>>)]
           /\ l.quote = "none" /\ x = "sp" =>
                LexChar(l, x) = [quote |-> "none", glue |-> "", toks |-> l.toks]
           /\ l.quote = "none" /\ x \in {"&", "|"} =>
                LexChar(l, x) = [quote |-> "none", glue |-> IF l.glue = x THEN "" ELSE x,
                                 toks |-> OpToks(l, x)]
           /\ l.quote = "none" /\ x \notin {"'", "dq", "sp", "&", "|"} =>
                LexChar(l, x) = Grown(l, <<x>>)
<1>1. l = [quote |-> l.quote, glue |-> l.glue, toks |-> l.toks]
  BY LexerFacts
<1>2. x # "none"
  BY DEF Chars, Digits
<1>3. [l EXCEPT !.quote = "none"] = [quote |-> "none", glue |-> l.glue, toks |-> l.toks]
      /\ [l EXCEPT !.glue = ""] = [quote |-> l.quote, glue |-> "", toks |-> l.toks]
  BY ONLY <1>1, LexerWith
<1>4. Grown(l, <<>>) = [quote |-> l.quote, glue |-> "word", toks |-> GrownToks(l, <<>>)]
  BY GrownIs, EmptySeq
<1>5. [Grown(l, <<>>) EXCEPT !.quote = x] = [quote |-> x, glue |-> "word", toks |-> GrownToks(l, <<>>)]
  <2> DEFINE t == GrownToks(l, <<>>)
  <2> HIDE DEF t
  <2> QED
    BY <1>4 DEF t
<1>6. ASSUME l.quote = x PROVE LexChar(l, x) = [quote |-> "none", glue |-> l.glue, toks |-> l.toks]
  BY <1>3, <1>6 DEF LexChar
<1>7. ASSUME l.quote \notin {"none", x} PROVE LexChar(l, x) = Grown(l, <<x>>)
  BY <1>7 DEF LexChar
<1>8. ASSUME l.quote = "none", x \in {"'", "dq"}
      PROVE  LexChar(l, x) = [quote |-> x, glue |-> "word", toks |-> GrownToks(l, <<>>)]
  <2>1. LexChar(l, x) = [Grown(l, <<>>) EXCEPT !.quote = x]
    BY <1>2, <1>8 DEF LexChar
  <2> QED
    BY <1>5, <2>1
<1>9. ASSUME l.quote = "none", x = "sp"
      PROVE  LexChar(l, x) = [quote |-> "none", glue |-> "", toks |-> l.toks]
  <2>1. LexChar(l, x) = [l EXCEPT !.glue = ""]
    BY <1>2, <1>9 DEF LexChar
  <2> QED
    BY <1>3, <1>9, <2>1
<1>10. ASSUME l.quote = "none", x \in {"&", "|"}
       PROVE  LexChar(l, x) = [quote |-> "none", glue |-> IF l.glue = x THEN "" ELSE x,
                               toks |-> OpToks(l, x)]
  BY <1>2, <1>10 DEF LexChar, OpToks
<1>11. ASSUME l.quote = "none", x \notin {"'", "dq", "sp", "&", "|"}
       PROVE  LexChar(l, x) = Grown(l, <<x>>)
  BY <1>2, <1>11 DEF LexChar
<1> QED
  BY <1>6, <1>7, <1>8, <1>9, <1>10, <1>11

LEMMA LexCharType ==
    ASSUME NEW l \in Lexers, NEW x \in Chars
    PROVE  LexChar(l, x) \in Lexers
<1>1. /\ l.quote \in {"none", "'", "dq"} /\ l.glue \in {"", "word", "&", "|"}
      /\ l.toks \in Seq(Tokens)
      /\ l.glue # "" => l.toks # <<>> /\ l.toks[Len(l.toks)].kind = l.glue
      /\ l.quote # "none" => l.glue = "word"
  BY LexerFacts
<1>2. <<>> \in Seq(Chars) /\ <<x>> \in Seq(Chars)
  BY EmptySeq
<1>3. CASE l.quote = x
  <2>1. [quote |-> "none", glue |-> l.glue, toks |-> l.toks] \in Lexers
    BY <1>1 DEF Lexers
  <2> QED
    BY <1>3, <2>1, LexCharIs
<1>4. Grown(l, <<x>>) \in Lexers
  BY <1>2, GrownIs
<1>5. CASE l.quote = "none" /\ x \in {"'", "dq"}
  <2> DEFINE t == GrownToks(l, <<>>)
  <2>1. t \in Seq(Tokens) /\ t # <<>> /\ t[Len(t)].kind = "word"
    BY <1>2, GrownIs
  <2> HIDE DEF t
  <2>2. [quote |-> x, glue |-> "word", toks |-> t] \in Lexers
    BY <1>5, <2>1 DEF Lexers
  <2> QED
    BY <1>5, <2>2, LexCharIs DEF t
<1>6. CASE l.quote = "none" /\ x = "sp"
  <2>1. [quote |-> "none", glue |-> "", toks |-> l.toks] \in Lexers
    BY <1>1 DEF Lexers
  <2> QED
    BY <1>6, <2>1, LexCharIs
<1>7. CASE l.quote = "none" /\ x \in {"&", "|"}
  <2> DEFINE t == OpToks(l, x)  g == IF l.glue = x THEN "" ELSE x
  <2>1. t \in Seq(Tokens) /\ t # <<>> /\ (g # "" => t[Len(t)].kind = g)
    BY <1>7, OpToksIs
  <2>2. g \in {"", "word", "&", "|"}
    BY <1>7
  <2> HIDE DEF t, g
  <2>3. [quote |-> "none", glue |-> g, toks |-> t] \in Lexers
    BY <1>7, <2>1, <2>2 DEF Lexers
  <2> QED
    BY <1>7, <2>3, LexCharIs DEF t, g
<1> QED
  BY <1>3, <1>4, <1>5, <1>6, <1>7, LexCharIs

(* Lexed computes what its definition says.                                *)
LEMMA LexedIs ==
    ASSUME NEW b \in Seq(Chars)
    PROVE  /\ Len(b) \in Nat
           /\ Lexed(b)[0] = Unread
           /\ \A n \in 1 .. Len(b) : Lexed(b)[n] = LexChar(Lexed(b)[n - 1], b[n])
           /\ \A n \in 0 .. Len(b) : Lexed(b)[n] \in Lexers
<1> DEFINE S == [n \in 0 .. Len(b) |-> Lexers]
           G == [p \in Lexers \X (1 .. Len(b)) |-> LexChar(p[1], b[p[2]])]
           E(g) == [n \in 0 .. Len(b) |-> IF n = 0 THEN Unread ELSE LexChar(g[n - 1], b[n])]
<1>1. Len(b) \in Nat /\ \A n \in 1 .. Len(b) : b[n] \in Chars
  BY LenProperties, ElementOfSeq
<1>2. Unread \in Lexers
  BY EmptySeq DEF Unread, Lexers
<1>3. \A l \in Lexers, n \in 1 .. Len(b) : G[<<l, n>>] = LexChar(l, b[n])
  OBVIOUS
<1>4. \A n \in 1 .. Len(b) : S[n - 1] = Lexers /\ S[n] = Lexers
  BY <1>1
<1>5. \A l \in Lexers, n \in 1 .. Len(b) : LexChar(l, b[n]) \in Lexers
  BY <1>1, LexCharType
<1> HIDE DEF G
<1>6. PICK f : RunOf(f, Len(b), S, Unread, G)
  <2>1. Unread \in S[0]
    BY <1>1, <1>2
  <2>2. StepsIn(Len(b), S, G)
    <3> HIDE DEF S
    <3> QED
      BY <1>3, <1>4, <1>5 DEF StepsIn
  <2> HIDE DEF S
  <2> QED
    BY <1>1, <2>1, <2>2, Recursion
<1>7. /\ f[0] = Unread /\ \A n \in 1 .. Len(b) : f[n] = G[<<f[n - 1], n>>]
      /\ \A n \in 0 .. Len(b) : f[n] \in Lexers
  BY <1>6 DEF RunOf
<1> DEFINE g == [n \in 0 .. Len(b) |-> f[n]]
<1>8. g = E(g)
  <2>1. ASSUME NEW n \in 0 .. Len(b)
        PROVE  g[n] = IF n = 0 THEN Unread ELSE LexChar(g[n - 1], b[n])
    <3>1. CASE n = 0
      BY <1>7, <3>1
    <3>2. CASE n # 0
      <4>1. n \in 1 .. Len(b) /\ n - 1 \in 0 .. Len(b)
        BY <1>1, <3>2
      <4>2. f[n - 1] \in Lexers /\ f[n] = G[<<f[n - 1], n>>]
        BY <1>7, <4>1
      <4>3. f[n] = LexChar(f[n - 1], b[n])
        BY <1>3, <4>1, <4>2
      <4> QED
        BY <3>2, <4>1, <4>3
    <3> QED
      BY <3>1, <3>2
  <2> QED
    BY <2>1
<1>9. Lexed(b) = E(Lexed(b))
  BY <1>8 DEF Lexed, Unread
<1>10. Lexed(b)[0] = Unread
  BY <1>1, <1>9
<1>11. \A n \in 1 .. Len(b) : Lexed(b)[n] = LexChar(Lexed(b)[n - 1], b[n])
  BY <1>1, <1>9
<1>12. \A n \in 0 .. Len(b) : Lexed(b)[n] \in Lexers
  <2> DEFINE q == Lexed(b)  m == Len(b)
  <2>1. m \in Nat /\ q[0] \in S[0] /\ \A i \in 1 .. m : q[i - 1] \in S[i - 1] => q[i] \in S[i]
    BY <1>1, <1>2, <1>4, <1>5, <1>10, <1>11
  <2>2. \A i \in 0 .. m : q[i] \in S[i]
    <3> HIDE DEF q, S, m
    <3> QED
      BY <2>1, Along
  <2> QED
    BY <2>2
<1> QED
  BY <1>1, <1>10, <1>11, <1>12

(* What a line gives so far does not depend on what comes after it.        *)
LEMMA LexedInLonger ==
    ASSUME NEW b \in Seq(Chars), NEW d \in Seq(Chars), Longer(b, d)
    PROVE  \A n \in 0 .. Len(b) : Lexed(d)[n] = Lexed(b)[n]
<1> DEFINE f == Lexed(d)  g == Lexed(b)  n == Len(b)
<1>1. /\ n \in Nat /\ f[0] = Unread /\ g[0] = Unread
      /\ \A i \in 1 .. Len(d) : f[i] = LexChar(f[i - 1], d[i])
      /\ \A i \in 1 .. n : g[i] = LexChar(g[i - 1], b[i])
      /\ Len(d) \in Nat
  BY LexedIs
<1>2. \A i \in 1 .. n : i \in 1 .. Len(d) /\ d[i] = b[i]
  BY <1>1 DEF Longer
<1> HIDE DEF f, g, n
<1>3. StayAlike(n, f, g)
  BY <1>1, <1>2 DEF StayAlike
<1>4. \A i \in 0 .. n : f[i] = g[i]
  BY <1>1, <1>3, Alike
<1> QED
  BY <1>4 DEF f, g, n

-----------------------------------------------------------------------------
(* The commands the tokens stand for *)

Command == [type : Types, argv : Seq(Seq(Chars))]
Bare == [type |-> "SINGLE", argv |-> <<>>]
CommandLists == {c \in Seq(Command) : c # <<>>}

LEMMA CommandListFacts ==
    ASSUME NEW c \in CommandLists
    PROVE  /\ Len(c) \in Nat \ {0} /\ Len(c) \in 1 .. Len(c) /\ c \in Seq(Command)
           /\ \A n \in 1 .. Len(c) : /\ c[n] \in Command /\ c[n].type \in Types
                                     /\ c[n].argv \in Seq(Seq(Chars))
           /\ Args(c) = c[Len(c)].argv /\ Args(c) \in Seq(Seq(Chars))
<1>1. Len(c) \in Nat \ {0} /\ c \in Seq(Command)
  BY EmptySeq DEF CommandLists
<1>2. \A n \in 1 .. Len(c) : c[n] \in Command
  BY <1>1, ElementOfSeq
<1>3. \A n \in 1 .. Len(c) : c[n].type \in Types /\ c[n].argv \in Seq(Seq(Chars))
  BY <1>2 DEF Command
<1> QED
  BY <1>1, <1>2, <1>3 DEF Args, Last

LEMMA WithLast ==
    ASSUME NEW c \in CommandLists, NEW e \in Command
    PROVE  /\ Changed(c, e) \in CommandLists /\ Len(Changed(c, e)) = Len(c)
           /\ Changed(c, e)[Len(c)] = e /\ Args(Changed(c, e)) = e.argv
           /\ \A n \in 1 .. Len(c) - 1 : Changed(c, e)[n] = c[n]
<1> DEFINE d == Changed(c, e)
<1>1. /\ Len(c) \in Nat \ {0} /\ Len(c) \in 1 .. Len(c) /\ c \in Seq(Command)
  BY CommandListFacts
<1>2. d = [c EXCEPT ![Len(c)] = e]
  BY DEF Changed
<1> HIDE DEF d
<1>3. /\ d \in Seq(Command) /\ Len(d) = Len(c)
      /\ \A n \in 1 .. Len(c) : d[n] = IF n = Len(c) THEN e ELSE c[n]
  BY <1>1, <1>2, ExceptSeq
<1>4. d # <<>>
  BY <1>1, <1>3, EmptySeq
<1>5. d[Len(c)] = e /\ \A n \in 1 .. Len(c) - 1 : d[n] = c[n]
  <2>1. \A n \in 1 .. Len(c) - 1 : n \in 1 .. Len(c) /\ n # Len(c)
    BY <1>1
  <2> QED
    BY <1>1, <1>3, <2>1
<1> QED
  BY <1>3, <1>4, <1>5 DEF d, CommandLists, Args, Last

LEMMA WithArgsIs ==
    ASSUME NEW c \in CommandLists, NEW a \in Seq(Seq(Chars))
    PROVE  /\ WithArgs(c, a) = Changed(c, [type |-> c[Len(c)].type, argv |-> a])
           /\ WithArgs(c, a) \in CommandLists /\ Len(WithArgs(c, a)) = Len(c)
           /\ Args(WithArgs(c, a)) = a
<1> DEFINE e == [type |-> c[Len(c)].type, argv |-> a]
<1>1. c[Len(c)] \in Command /\ c[Len(c)].type \in Types
  BY CommandListFacts
<1>2. [c[Len(c)] EXCEPT !.argv = a] = e
  BY <1>1 DEF Command
<1>3. WithArgs(c, a) = Changed(c, e)
  BY <1>2 DEF WithArgs, Changed
<1>4. e \in Command /\ e.argv = a
  BY <1>1 DEF Command
<1> HIDE DEF e
<1>5. Changed(c, e) \in CommandLists /\ Len(Changed(c, e)) = Len(c) /\ Args(Changed(c, e)) = e.argv
  BY <1>4, WithLast
<1> QED
  BY <1>3, <1>4, <1>5 DEF e

LEMMA AssembledIs ==
    ASSUME NEW c \in CommandLists, NEW t \in Tokens
    PROVE  /\ Assembled(c, t) \in CommandLists
           /\ t.kind = "word" =>
                  Assembled(c, t) = Changed(c, [type |-> c[Len(c)].type,
                                                argv |-> Append(Args(c), t.text)])
           /\ t.kind # "word" =>
                /\ TypeOf(t.kind) \in Types \ {"SINGLE"}
                /\ Assembled(c, t) = Append(Changed(c, [type |-> TypeOf(t.kind),
                                                        argv |-> Args(c)]), Bare)
<1>1. /\ c[Len(c)] \in Command /\ c[Len(c)].type \in Types
      /\ Args(c) = c[Len(c)].argv /\ Args(c) \in Seq(Seq(Chars))
  BY CommandListFacts
<1>2. t.text \in Seq(Chars) /\ t.kind \in Kinds
  BY DEF Tokens
<1>3. CASE t.kind = "word"
  <2> DEFINE a == Append(Args(c), t.text)  e == [type |-> c[Len(c)].type, argv |-> a]
  <2>1. a \in Seq(Seq(Chars))
    BY <1>1, <1>2, AppendProperties
  <2>2. Assembled(c, t) = [c EXCEPT ![Len(c)].argv = a]
    BY <1>1, <1>3 DEF Assembled
  <2> HIDE DEF a
  <2>3. [c[Len(c)] EXCEPT !.argv = a] = e /\ e \in Command
    BY <1>1, <2>1 DEF Command
  <2>4. Assembled(c, t) = Changed(c, e)
    BY <2>2, <2>3 DEF Changed
  <2>5. Changed(c, e) \in CommandLists
    <3> HIDE DEF e
    <3> QED
      BY <2>3, WithLast
  <2> QED
    BY <1>3, <2>4, <2>5 DEF a
<1>4. CASE t.kind # "word"
  <2> DEFINE e == [type |-> TypeOf(t.kind), argv |-> Args(c)]  d == Changed(c, e)
  <2>1. TypeOf(t.kind) \in Types \ {"SINGLE"}
    BY <1>2, <1>4 DEF Kinds, TypeOf, Types
  <2>2. [c[Len(c)] EXCEPT !.type = TypeOf(t.kind)] = e /\ e \in Command
    BY <1>1, <2>1 DEF Command
  <2>3. Assembled(c, t) = Append(d, Bare)
    BY <1>4, <2>2 DEF Assembled, Changed, Bare
  <2>4. d \in CommandLists
    <3> HIDE DEF e
    <3> QED
      BY <2>2, WithLast
  <2>5. Bare \in Command
    BY EmptySeq DEF Bare, Command, Types
  <2>6. d \in Seq(Command) /\ Bare \in Command
    BY <2>4, <2>5 DEF CommandLists
  <2> HIDE DEF d
  <2>7. Append(d, Bare) \in Seq(Command) /\ Append(d, Bare) # <<>>
    BY ONLY <2>6, AppendProperties
  <2> QED
    BY <1>4, <2>1, <2>3, <2>7 DEF d, CommandLists
<1> QED
  BY <1>3, <1>4

(* Assembly takes one token after the other.                               *)
AssembledUpto(toks) ==
    LET c[n \in 0 .. Len(toks)] ==
            IF n = 0 THEN <<[type |-> "SINGLE", argv |-> <<>>]>>
            ELSE Assembled(c[n - 1], toks[n])
    IN  c

LEMMA AssemblyIs ==
    ASSUME NEW s \in Seq(Tokens)
    PROVE  /\ Assembly(s) = AssembledUpto(s)[Len(s)] /\ Len(s) \in Nat
           /\ AssembledUpto(s)[0] = <<Bare>>
           /\ \A n \in 1 .. Len(s) : AssembledUpto(s)[n] = Assembled(AssembledUpto(s)[n - 1], s[n])
           /\ \A n \in 0 .. Len(s) : AssembledUpto(s)[n] \in CommandLists
<1> DEFINE S == [n \in 0 .. Len(s) |-> CommandLists]
           G == [p \in CommandLists \X (1 .. Len(s)) |-> Assembled(p[1], s[p[2]])]
           E(g) == [n \in 0 .. Len(s) |-> IF n = 0 THEN <<Bare>> ELSE Assembled(g[n - 1], s[n])]
<1>1. Len(s) \in Nat /\ \A n \in 1 .. Len(s) : s[n] \in Tokens
  BY LenProperties, ElementOfSeq
<1>2. <<Bare>> \in CommandLists
  <2>1. Bare \in Command
    BY EmptySeq DEF Bare, Command, Types
  <2> HIDE DEF Bare
  <2> QED
    BY <2>1 DEF CommandLists
<1>3. \A l \in CommandLists, n \in 1 .. Len(s) : G[<<l, n>>] = Assembled(l, s[n])
  OBVIOUS
<1>4. \A n \in 1 .. Len(s) : S[n - 1] = CommandLists /\ S[n] = CommandLists
  BY <1>1
<1>5. \A l \in CommandLists, n \in 1 .. Len(s) : Assembled(l, s[n]) \in CommandLists
  BY <1>1, AssembledIs
<1> HIDE DEF G
<1>6. PICK f : RunOf(f, Len(s), S, <<Bare>>, G)
  <2>1. <<Bare>> \in S[0]
    BY <1>1, <1>2
  <2>2. StepsIn(Len(s), S, G)
    <3> HIDE DEF S
    <3> QED
      BY <1>3, <1>4, <1>5 DEF StepsIn
  <2> HIDE DEF S
  <2> QED
    BY <1>1, <2>1, <2>2, Recursion
<1>7. /\ f[0] = <<Bare>> /\ \A n \in 1 .. Len(s) : f[n] = G[<<f[n - 1], n>>]
      /\ \A n \in 0 .. Len(s) : f[n] \in CommandLists
  BY <1>6 DEF RunOf
<1> DEFINE g == [n \in 0 .. Len(s) |-> f[n]]
<1>8. g = E(g)
  <2>1. ASSUME NEW n \in 0 .. Len(s)
        PROVE  g[n] = IF n = 0 THEN <<Bare>> ELSE Assembled(g[n - 1], s[n])
    <3>1. CASE n = 0
      BY <1>7, <3>1
    <3>2. CASE n # 0
      <4>1. n \in 1 .. Len(s) /\ n - 1 \in 0 .. Len(s)
        BY <1>1, <3>2
      <4>2. f[n - 1] \in CommandLists /\ f[n] = G[<<f[n - 1], n>>]
        BY <1>7, <4>1
      <4>3. f[n] = Assembled(f[n - 1], s[n])
        BY <1>3, <4>1, <4>2
      <4> QED
        BY <3>2, <4>1, <4>3
    <3> QED
      BY <3>1, <3>2
  <2> QED
    BY <2>1
<1>9. AssembledUpto(s) = E(AssembledUpto(s))
  BY <1>8 DEF AssembledUpto, Bare
<1>10. AssembledUpto(s)[0] = <<Bare>>
  BY <1>1, <1>9
<1>11. \A n \in 1 .. Len(s) : AssembledUpto(s)[n] = Assembled(AssembledUpto(s)[n - 1], s[n])
  BY <1>1, <1>9
<1>12. \A n \in 0 .. Len(s) : AssembledUpto(s)[n] \in CommandLists
  <2> DEFINE q == AssembledUpto(s)  m == Len(s)
  <2>1. m \in Nat /\ q[0] \in S[0] /\ \A i \in 1 .. m : q[i - 1] \in S[i - 1] => q[i] \in S[i]
    BY <1>1, <1>2, <1>4, <1>5, <1>10, <1>11
  <2>2. \A i \in 0 .. m : q[i] \in S[i]
    <3> HIDE DEF q, S, m
    <3> QED
      BY <2>1, Along
  <2> QED
    BY <2>2
<1>13. Assembly(s) = AssembledUpto(s)[Len(s)]
  BY DEF Assembly, AssembledUpto
<1> QED
  BY <1>1, <1>10, <1>11, <1>12, <1>13

LEMMA AssemblyType ==
    ASSUME NEW s \in Seq(Tokens)
    PROVE  Assembly(s) \in CommandLists
<1>1. Len(s) \in 0 .. Len(s)
  BY LenProperties
<1> QED
  BY <1>1, AssemblyIs

LEMMA AssemblyNone == Assembly(<<>>) = <<Bare>>
<1>1. <<>> \in Seq(Tokens) /\ Len(<<>>) = 0
  BY EmptySeq
<1> QED
  BY <1>1, AssemblyIs

LEMMA AssemblyAppend ==
    ASSUME NEW s \in Seq(Tokens), NEW t \in Tokens
    PROVE  Assembly(Append(s, t)) = Assembled(Assembly(s), t)
<1> DEFINE u == Append(s, t)  n == Len(s)  f == AssembledUpto(u)  g == AssembledUpto(s)
<1>1. /\ u \in Seq(Tokens) /\ Len(u) = n + 1 /\ u[n + 1] = t
      /\ \A i \in 1 .. n : u[i] = s[i]
  BY AppendProperties
<1> HIDE DEF u
<1>2. /\ n \in Nat /\ f[0] = <<Bare>> /\ g[0] = <<Bare>>
      /\ Assembly(u) = f[n + 1] /\ Assembly(s) = g[n]
      /\ \A i \in 1 .. n + 1 : f[i] = Assembled(f[i - 1], u[i])
      /\ \A i \in 1 .. n : g[i] = Assembled(g[i - 1], s[i])
  BY <1>1, AssemblyIs
<1> HIDE DEF f, g, n
<1>3. \A i \in 1 .. n : i \in 1 .. n + 1
  BY <1>2
<1>4. StayAlike(n, f, g)
  BY <1>1, <1>2, <1>3 DEF StayAlike
<1>5. \A i \in 0 .. n : f[i] = g[i]
  BY <1>2, <1>4, Alike
<1>6. n + 1 \in 1 .. n + 1 /\ (n + 1) - 1 = n /\ n \in 0 .. n
  BY <1>2
<1>7. f[n + 1] = Assembled(f[(n + 1) - 1], u[n + 1])
  BY <1>2, <1>6
<1> QED
  BY <1>1, <1>2, <1>5, <1>6, <1>7 DEF u

-----------------------------------------------------------------------------
(* The lines filpinfo has to get right, as far as they have been read      *)

PlainChars == Digits \cup {"a", "sp", "'", "dq", "&", "|"}
IsWord(t) == t.kind = "word"
OpsFit(toks) ==
    \A n \in 1 .. Len(toks) :
        ~IsWord(toks[n]) => n > 1 /\ IsWord(toks[n - 1]) /\ toks[n - 1].text # <<>>
Short(toks) == \A n \in 1 .. Len(toks) : Len(toks[n].text) + 2 <= MaxEachArg
FewArgs(c) == \A n \in 1 .. Len(c) : Len(c[n].argv) < Slots
GoodToks(toks) == OpsFit(toks) /\ Short(toks) /\ FewArgs(Assembly(toks))
Good(b, n) == (\A i \in 1 .. n : b[i] \in PlainChars) /\ GoodToks(Lexed(b)[n].toks)

(* What a token adds to that *)
MayFollow(toks, t) ==
    /\ ~IsWord(t) => /\ toks # <<>> /\ IsWord(toks[Len(toks)])
                     /\ toks[Len(toks)].text # <<>>
    /\ Len(t.text) + 2 <= MaxEachArg
    /\ IsWord(t) => Len(Args(Assembly(toks))) + 1 < Slots

LEMMA FewArgsAre ==
    ASSUME NEW c \in CommandLists, NEW t \in Tokens
    PROVE  FewArgs(Assembled(c, t)) <=>
               FewArgs(c) /\ (IsWord(t) => Len(Args(c)) + 1 < Slots)
<1>1. /\ Len(c) \in Nat \ {0} /\ Len(c) \in 1 .. Len(c)
      /\ c[Len(c)] \in Command /\ c[Len(c)].type \in Types
      /\ Args(c) = c[Len(c)].argv /\ Args(c) \in Seq(Seq(Chars))
      /\ \A n \in 1 .. Len(c) : c[n].argv \in Seq(Seq(Chars))
  BY CommandListFacts
<1>2. t.text \in Seq(Chars)
  BY DEF Tokens
<1>3. Slots \in Nat /\ Slots >= 1
  BY SizeFacts
<1>4. \A n \in 1 .. Len(c) : Len(c[n].argv) \in Nat
  BY <1>1, LenProperties
<1>5. CASE IsWord(t)
  <2> DEFINE a == Append(Args(c), t.text)  e == [type |-> c[Len(c)].type, argv |-> a]
             d == Changed(c, e)
  <2>1. a \in Seq(Seq(Chars)) /\ Len(a) = Len(Args(c)) + 1
    BY <1>1, <1>2, AppendProperties
  <2> HIDE DEF a
  <2>2. e \in Command /\ e.argv = a
    BY <1>1, <2>1 DEF Command
  <2>3. Assembled(c, t) = d
    BY <1>5, AssembledIs DEF IsWord, a
  <2> HIDE DEF e
  <2>4. Len(d) = Len(c) /\ d[Len(c)] = e /\ \A n \in 1 .. Len(c) - 1 : d[n] = c[n]
    BY <2>2, WithLast
  <2> HIDE DEF d
  <2>5. FewArgs(d) <=> (\A n \in 1 .. Len(c) - 1 : Len(c[n].argv) < Slots)
                        /\ Len(Args(c)) + 1 < Slots
    <3>1. FewArgs(d) <=> \A n \in 1 .. Len(c) : Len(d[n].argv) < Slots
      BY <2>4 DEF FewArgs
    <3>2. Len(d[Len(c)].argv) = Len(Args(c)) + 1
      BY <2>1, <2>2, <2>4
    <3>3. \A n \in 1 .. Len(c) - 1 : Len(d[n].argv) = Len(c[n].argv)
      BY <2>4
    <3>4. /\ \A n \in 1 .. Len(c) : n \in 1 .. Len(c) - 1 \/ n = Len(c)
          /\ \A n \in 1 .. Len(c) - 1 : n \in 1 .. Len(c)
      BY <1>1
    <3> QED
      BY <1>1, <3>1, <3>2, <3>3, <3>4
  <2>6. FewArgs(c) <=> (\A n \in 1 .. Len(c) - 1 : Len(c[n].argv) < Slots)
                        /\ Len(Args(c)) < Slots
    BY <1>1 DEF FewArgs
  <2>7. Len(Args(c)) \in Nat
    BY <1>1, LenProperties
  <2> QED
    BY <1>3, <1>5, <2>3, <2>5, <2>6, <2>7
<1>6. CASE ~IsWord(t)
  <2> DEFINE e == [type |-> TypeOf(t.kind), argv |-> Args(c)]  d == Changed(c, e)
  <2>1. TypeOf(t.kind) \in Types /\ Assembled(c, t) = Append(d, Bare)
    BY <1>6, AssembledIs DEF IsWord
  <2>2. e \in Command /\ e.argv = Args(c)
    BY <1>1, <2>1 DEF Command
  <2> HIDE DEF e
  <2>3. /\ d \in CommandLists /\ Len(d) = Len(c) /\ d[Len(c)] = e
        /\ \A n \in 1 .. Len(c) - 1 : d[n] = c[n]
    BY <2>2, WithLast
  <2>4. Bare \in Command /\ Len(Bare.argv) = 0
    BY EmptySeq DEF Bare, Command, Types
  <2>5. d \in Seq(Command) /\ Bare \in Command
    BY <2>3, <2>4 DEF CommandLists
  <2> HIDE DEF d, Bare
  <2> DEFINE u == Append(d, Bare)
  <2>6. /\ Len(u) = Len(d) + 1 /\ u[Len(d) + 1] = Bare
        /\ \A n \in 1 .. Len(d) : u[n] = d[n]
    BY ONLY <2>5, AppendProperties
  <2> HIDE DEF u
  <2>7. \A n \in 1 .. Len(c) : u[n].argv = c[n].argv
    <3>1. ASSUME NEW n \in 1 .. Len(c) PROVE d[n].argv = c[n].argv
      <4>1. CASE n = Len(c)
        BY <1>1, <2>2, <2>3, <4>1
      <4>2. CASE n # Len(c)
        <5>1. n \in 1 .. Len(c) - 1
          BY <1>1, <4>2
        <5> QED
          BY <2>3, <5>1
      <4> QED
        BY <4>1, <4>2
    <3> QED
      BY <2>3, <2>6, <3>1
  <2>8. Len(u) = Len(c) + 1 /\ Len(u[Len(c) + 1].argv) = 0
    BY <2>3, <2>4, <2>6
  <2>9. FewArgs(u) <=> FewArgs(c)
    <3>1. FewArgs(u) <=> \A n \in 1 .. Len(c) + 1 : Len(u[n].argv) < Slots
      BY <2>8 DEF FewArgs
    <3>2. /\ \A n \in 1 .. Len(c) + 1 : n \in 1 .. Len(c) \/ n = Len(c) + 1
          /\ \A n \in 1 .. Len(c) : n \in 1 .. Len(c) + 1
      BY <1>1
    <3>3. Len(u[Len(c) + 1].argv) < Slots
      BY <1>3, <2>8
    <3>4. (\A n \in 1 .. Len(c) + 1 : Len(u[n].argv) < Slots)
              <=> \A n \in 1 .. Len(c) : Len(c[n].argv) < Slots
      BY <2>7, <3>2, <3>3
    <3> QED
      BY <3>1, <3>4 DEF FewArgs
  <2> QED
    BY <1>6, <2>1, <2>9 DEF u
<1> QED
  BY <1>5, <1>6

LEMMA GoodAppend ==
    ASSUME NEW s \in Seq(Tokens), NEW t \in Tokens
    PROVE  GoodToks(Append(s, t)) <=> GoodToks(s) /\ MayFollow(s, t)
<1> DEFINE u == Append(s, t)  n == Len(s)
<1>1. /\ u \in Seq(Tokens) /\ Len(u) = n + 1 /\ u[n + 1] = t
      /\ \A i \in 1 .. n : u[i] = s[i]
  BY AppendProperties
<1>2. n \in Nat /\ (s # <<>> <=> n # 0)
  BY EmptySeq
<1>3. FewArgs(Assembly(u)) <=>
          FewArgs(Assembly(s)) /\ (IsWord(t) => Len(Args(Assembly(s))) + 1 < Slots)
  <2>1. Assembly(s) \in CommandLists /\ Assembly(u) = Assembled(Assembly(s), t)
    BY AssemblyType, AssemblyAppend
  <2> QED
    BY <2>1, FewArgsAre
<1> HIDE DEF u
<1>4. Short(u) <=> Short(s) /\ Len(t.text) + 2 <= MaxEachArg
  BY <1>1, <1>2 DEF Short
<1> DEFINE P(q, i) == ~IsWord(q[i]) => i > 1 /\ IsWord(q[i - 1]) /\ q[i - 1].text # <<>>
<1>5. OpsFit(u) <=> OpsFit(s) /\ (~IsWord(t) => /\ s # <<>> /\ IsWord(s[n])
                                                 /\ s[n].text # <<>>)
  <2>1. \A i \in 1 .. n : P(u, i) <=> P(s, i)
    <3>1. \A i \in 1 .. n : i > 1 => i - 1 \in 1 .. n
      BY <1>2
    <3> QED
      BY <1>1, <3>1
  <2>2. P(u, n + 1) <=> (~IsWord(t) => /\ s # <<>> /\ IsWord(s[n]) /\ s[n].text # <<>>)
    <3>1. (n + 1) - 1 = n /\ (n + 1 > 1 <=> s # <<>>) /\ (s # <<>> => n \in 1 .. n)
      BY <1>2
    <3> QED
      BY <1>1, <3>1
  <2>3. (OpsFit(u) <=> \A i \in 1 .. n + 1 : P(u, i)) /\ (OpsFit(s) <=> \A i \in 1 .. n : P(s, i))
    BY <1>1 DEF OpsFit
  <2> HIDE DEF P
  <2>4. (\A i \in 1 .. n + 1 : P(u, i)) <=> (\A i \in 1 .. n : P(u, i)) /\ P(u, n + 1)
    BY <1>2
  <2> QED
    BY <2>1, <2>2, <2>3, <2>4
<1> QED
  BY <1>3, <1>4, <1>5 DEF GoodToks, MayFollow, u

LEMMA LexCharToks ==
    ASSUME NEW l \in Lexers, NEW x \in Chars
    PROVE  /\ l.quote = x \/ (l.quote = "none" /\ x = "sp") => LexChar(l, x).toks = l.toks
           /\ l.quote \notin {"none", x} => LexChar(l, x).toks = GrownToks(l, <<x>>)
           /\ l.quote = "none" /\ x \in {"'", "dq"} =>
                LexChar(l, x).toks = GrownToks(l, <<>>)
           /\ l.quote = "none" /\ x \in {"&", "|"} => LexChar(l, x).toks = OpToks(l, x)
           /\ l.quote = "none" /\ x \notin {"'", "dq", "sp", "&", "|"} =>
                LexChar(l, x).toks = GrownToks(l, <<x>>)
<1> DEFINE t == GrownToks(l, <<>>)  u == GrownToks(l, <<x>>)  o == OpToks(l, x)
           y == LexChar(l, x)
<1>1. Grown(l, <<x>>) = [quote |-> l.quote, glue |-> "word", toks |-> u]
  <2>1. <<x>> \in Seq(Chars)
    OBVIOUS
  <2> QED
    BY <2>1, GrownIs
<1>2. /\ l.quote = x => y = [quote |-> "none", glue |-> l.glue, toks |-> l.toks]
      /\ l.quote = "none" /\ x = "sp" => y = [quote |-> "none", glue |-> "", toks |-> l.toks]
  BY LexCharIs
<1>3. /\ l.quote \notin {"none", x} => y = Grown(l, <<x>>)
      /\ l.quote = "none" /\ x \notin {"'", "dq", "sp", "&", "|"} => y = Grown(l, <<x>>)
  BY LexCharIs
<1>4. l.quote = "none" /\ x \in {"'", "dq"} => y = [quote |-> x, glue |-> "word", toks |-> t]
  BY LexCharIs
<1>5. l.quote = "none" /\ x \in {"&", "|"} =>
         y = [quote |-> "none", glue |-> IF l.glue = x THEN "" ELSE x, toks |-> o]
  BY LexCharIs
<1> HIDE DEF t, u, o, y
<1>6. Grown(l, <<x>>).toks = u
  BY <1>1
<1>7. l.quote = x \/ (l.quote = "none" /\ x = "sp") => y.toks = l.toks
  <2>1. ASSUME l.quote = x PROVE y.toks = l.toks
    <3>1. y = [quote |-> "none", glue |-> l.glue, toks |-> l.toks]
      BY <1>2, <2>1
    <3> QED
      BY ONLY <3>1
  <2>2. ASSUME l.quote = "none", x = "sp" PROVE y.toks = l.toks
    <3>1. y = [quote |-> "none", glue |-> "", toks |-> l.toks]
      BY <1>2, <2>2
    <3> QED
      BY <3>1
  <2> QED
    BY <2>1, <2>2
<1>8. l.quote = "none" /\ x \in {"'", "dq"} => y.toks = t
  BY <1>4
<1>9. l.quote = "none" /\ x \in {"&", "|"} => y.toks = o
  <2> SUFFICES ASSUME l.quote = "none", x \in {"&", "|"} PROVE y.toks = o
    OBVIOUS
  <2> DEFINE g == IF l.glue = x THEN "" ELSE x
  <2>1. y = [quote |-> "none", glue |-> g, toks |-> o]
    BY <1>5
  <2> HIDE DEF g
  <2> QED
    BY <2>1
<1> QED
  BY <1>3, <1>6, <1>7, <1>8, <1>9 DEF t, u, o, y

(* A line that is all right is so from the start.                          *)
LEMMA GoodBefore ==
    ASSUME NEW l \in Lexers, NEW x \in Chars, GoodToks(LexChar(l, x).toks)
    PROVE  GoodToks(l.toks)
<1> DEFINE T == l.toks  F == Front(l.toks)
<1>1. /\ T \in Seq(Tokens) /\ l.quote \in {"none", "'", "dq"}
      /\ l.glue # "" => T # <<>> /\ T[Len(T)].kind = l.glue
  BY LexerFacts
<1>2. LexChar(l, x).toks = T \/ (\E t \in Tokens : LexChar(l, x).toks = Append(T, t))
      \/ \E t \in Tokens : /\ T # <<>> /\ LexChar(l, x).toks = Append(F, t)
                           /\ IsWord(t) = IsWord(T[Len(T)])
                           /\ Len(T[Len(T)].text) <= Len(t.text)
  <2>1. ASSUME NEW s \in Seq(Chars), LexChar(l, x).toks = GrownToks(l, s)
        PROVE  <1>2!:
    <3>1. CASE l.glue = "word"
      <4> DEFINE w == T[Len(T)].text  t == Tok("word", w \o s)
      <4>1. T # <<>> /\ T[Len(T)].kind = "word"
        BY <1>1, <3>1
      <4>2. T[Len(T)] \in Tokens
        BY <1>1, <4>1, FrontFacts
      <4>3. w \in Seq(Chars)
        BY <4>2 DEF Tokens
      <4>4. w \o s \in Seq(Chars) /\ Len(w \o s) = Len(w) + Len(s) /\ Len(w) \in Nat /\ Len(s) \in Nat
        BY <4>3, ConcatProperties, LenProperties
      <4>5. t \in Tokens /\ t.kind = "word" /\ t.text = w \o s
        BY <4>4 DEF Tokens, Tok, Kinds
      <4>6. LexChar(l, x).toks = Append(F, t)
        BY <2>1, <3>1 DEF GrownToks
      <4>7. IsWord(t) = IsWord(T[Len(T)]) /\ Len(T[Len(T)].text) <= Len(t.text)
        BY <4>1, <4>4, <4>5 DEF IsWord
      <4> HIDE DEF t, T, F
      <4> QED
        BY <4>1, <4>5, <4>6, <4>7
    <3>2. CASE l.glue # "word"
      <4>1. Tok("word", s) \in Tokens
        BY DEF Tokens, Tok, Kinds
      <4>2. LexChar(l, x).toks = Append(T, Tok("word", s))
        BY <2>1, <3>2 DEF GrownToks
      <4> QED
        BY <4>1, <4>2
    <3> QED
      BY <3>1, <3>2
  <2>2. <<x>> \in Seq(Chars) /\ <<>> \in Seq(Chars)
    BY EmptySeq
  <2>3. ASSUME LexChar(l, x).toks = GrownToks(l, <<x>>) PROVE <1>2!:
    BY <2>1, <2>2, <2>3
  <2>4. CASE l.quote = "none" /\ x \in {"'", "dq"}
    <3>1. LexChar(l, x).toks = GrownToks(l, <<>>)
      BY <2>4, LexCharToks
    <3> QED
      BY <2>1, <2>2, <3>1
  <2>5. CASE l.quote = "none" /\ x \in {"&", "|"}
    <3>1. LexChar(l, x).toks = OpToks(l, x)
      BY <2>5, LexCharToks
    <3>2. CASE l.glue = x
      <4> DEFINE t == Tok(Doubled(x), <<>>)
      <4>1. T # <<>> /\ T[Len(T)].kind # "word"
        BY <1>1, <2>5, <3>2
      <4>2. T[Len(T)] \in Tokens
        BY <1>1, <4>1, FrontFacts
      <4>3. T[Len(T)].text = <<>>
        BY <4>1, <4>2 DEF Tokens
      <4>4. t \in Tokens /\ t.kind # "word" /\ t.text = <<>>
        BY <2>2, <2>5 DEF Tokens, Tok, Kinds, Doubled
      <4>5. LexChar(l, x).toks = Append(F, t)
        BY <3>1, <3>2 DEF OpToks
      <4>6. IsWord(t) = IsWord(T[Len(T)]) /\ Len(T[Len(T)].text) <= Len(t.text)
        BY <4>1, <4>3, <4>4, EmptySeq DEF IsWord
      <4> HIDE DEF t, T, F
      <4> QED
        BY <4>1, <4>4, <4>5, <4>6
    <3>3. CASE l.glue # x
      <4>1. Tok(x, <<>>) \in Tokens
        BY <2>2, <2>5 DEF Tokens, Tok, Kinds
      <4>2. LexChar(l, x).toks = Append(T, Tok(x, <<>>))
        BY <3>1, <3>3 DEF OpToks
      <4> QED
        BY <4>1, <4>2
    <3> QED
      BY <3>2, <3>3
  <2>6. CASE l.quote = x \/ (l.quote = "none" /\ x = "sp")
    <3>1. LexChar(l, x).toks = T
      BY <2>6, LexCharToks
    <3> QED
      BY <3>1
  <2>7. CASE l.quote \notin {"none", x} \/ (l.quote = "none" /\ x \notin {"'", "dq", "sp", "&", "|"})
    BY <2>3, <2>7, LexCharToks
  <2> QED
    BY <2>4, <2>5, <2>6, <2>7
<1> HIDE DEF T
<1>3. CASE LexChar(l, x).toks = T
  BY <1>3 DEF T
<1>4. ASSUME NEW t \in Tokens, LexChar(l, x).toks = Append(T, t) PROVE GoodToks(T)
  <2>1. GoodToks(Append(T, t))
    BY <1>4
  <2> QED
    BY <1>1, <2>1, GoodAppend
<1>5. ASSUME NEW t \in Tokens, T # <<>>, LexChar(l, x).toks = Append(F, t),
             IsWord(t) = IsWord(T[Len(T)]), Len(T[Len(T)].text) <= Len(t.text)
      PROVE  GoodToks(T)
  <2>1. Front(T) \in Seq(Tokens) /\ T[Len(T)] \in Tokens
    BY <1>1, <1>5, FrontFacts
  <2>2. F \in Seq(Tokens) /\ F = Front(T)
    BY <2>1 DEF T
  <2> HIDE DEF F
  <2>3. T = Append(F, T[Len(T)])
    BY <1>1, <1>5, <2>2, FrontAndLast
  <2>4. GoodToks(Append(F, t))
    BY <1>5
  <2>5. GoodToks(F) /\ MayFollow(F, t)
    BY <2>2, <2>4, GoodAppend
  <2> DEFINE e == T[Len(T)]
  <2>6. e \in Tokens /\ IsWord(t) = IsWord(e) /\ Len(e.text) <= Len(t.text)
    BY <1>5, <2>1
  <2> HIDE DEF e
  <2>7. Len(e.text) \in Nat /\ Len(t.text) \in Nat /\ MaxEachArg \in Nat
    <3>1. e.text \in Seq(Chars) /\ t.text \in Seq(Chars)
      BY <2>6 DEF Tokens
    <3> QED
      BY <3>1, LenProperties, SizeFacts
  <2>8. MayFollow(F, e)
    BY <2>5, <2>6, <2>7 DEF MayFollow
  <2>9. GoodToks(Append(F, e))
    BY <2>2, <2>5, <2>6, <2>8, GoodAppend
  <2> QED
    BY <2>3, <2>9 DEF e
<1> QED
  BY <1>2, <1>3, <1>4, <1>5 DEF T

LEMMA GoodGoesBack ==
    ASSUME NEW b \in Seq(Chars), NEW n \in 0 .. Len(b), NEW m \in 0 .. n, Good(b, n)
    PROVE  Good(b, m)
<1>1. /\ Len(b) \in Nat /\ \A i \in 1 .. Len(b) : b[i] \in Chars
      /\ \A i \in 1 .. Len(b) : Lexed(b)[i] = LexChar(Lexed(b)[i - 1], b[i])
      /\ \A i \in 0 .. Len(b) : Lexed(b)[i] \in Lexers
  BY LexedIs, ElementOfSeq
<1>2. n \in Nat /\ m \in Nat /\ m <= n /\ n <= Len(b)
  BY <1>1
<1> DEFINE G(i) == GoodToks(Lexed(b)[i].toks)
           T == {k \in Nat : k <= n => G(n - k)}
<1>3. 0 \in T
  BY <1>2 DEF Good
<1>4. ASSUME NEW k \in Nat, k \in T PROVE k + 1 \in T
  <2> SUFFICES ASSUME k + 1 <= n PROVE G(n - (k + 1))
    OBVIOUS
  <2> DEFINE i == n - k
  <2>1. i \in 1 .. Len(b) /\ i - 1 = n - (k + 1) /\ i - 1 \in 0 .. Len(b) /\ k <= n
    BY <1>2
  <2>2. G(i)
    BY <1>4, <2>1
  <2> HIDE DEF i
  <2>3. Lexed(b)[i] = LexChar(Lexed(b)[i - 1], b[i]) /\ Lexed(b)[i - 1] \in Lexers
        /\ b[i] \in Chars
    BY <1>1, <2>1
  <2>4. GoodToks(LexChar(Lexed(b)[i - 1], b[i]).toks)
    BY <2>2, <2>3
  <2>5. G(i - 1)
    BY <2>3, <2>4, GoodBefore
  <2> QED
    BY <2>1, <2>5
<1>5. \A k \in Nat : k \in T
  <2> HIDE DEF T
  <2> QED
    BY <1>3, <1>4, Induction
<1>6. n - m \in Nat /\ n - m <= n /\ n - (n - m) = m
  BY <1>2
<1>7. G(m)
  BY <1>5, <1>6
<1>8. \A i \in 1 .. m : i \in 1 .. n
  BY <1>2
<1> QED
  BY <1>7, <1>8 DEF Good

LEMMA GoodInLonger ==
    ASSUME NEW b \in Seq(Chars), NEW d \in Seq(Chars), Longer(b, d), NEW n \in 0 .. Len(b)
    PROVE  /\ Lexed(d)[n] = Lexed(b)[n]
           /\ Good(d, n) <=> Good(b, n)
<1>1. Lexed(d)[n] = Lexed(b)[n]
  BY LexedInLonger
<1>2. \A i \in 1 .. n : i \in 1 .. Len(b)
  BY LenProperties
<1>3. \A i \in 1 .. n : d[i] = b[i]
  BY <1>2 DEF Longer
<1> QED
  BY <1>1, <1>3 DEF Good

LEMMA PlainIsGood ==
    ASSUME NEW b \in Seq(Chars), Plain(b)
    PROVE  /\ Good(b, Len(b))
           /\ \A i \in 1 .. Len(b) : b[i] \in PlainChars
           /\ Lexed(b)[Len(b)].quote = "none" /\ Lexed(b)[Len(b)].toks # <<>>
           /\ LET t == Lexed(b)[Len(b)].toks
              IN  ~IsWord(t[Len(t)]) => t[Len(t)].kind = "&"
           /\ \A n \in 1 .. Len(b) : Lexed(b)[n].glue = "|" => ~AtEnd(b, n + 1)
<1> DEFINE toks == Lexed(b)[Len(b)].toks  c == Assembly(toks)
<1>1. Len(b) \in Nat /\ DOMAIN b = 1 .. Len(b) /\ Lexed(b)[Len(b)] \in Lexers
  <2>1. Len(b) \in 0 .. Len(b)
    BY LenProperties
  <2> QED
    BY <2>1, LenProperties, LexedIs
<1>2. toks \in Seq(Tokens) /\ DOMAIN toks = 1 .. Len(toks)
  BY <1>1, LexerFacts, LenProperties
<1>3. toks # <<>> /\ Lexed(b)[Len(b)].quote = "none" /\ Lex(b) = Lexed(b)[Len(b)]
  BY DEF Plain, Lex
<1>4. \A i \in 1 .. Len(b) : b[i] \in PlainChars
  <2>1. Range(b) \subseteq PlainChars
    BY DEF Plain, PlainChars
  <2> QED
    BY <1>1, <2>1 DEF Range
<1>5. \A n \in 1 .. Len(b) : Lexed(b)[n].glue = "|" => ~AtEnd(b, n + 1)
  BY <1>1 DEF Plain
<1>6. c \in CommandLists
  BY <1>2, AssemblyType
<1>7. \A n \in 1 .. Len(toks) :
         /\ ~IsWord(toks[n]) => n > 1 /\ IsWord(toks[n - 1]) /\ toks[n - 1].text # <<>>
         /\ ~IsWord(toks[n]) /\ n = Len(toks) => toks[n].kind = "&"
         /\ Len(toks[n].text) + 2 <= MaxEachArg
  BY <1>2, <1>3 DEF Plain, IsWord
<1>8. \A n \in DOMAIN Meaning(b) : Len(Meaning(b)[n].argv) < Slots
  BY DEF Plain
<1>9. Meaning(b) = IF Last(c).argv = <<>> THEN Front(c) ELSE c
  BY <1>3 DEF Meaning
<1> HIDE DEF c, toks
<1>10. FewArgs(c)
  <2>1. /\ Len(c) \in Nat \ {0} /\ c \in Seq(Command) /\ c # <<>> /\ Last(c) = c[Len(c)]
    BY <1>6, CommandListFacts DEF CommandLists, Last
  <2>2. CASE Last(c).argv = <<>>
    <3>1. /\ Front(c) \in Seq(Command) /\ Len(Front(c)) = Len(c) - 1
          /\ \A m \in 1 .. Len(c) - 1 : Front(c)[m] = c[m]
      BY <2>1, FrontFacts
    <3>2. DOMAIN Front(c) = 1 .. Len(c) - 1
      BY <3>1, LenProperties
    <3>3. \A m \in 1 .. Len(c) - 1 : Len(c[m].argv) < Slots
      BY <1>8, <1>9, <2>2, <3>1, <3>2
    <3>4. Len(c[Len(c)].argv) < Slots
      BY <2>1, <2>2, EmptySeq, SizeFacts
    <3>5. \A m \in 1 .. Len(c) : m \in 1 .. Len(c) - 1 \/ m = Len(c)
      BY <2>1
    <3> QED
      BY <3>3, <3>4, <3>5 DEF FewArgs
  <2>3. CASE Last(c).argv # <<>>
    <3>1. DOMAIN c = 1 .. Len(c)
      BY <2>1, LenProperties
    <3> QED
      BY <1>8, <1>9, <2>3, <3>1 DEF FewArgs
  <2> QED
    BY <2>2, <2>3
<1>11. OpsFit(toks) /\ Short(toks)
  BY <1>7 DEF OpsFit, Short
<1>12. Good(b, Len(b))
  BY <1>4, <1>10, <1>11 DEF Good, GoodToks, c, toks
<1>13. ~IsWord(toks[Len(toks)]) => toks[Len(toks)].kind = "&"
  <2>1. Len(toks) \in 1 .. Len(toks)
    BY <1>2, <1>3, EmptySeq
  <2> QED
    BY <1>7, <2>1
<1> QED
  BY <1>3, <1>4, <1>5, <1>12, <1>13 DEF toks

(* Blanks outside quotes change no token.                                  *)
LEMMA BlanksSkipped ==
    ASSUME NEW b \in Seq(Chars), NEW n \in 0 .. Len(b), NEW m \in n .. Len(b),
           Lexed(b)[n].quote = "none", \A i \in n + 1 .. m : b[i] = "sp"
    PROVE  /\ Lexed(b)[m].toks = Lexed(b)[n].toks /\ Lexed(b)[m].quote = "none"
           /\ Lexed(b)[m].glue = IF m = n THEN Lexed(b)[n].glue ELSE ""
<1>1. /\ Len(b) \in Nat
      /\ \A i \in 1 .. Len(b) : b[i] \in Chars
      /\ \A i \in 1 .. Len(b) : Lexed(b)[i] = LexChar(Lexed(b)[i - 1], b[i])
      /\ \A i \in 0 .. Len(b) : Lexed(b)[i] \in Lexers
  BY LexedIs, ElementOfSeq
<1>2. n \in Nat /\ m \in Nat /\ n <= m /\ m <= Len(b)
  BY <1>1
<1> DEFINE l == Lexed(b)[n]
           P(k) == /\ Lexed(b)[n + k].toks = l.toks /\ Lexed(b)[n + k].quote = "none"
                   /\ Lexed(b)[n + k].glue = IF k = 0 THEN l.glue ELSE ""
           T == {k \in Nat : n + k <= m => P(k)}
<1>3. 0 \in T
  BY <1>2
<1>4. ASSUME NEW k \in Nat, k \in T PROVE k + 1 \in T
  <2> SUFFICES ASSUME n + (k + 1) <= m PROVE P(k + 1)
    <3> HIDE DEF P
    <3> QED
      OBVIOUS
  <2> DEFINE i == n + (k + 1)  y == Lexed(b)[n + k]
  <2>1. i \in 1 .. Len(b) /\ i - 1 = n + k /\ n + k \in 0 .. Len(b) /\ n + k <= m
        /\ i \in n + 1 .. m /\ k + 1 # 0
    BY <1>2
  <2>2. P(k)
    BY <1>4, <2>1
  <2>3. Lexed(b)[i] = LexChar(y, b[i]) /\ b[i] = "sp" /\ y \in Lexers /\ b[i] \in Chars
    BY <1>1, <2>1
  <2>4. y.quote = "none" /\ y.toks = l.toks
    BY <2>2
  <2> HIDE DEF y, i, l
  <2>5. LexChar(y, b[i]) = [quote |-> "none", glue |-> "", toks |-> y.toks]
    BY <2>3, <2>4, LexCharIs
  <2>6. Lexed(b)[i].toks = y.toks /\ Lexed(b)[i].quote = "none" /\ Lexed(b)[i].glue = ""
    <3> DEFINE z == Lexed(b)[i]
    <3>1. z = [quote |-> "none", glue |-> "", toks |-> y.toks]
      BY <2>3, <2>5
    <3> HIDE DEF z
    <3>2. z.toks = y.toks /\ z.quote = "none" /\ z.glue = ""
      BY ONLY <3>1
    <3> QED
      BY <3>2 DEF z
  <2> QED
    BY <2>1, <2>4, <2>6 DEF i
<1>5. \A k \in Nat : k \in T
  <2> HIDE DEF T
  <2> QED
    BY <1>3, <1>4, Induction
<1>6. m - n \in Nat /\ n + (m - n) = m /\ (m - n = 0 <=> m = n)
  BY <1>2
<1>7. P(m - n)
  <2> HIDE DEF P
  <2> QED
    BY <1>2, <1>5, <1>6
<1> QED
  BY <1>6, <1>7

-----------------------------------------------------------------------------
(* The list filpinfo has so far, and the commands of the tokens so far     *)

(* An argument of the list is a text, or that and up to k NULs; arguments  *)
(* and commands are alike if all of them are.                              *)
Holds(a, t, k) ==
    /\ Len(t) <= Len(a) /\ Len(a) <= Len(t) + k
    /\ \A i \in 1 .. Len(t) : a[i] = t[i]
    /\ Len(t) < Len(a) => a[Len(t) + 1] = Nul
AgreeArgs(a, d, k) == Len(a) = Len(d) /\ \A m \in 1 .. Len(a) : Holds(a[m], d[m], k)
AgreeCommand(e, f, k) == e.type = f.type /\ AgreeArgs(e.argv, f.argv, k)
Agree(c, d, k) == Len(c) = Len(d) /\ \A n \in 1 .. Len(c) : AgreeCommand(c[n], d[n], k)

LEMMA ChangedIs ==
    ASSUME NEW S, NEW c \in Seq(S), c # <<>>, NEW e \in S
    PROVE  /\ Changed(c, e) \in Seq(S) /\ Changed(c, e) # <<>>
           /\ Len(Changed(c, e)) = Len(c) /\ Changed(c, e)[Len(c)] = e
           /\ \A n \in 1 .. Len(c) - 1 : Changed(c, e)[n] = c[n]
<1> DEFINE d == Changed(c, e)
<1>1. Len(c) \in Nat \ {0} /\ Len(c) \in 1 .. Len(c)
  BY EmptySeq
<1>2. d = [c EXCEPT ![Len(c)] = e]
  BY DEF Changed
<1> HIDE DEF d
<1>3. /\ d \in Seq(S) /\ Len(d) = Len(c)
      /\ \A n \in 1 .. Len(c) : d[n] = IF n = Len(c) THEN e ELSE c[n]
  BY <1>1, <1>2, ExceptSeq
<1>4. d # <<>>
  BY <1>1, <1>3, EmptySeq
<1>5. d[Len(c)] = e /\ \A n \in 1 .. Len(c) - 1 : d[n] = c[n]
  <2>1. \A n \in 1 .. Len(c) - 1 : n \in 1 .. Len(c) /\ n # Len(c)
    BY <1>1
  <2> QED
    BY <1>1, <1>3, <2>1
<1> QED
  BY <1>3, <1>4, <1>5 DEF d

LEMMA AgreeChanged ==
    ASSUME NEW S, NEW R, NEW c \in Seq(S), NEW d \in Seq(R), c # <<>>, d # <<>>,
           NEW e \in S, NEW f \in R, NEW j,
           Len(c) = Len(d),
           \A n \in 1 .. Len(c) - 1 : AgreeCommand(c[n], d[n], j),
           AgreeCommand(e, f, j)
    PROVE  Agree(Changed(c, e), Changed(d, f), j)
<1> DEFINE x == Changed(c, e)  y == Changed(d, f)
<1>1. /\ Len(x) = Len(c) /\ x[Len(c)] = e
      /\ \A n \in 1 .. Len(c) - 1 : x[n] = c[n]
  <2>1. c \in Seq(S) /\ c # <<>> /\ e \in S
    OBVIOUS
  <2> QED
    BY ONLY <2>1, ChangedIs
<1>2. /\ Len(y) = Len(c) /\ y[Len(c)] = f
      /\ \A n \in 1 .. Len(c) - 1 : y[n] = d[n]
  <2>1. d \in Seq(R) /\ d # <<>> /\ f \in R
    OBVIOUS
  <2>2. /\ Len(y) = Len(d) /\ y[Len(d)] = f
        /\ \A n \in 1 .. Len(d) - 1 : y[n] = d[n]
    BY ONLY <2>1, ChangedIs
  <2> QED
    BY <2>2
<1>3. \A n \in 1 .. Len(c) : n \in 1 .. Len(c) - 1 \/ n = Len(c)
  BY LenProperties
<1> HIDE DEF x, y
<1>4. \A n \in 1 .. Len(x) : AgreeCommand(x[n], y[n], j)
  BY <1>1, <1>2, <1>3
<1> QED
  BY <1>1, <1>2, <1>4 DEF Agree, x, y

LEMMA AgreeAppend ==
    ASSUME NEW S, NEW R, NEW c \in Seq(S), NEW d \in Seq(R),
           NEW e \in S, NEW f \in R, NEW j, Agree(c, d, j), AgreeCommand(e, f, j)
    PROVE  Agree(Append(c, e), Append(d, f), j)
<1> DEFINE x == Append(c, e)  y == Append(d, f)
<1>1. /\ Len(x) = Len(c) + 1 /\ x[Len(c) + 1] = e
      /\ \A n \in 1 .. Len(c) : x[n] = c[n]
  BY AppendProperties
<1>2. /\ Len(y) = Len(d) + 1 /\ y[Len(d) + 1] = f
      /\ \A n \in 1 .. Len(d) : y[n] = d[n]
  BY AppendProperties
<1>3. Len(c) = Len(d) /\ \A n \in 1 .. Len(c) : AgreeCommand(c[n], d[n], j)
  BY DEF Agree
<1>4. \A n \in 1 .. Len(c) + 1 : n \in 1 .. Len(c) \/ n = Len(c) + 1
  BY LenProperties
<1> HIDE DEF x, y
<1>5. \A n \in 1 .. Len(x) : AgreeCommand(x[n], y[n], j)
  BY <1>1, <1>2, <1>3, <1>4
<1> QED
  BY <1>1, <1>2, <1>3, <1>5 DEF Agree, x, y

(* The same of two argument vectors: another argument, and the last one    *)
(* replaced or taken back                                                  *)
LEMMA ArgsAppend ==
    ASSUME NEW S, NEW R, NEW a \in Seq(S), NEW d \in Seq(R),
           NEW e \in S, NEW f \in R, NEW j, AgreeArgs(a, d, j), Holds(e, f, j)
    PROVE  AgreeArgs(Append(a, e), Append(d, f), j)
<1> DEFINE x == Append(a, e)  y == Append(d, f)
<1>1. /\ Len(x) = Len(a) + 1 /\ x[Len(a) + 1] = e
      /\ \A n \in 1 .. Len(a) : x[n] = a[n]
  BY AppendProperties
<1>2. /\ Len(y) = Len(d) + 1 /\ y[Len(d) + 1] = f
      /\ \A n \in 1 .. Len(d) : y[n] = d[n]
  BY AppendProperties
<1>3. Len(a) = Len(d) /\ \A n \in 1 .. Len(a) : Holds(a[n], d[n], j)
  BY DEF AgreeArgs
<1>4. \A n \in 1 .. Len(a) + 1 : n \in 1 .. Len(a) \/ n = Len(a) + 1
  BY LenProperties
<1> HIDE DEF x, y
<1>5. \A n \in 1 .. Len(x) : Holds(x[n], y[n], j)
  BY <1>1, <1>2, <1>3, <1>4
<1> QED
  BY <1>1, <1>2, <1>3, <1>5 DEF AgreeArgs, x, y

LEMMA ArgsReplaced ==
    ASSUME NEW R, NEW a, NEW b, NEW p \in Seq(R), NEW u \in R, NEW v \in R, NEW j,
           AgreeArgs(a, Append(p, u), j),
           Len(b) = Len(a), \A m \in 1 .. Len(a) - 1 : b[m] = a[m],
           Holds(b[Len(a)], v, j)
    PROVE  AgreeArgs(b, Append(p, v), j)
<1> DEFINE x == Append(p, u)  y == Append(p, v)
<1>1. /\ Len(x) = Len(p) + 1 /\ \A n \in 1 .. Len(p) : x[n] = p[n]
  BY AppendProperties
<1>2. /\ Len(y) = Len(p) + 1 /\ y[Len(p) + 1] = v
      /\ \A n \in 1 .. Len(p) : y[n] = p[n]
  BY AppendProperties
<1>3. Len(a) = Len(x) /\ \A n \in 1 .. Len(a) : Holds(a[n], x[n], j)
  BY DEF AgreeArgs
<1>4. /\ \A n \in 1 .. Len(p) + 1 : n \in 1 .. Len(p) \/ n = Len(p) + 1
      /\ \A n \in 1 .. Len(p) : n \in 1 .. Len(p) + 1 /\ n \in 1 .. (Len(p) + 1) - 1
  BY LenProperties
<1> HIDE DEF x, y
<1>5. \A n \in 1 .. Len(p) : Holds(b[n], y[n], j)
  BY <1>1, <1>2, <1>3, <1>4
<1>6. \A n \in 1 .. Len(b) : Holds(b[n], y[n], j)
  BY <1>1, <1>2, <1>3, <1>4, <1>5
<1> QED
  BY <1>1, <1>2, <1>3, <1>6 DEF AgreeArgs, y

LEMMA HoldsMore ==
    ASSUME NEW j \in Nat, NEW k \in Nat, k <= j, NEW S, NEW R,
           NEW a \in Seq(S), NEW t \in Seq(R), Holds(a, t, k)
    PROVE  Holds(a, t, j)
<1>1. Len(a) \in Nat /\ Len(t) \in Nat
  BY LenProperties
<1>2. Len(a) <= Len(t) + j
  BY <1>1 DEF Holds
<1> QED
  BY <1>2 DEF Holds

LEMMA ArgsFront ==
    ASSUME NEW S, NEW R, NEW a \in Seq(S), a # <<>>, NEW p \in Seq(R), NEW u \in R, NEW j,
           AgreeArgs(a, Append(p, u), j)
    PROVE  AgreeArgs(Front(a), p, j)
<1> DEFINE x == Append(p, u)  f == Front(a)
<1>1. /\ Len(x) = Len(p) + 1 /\ \A n \in 1 .. Len(p) : x[n] = p[n]
  BY AppendProperties
<1>2. Len(a) = Len(x) /\ \A n \in 1 .. Len(a) : Holds(a[n], x[n], j)
  BY DEF AgreeArgs
<1>3. Len(f) = Len(a) - 1 /\ \A m \in 1 .. Len(a) - 1 : f[m] = a[m]
  <2>1. a \in Seq(S) /\ a # <<>>
    OBVIOUS
  <2> QED
    BY ONLY <2>1, FrontFacts
<1>4. Len(p) \in Nat
  BY LenProperties
<1> HIDE DEF x, f
<1>5. Len(a) - 1 = Len(p) /\ \A n \in 1 .. Len(p) : n \in 1 .. Len(a) /\ n \in 1 .. Len(a) - 1
  BY <1>1, <1>2, <1>4
<1>6. \A n \in 1 .. Len(f) : Holds(f[n], p[n], j)
  BY <1>1, <1>2, <1>3, <1>5
<1> QED
  BY <1>3, <1>5, <1>6 DEF AgreeArgs, f

LEMMA ListIs ==
    ASSUME NEW c, ListOK(c)
    PROVE  /\ c \in Seq([type : Types, argv : Seq(Strings)]) /\ c # <<>>
           /\ Len(c) \in Nat \ {0} /\ Len(c) \in 1 .. Len(c)
           /\ \A n \in 1 .. Len(c) : /\ c[n] \in [type : Types, argv : Seq(Strings)]
                                     /\ c[n].argv \in Seq(Strings)
                                     /\ \A m \in 1 .. Len(c[n].argv) :
                                            c[n].argv[m] \in Strings
           /\ Args(c) = c[Len(c)].argv /\ Args(c) \in Seq(Strings)
<1>1. /\ Len(c) \in Nat \ {0} /\ Len(c) \in 1 .. Len(c)
      /\ c \in Seq([type : Types, argv : Seq(Strings)])
      /\ \A n \in 1 .. Len(c) : c[n] \in [type : Types, argv : Seq(Strings)]
      /\ Args(c) = c[Len(c)].argv
  BY ListFacts
<1>2. \A n \in 1 .. Len(c) : c[n].argv \in Seq(Strings)
  BY <1>1
<1>3. \A n \in 1 .. Len(c) : \A m \in 1 .. Len(c[n].argv) : c[n].argv[m] \in Strings
  BY <1>2, ElementOfSeq
<1> QED
  BY <1>1, <1>2, <1>3 DEF ListOK

LEMMA AgreeMore ==
    ASSUME NEW c, ListOK(c), NEW d \in CommandLists, NEW k \in Nat, NEW j \in Nat, k <= j,
           Agree(c, d, k)
    PROVE  Agree(c, d, j)
<1>1. ASSUME NEW n \in 1 .. Len(c) PROVE AgreeCommand(c[n], d[n], j)
  <2> DEFINE a == c[n].argv  b == d[n].argv
  <2>1. Len(c) = Len(d) /\ c[n].type = d[n].type /\ AgreeArgs(a, b, k)
    BY <1>1 DEF Agree, AgreeCommand
  <2>2. a \in Seq(Strings) /\ b \in Seq(Seq(Chars))
    BY <1>1, <2>1, ListIs, CommandListFacts
  <2> HIDE DEF a, b
  <2>3. ASSUME NEW m \in 1 .. Len(a) PROVE Holds(a[m], b[m], j)
    <3>1. a[m] \in Strings /\ b[m] \in Seq(Chars) /\ Holds(a[m], b[m], k)
      BY <2>1, <2>2, <2>3, ElementOfSeq DEF AgreeArgs
    <3>2. a[m] \in Seq(Chars \cup {Nul}) /\ k \in Nat /\ j \in Nat /\ k <= j
      BY <3>1 DEF Strings
    <3> QED
      BY ONLY <3>1, <3>2, HoldsMore
  <2>4. AgreeArgs(a, b, j)
    BY <2>1, <2>3 DEF AgreeArgs
  <2> QED
    BY <2>1, <2>4 DEF AgreeCommand, a, b
<1> QED
  BY <1>1 DEF Agree

(* The list with another argument u *)
With(c, u) == Changed(c, [type |-> c[Len(c)].type, argv |-> Append(Args(c), u)])

LEMMA WithIs ==
    ASSUME NEW c \in CommandLists, NEW u \in Seq(Chars)
    PROVE  /\ With(c, u) \in CommandLists /\ Len(With(c, u)) = Len(c)
           /\ With(c, u)[Len(c)].type = c[Len(c)].type
           /\ Args(With(c, u)) = Append(Args(c), u)
           /\ \A n \in 1 .. Len(c) - 1 : With(c, u)[n] = c[n]
           /\ Args(c) \in Seq(Seq(Chars))
<1> DEFINE a == Append(Args(c), u)  e == [type |-> c[Len(c)].type, argv |-> a]
<1>1. c[Len(c)].type \in Types /\ Args(c) \in Seq(Seq(Chars))
  BY CommandListFacts
<1>2. a \in Seq(Seq(Chars))
  BY <1>1, AppendProperties
<1> HIDE DEF a
<1>3. e \in Command /\ e.argv = a /\ e.type = c[Len(c)].type
  BY <1>1, <1>2 DEF Command
<1>4. With(c, u) = Changed(c, e)
  BY DEF With, a
<1> HIDE DEF e
<1>5. /\ Changed(c, e) \in CommandLists /\ Len(Changed(c, e)) = Len(c)
      /\ Changed(c, e)[Len(c)] = e /\ Args(Changed(c, e)) = e.argv
      /\ \A n \in 1 .. Len(c) - 1 : Changed(c, e)[n] = c[n]
  BY <1>3, WithLast
<1> QED
  BY <1>1, <1>3, <1>4, <1>5 DEF a

(* What filpinfo has where the tokens are those of l: the commands they    *)
(* stand for, and an empty argument more where a word may begin            *)
Standing(l) == IF l.glue = "word" THEN Assembly(l.toks) ELSE With(Assembly(l.toks), <<>>)

LEMMA WordAssembled ==
    ASSUME NEW s \in Seq(Tokens), NEW u \in Seq(Chars)
    PROVE  Assembly(Append(s, Tok("word", u))) = With(Assembly(s), u)
<1> DEFINE t == Tok("word", u)
<1>1. t \in Tokens /\ t.kind = "word" /\ t.text = u
  BY DEF Tokens, Tok, Kinds
<1> HIDE DEF t
<1>2. Assembly(s) \in CommandLists /\ Assembly(Append(s, t)) = Assembled(Assembly(s), t)
  BY <1>1, AssemblyType, AssemblyAppend
<1>3. Assembled(Assembly(s), t) = With(Assembly(s), u)
  BY <1>1, <1>2, AssembledIs DEF With
<1> QED
  BY <1>2, <1>3 DEF t

(* A word grows where filpinfo writes.                                     *)
LEMMA Growing ==
    ASSUME NEW l \in Lexers, NEW s \in Seq(Chars)
    PROVE  \E base \in Seq(Tokens), u \in Seq(Chars) :
              /\ Standing(l) = With(Assembly(base), u)
              /\ GrownToks(l, s) = Append(base, Tok("word", u \o s))
              /\ Assembly(GrownToks(l, s)) = With(Assembly(base), u \o s)
<1> DEFINE T == l.toks
<1>1. /\ T \in Seq(Tokens)
      /\ l.glue # "" => T # <<>> /\ T[Len(T)].kind = l.glue
  BY LexerFacts
<1>2. CASE l.glue = "word"
  <2> DEFINE b == Front(T)  e == T[Len(T)]  u == e.text
  <2>1. T # <<>> /\ e.kind = "word"
    BY <1>1, <1>2
  <2>2. b \in Seq(Tokens) /\ e \in Tokens /\ T = Append(b, e)
    BY <1>1, <2>1, FrontFacts, FrontAndLast
  <2>3. u \in Seq(Chars) /\ e = Tok("word", u)
    BY <2>1, <2>2 DEF Tokens, Tok
  <2>4. u \o s \in Seq(Chars)
    BY <2>3, ConcatProperties
  <2>5. GrownToks(l, s) = Append(b, Tok("word", u \o s))
    BY <1>2 DEF GrownToks
  <2>6. Standing(l) = Assembly(T)
    BY <1>2 DEF Standing
  <2> HIDE DEF T, b, u
  <2>7. T = Append(b, Tok("word", u))
    BY <2>2, <2>3
  <2> HIDE DEF e
  <2>8. Assembly(T) = With(Assembly(b), u)
    BY <2>2, <2>3, <2>7, WordAssembled
  <2>9. Assembly(Append(b, Tok("word", u \o s))) = With(Assembly(b), u \o s)
    BY <2>2, <2>4, WordAssembled
  <2> QED
    BY <2>2, <2>3, <2>5, <2>6, <2>8, <2>9
<1>3. CASE l.glue # "word"
  <2>1. <<>> \in Seq(Chars) /\ <<>> \o s = s
    BY EmptySeq, ConcatEmptySeq
  <2>2. GrownToks(l, s) = Append(T, Tok("word", s))
    BY <1>3 DEF GrownToks
  <2>3. Standing(l) = With(Assembly(T), <<>>)
    BY <1>3 DEF Standing
  <2>4. Assembly(Append(T, Tok("word", s))) = With(Assembly(T), s)
    BY <1>1, WordAssembled
  <2> HIDE DEF T
  <2> QED
    BY <1>1, <2>1, <2>2, <2>3, <2>4
<1> QED
  BY <1>2, <1>3

LEMMA StandingIs ==
    ASSUME NEW l \in Lexers
    PROVE  /\ Standing(l) \in CommandLists /\ Args(Standing(l)) # <<>>
           /\ Args(Standing(l)) \in Seq(Seq(Chars))
<1>1. <<>> \in Seq(Chars)
  BY EmptySeq
<1>2. PICK base \in Seq(Tokens), u \in Seq(Chars) : Standing(l) = With(Assembly(base), u)
  BY <1>1, Growing
<1>3. /\ With(Assembly(base), u) \in CommandLists
      /\ Args(With(Assembly(base), u)) = Append(Args(Assembly(base)), u)
      /\ Args(Assembly(base)) \in Seq(Seq(Chars))
  BY AssemblyType, WithIs
<1>4. /\ Append(Args(Assembly(base)), u) # <<>>
      /\ Append(Args(Assembly(base)), u) \in Seq(Seq(Chars))
  BY <1>3, AppendProperties
<1> QED
  BY <1>2, <1>3, <1>4

(* write_char(x): the content *)
LEMMA WrittenIs ==
    ASSUME NEW c, ListOK(c), Writable(c, 1), NEW x \in Chars \cup {Nul}
    PROVE  LET a == Args(c)
               b == Args(Written(c, x, 1))
           IN  /\ a # <<>> /\ Len(a) \in Nat \ {0}
               /\ a[Len(a)] \in Strings
               /\ b \in Seq(Strings) /\ Len(b) = Len(a)
               /\ \A m \in 1 .. Len(a) - 1 : b[m] = a[m]
               /\ b[Len(a)] = Append(a[Len(a)], x)
               /\ Written(c, x, 1) = Changed(c, [type |-> c[Len(c)].type, argv |-> b])
<1> DEFINE a == Args(c)
           xs == [m \in 1 .. 1 |-> x]
           new == Last(a) \o xs
           d == [a EXCEPT ![Len(a)] = new]
<1>1. ArgvOK(a) /\ a # <<>> /\ Len(Last(a)) + 1 <= MaxEachArg
  BY ListFacts DEF Writable
<1>2. a \in Seq(Strings) /\ Len(a) \in Nat \ {0} /\ Len(a) \in 1 .. Len(a)
  BY <1>1, EmptySeq DEF ArgvOK
<1>3. Last(a) \in Strings /\ Last(a) = a[Len(a)] /\ Last(a) \in Seq(Chars \cup {Nul})
  BY <1>2, ElementOfSeq DEF Last, Strings
<1>4. Last(a) \o xs = Append(Last(a), x)
  <2> DEFINE w == Last(a)  S == Chars \cup {Nul}
  <2>1. xs \in Seq(S) /\ Len(xs) = 1 /\ xs[1] = x
    OBVIOUS
  <2>2. w \in Seq(S) /\ x \in S /\ Len(w) \in Nat
    BY <1>3, LenProperties
  <2> HIDE DEF w, xs, S
  <2>3. /\ w \o xs \in Seq(S) /\ Len(w \o xs) = Len(w) + Len(xs)
        /\ \A i \in 1 .. Len(w) + Len(xs) :
              (w \o xs)[i] = IF i <= Len(w) THEN w[i] ELSE xs[i - Len(w)]
    BY <2>1, <2>2, ConcatProperties
  <2>4. /\ Append(w, x) \in Seq(S) /\ Len(Append(w, x)) = Len(w) + 1
        /\ \A i \in 1 .. Len(w) : Append(w, x)[i] = w[i]
        /\ Append(w, x)[Len(w) + 1] = x
    BY <2>2, AppendProperties
  <2>5. Len(w \o xs) = Len(w) + 1
    BY <2>1, <2>3
  <2>6. ASSUME NEW i \in 1 .. Len(w) + 1 PROVE (w \o xs)[i] = Append(w, x)[i]
    <3>1. i \in 1 .. Len(w) + Len(xs)
      BY <2>1
    <3>2. (w \o xs)[i] = IF i <= Len(w) THEN w[i] ELSE xs[i - Len(w)]
      BY <2>3, <3>1
    <3>3. CASE i <= Len(w)
      <4>1. i \in 1 .. Len(w)
        BY <2>2, <3>3
      <4> QED
        BY <2>4, <3>2, <3>3, <4>1
    <3>4. CASE ~(i <= Len(w))
      <4>1. i = Len(w) + 1 /\ i - Len(w) = 1
        BY <2>2, <3>4
      <4> QED
        BY <2>1, <2>4, <3>2, <3>4, <4>1
    <3> QED
      BY <3>3, <3>4
  <2> DEFINE y == w \o xs  z == Append(w, x)
  <2> HIDE DEF y, z
  <2>7. y \in Seq(S) /\ z \in Seq(S) /\ Len(y) = Len(z) /\ \A i \in 1 .. Len(y) : y[i] = z[i]
    BY <2>3, <2>4, <2>5, <2>6 DEF y, z
  <2>8. y = z
    BY ONLY <2>7, SeqEqual
  <2> QED
    BY <2>8 DEF y, z, w
<1> HIDE DEF xs, a
<1>5. Append(a[Len(a)], x) \in Strings
  <2>1. x \in Chars \cup {Nul}
    OBVIOUS
  <2>2. Append(Last(a), x) \in Seq(Chars \cup {Nul})
    BY <1>3, <2>1, AppendProperties
  <2> QED
    BY <1>3, <2>2 DEF Strings
<1> DEFINE v == Append(a[Len(a)], x)
<1>6. new = v /\ v \in Strings
  BY <1>3, <1>4, <1>5
<1> HIDE DEF new, v
<1>7. /\ d \in Seq(Strings) /\ Len(d) = Len(a)
      /\ \A m \in 1 .. Len(a) : d[m] = IF m = Len(a) THEN new ELSE a[m]
  BY <1>2, <1>6, ExceptSeq
<1> HIDE DEF d
<1>8. d[Len(a)] = v /\ \A m \in 1 .. Len(a) - 1 : d[m] = a[m]
  <2>1. \A m \in 1 .. Len(a) - 1 : m \in 1 .. Len(a) /\ m # Len(a)
    BY <1>2
  <2> QED
    BY <1>2, <1>6, <1>7, <2>1
<1>9. Written(c, x, 1) = WithArgs(c, d)
  BY DEF Written, d, new, xs, a
<1>10. Args(Written(c, x, 1)) = d
  <2>1. Len(d[Len(a)]) <= MaxEachArg
    <3>1. Len(v) = Len(Last(a)) + 1
      BY <1>3, AppendProperties DEF v
    <3> QED
      BY <1>1, <1>8, <3>1
  <2>2. ArgvOK(d)
    <3>1. \A m \in 1 .. Len(d) : m = Len(a) \/ m \in 1 .. Len(a) - 1
      BY <1>2, <1>7
    <3>2. \A m \in 1 .. Len(a) - 1 : m \in 1 .. Len(a)
      BY <1>2
    <3>3. \A m \in 1 .. Len(a) : Len(a[m]) <= MaxEachArg
      BY <1>1 DEF ArgvOK
    <3>4. \A m \in 1 .. Len(d) : Len(d[m]) <= MaxEachArg
      BY <1>8, <2>1, <3>1, <3>2, <3>3
    <3> QED
      BY <1>1, <1>7, <3>4 DEF ArgvOK
  <2> QED
    BY <1>9, <2>2, WithArgsOK
<1>11. WithArgs(c, d) = Changed(c, [type |-> c[Len(c)].type, argv |-> d])
  <2>1. c[Len(c)] \in [type : Types, argv : Seq(Strings)]
    BY ListFacts
  <2>2. [c[Len(c)] EXCEPT !.argv = d] = [type |-> c[Len(c)].type, argv |-> d]
    BY <2>1
  <2> QED
    BY <2>2 DEF WithArgs, Changed
<1>12. /\ a # <<>> /\ Len(a) \in Nat \ {0} /\ a[Len(a)] \in Strings
       /\ d \in Seq(Strings) /\ Len(d) = Len(a)
       /\ \A m \in 1 .. Len(a) - 1 : d[m] = a[m]
       /\ d[Len(a)] = Append(a[Len(a)], x)
       /\ Written(c, x, 1) = Changed(c, [type |-> c[Len(c)].type, argv |-> d])
  BY <1>1, <1>2, <1>3, <1>7, <1>8, <1>9, <1>11 DEF v
<1> QED
  BY <1>10, <1>12 DEF a

(* The last argument of two lists that agree is replaced in both.          *)
LEMMA AgreeRewritten ==
    ASSUME NEW c, ListOK(c), NEW d \in CommandLists, NEW e \in CommandLists, NEW j,
           Agree(c, d, j), NEW p \in Seq(Seq(Chars)), NEW u \in Seq(Chars), NEW v \in Seq(Chars),
           Args(d) = Append(p, u),
           Len(e) = Len(d), \A n \in 1 .. Len(d) - 1 : e[n] = d[n],
           e[Len(d)].type = d[Len(d)].type, Args(e) = Append(p, v),
           NEW b \in Seq(Strings), Len(b) = Len(Args(c)),
           \A m \in 1 .. Len(Args(c)) - 1 : b[m] = Args(c)[m],
           Holds(b[Len(Args(c))], v, j)
    PROVE  Agree(Changed(c, [type |-> c[Len(c)].type, argv |-> b]), e, j)
<1> DEFINE f == [type |-> c[Len(c)].type, argv |-> b]  x == Changed(c, f)
<1>1. /\ c \in Seq([type : Types, argv : Seq(Strings)]) /\ c # <<>>
      /\ Len(c) \in Nat \ {0} /\ Len(c) \in 1 .. Len(c)
      /\ c[Len(c)] \in [type : Types, argv : Seq(Strings)]
      /\ Args(c) = c[Len(c)].argv
  BY ListIs
<1>2. /\ Args(d) = d[Len(d)].argv /\ Args(e) = e[Len(e)].argv
  BY CommandListFacts
<1>3. Len(c) = Len(d) /\ \A n \in 1 .. Len(c) : AgreeCommand(c[n], d[n], j)
  BY DEF Agree
<1>4. AgreeArgs(Args(c), Append(p, u), j) /\ c[Len(c)].type = d[Len(c)].type
  <2>1. AgreeCommand(c[Len(c)], d[Len(c)], j)
    BY <1>1, <1>3
  <2> QED
    BY <1>1, <1>2, <1>3, <2>1 DEF AgreeCommand
<1>5. AgreeArgs(b, Append(p, v), j)
  <2> DEFINE a == Args(c)
  <2>1. /\ p \in Seq(Seq(Chars)) /\ u \in Seq(Chars) /\ v \in Seq(Chars)
        /\ AgreeArgs(a, Append(p, u), j) /\ Len(b) = Len(a)
        /\ \A m \in 1 .. Len(a) - 1 : b[m] = a[m]
        /\ Holds(b[Len(a)], v, j)
    BY <1>4
  <2> HIDE DEF a
  <2> QED
    BY ONLY <2>1, ArgsReplaced
<1>6. /\ f \in [type : Types, argv : Seq(Strings)] /\ f.argv = b /\ f.type = c[Len(c)].type
  BY <1>1
<1> HIDE DEF f
<1>7. /\ Len(x) = Len(c) /\ x[Len(c)] = f
      /\ \A n \in 1 .. Len(c) - 1 : x[n] = c[n]
  <2> DEFINE S == [type : Types, argv : Seq(Strings)]
  <2>1. c \in Seq(S) /\ c # <<>> /\ f \in S
    BY <1>1, <1>6
  <2> HIDE DEF S
  <2> QED
    BY ONLY <2>1, ChangedIs
<1> HIDE DEF x
<1>8. ASSUME NEW n \in 1 .. Len(c) PROVE AgreeCommand(x[n], e[n], j)
  <2>1. CASE n = Len(c)
    <3>1. x[n] = f /\ e[n].argv = Append(p, v) /\ e[n].type = c[Len(c)].type
      BY <1>2, <1>3, <1>4, <1>7, <2>1
    <3> QED
      BY <1>5, <1>6, <3>1 DEF AgreeCommand
  <2>2. CASE n # Len(c)
    <3>1. n \in 1 .. Len(c) - 1
      BY <1>1, <2>2
    <3>2. x[n] = c[n] /\ e[n] = d[n]
      BY <1>3, <1>7, <3>1
    <3> QED
      BY <1>3, <3>2
  <2> QED
    BY <2>1, <2>2
<1>9. Len(x) = Len(e)
  BY <1>3, <1>7
<1>10. Agree(x, e, j)
  BY <1>7, <1>8, <1>9 DEF Agree
<1> QED
  BY <1>10 DEF x, f

LEMMA Exactly ==
    ASSUME NEW t, Len(t) \in Nat, NEW j \in Nat
    PROVE  Holds(t, t, j)
  BY DEF Holds

(* write_char of the character that the last word grows by                 *)
LEMMA WriteAgrees ==
    ASSUME NEW c, ListOK(c), NEW d \in CommandLists, NEW u \in Seq(Chars),
           Agree(c, With(d, u), 1), Last(Args(c)) = u, Writable(c, 1), NEW x \in Chars
    PROVE  /\ Agree(Written(c, x, 1), With(d, u \o <<x>>), 1)
           /\ Last(Args(Written(c, x, 1))) = u \o <<x>>
<1> DEFINE a == Args(c)  b == Args(Written(c, x, 1))  w == With(d, u)  v == u \o <<x>>
           y == With(d, v)
<1>1. /\ a # <<>> /\ Len(a) \in Nat \ {0}
      /\ b \in Seq(Strings) /\ Len(b) = Len(a)
      /\ \A m \in 1 .. Len(a) - 1 : b[m] = a[m]
      /\ b[Len(a)] = Append(a[Len(a)], x)
      /\ Written(c, x, 1) = Changed(c, [type |-> c[Len(c)].type, argv |-> b])
  <2>1. x \in Chars \cup {Nul}
    OBVIOUS
  <2> QED
    BY <2>1, WrittenIs
<1>2. v = Append(u, x) /\ v \in Seq(Chars)
  BY AppendIsConcat, AppendProperties
<1> HIDE DEF v
<1>3. /\ w \in CommandLists /\ Len(w) = Len(d)
      /\ w[Len(d)].type = d[Len(d)].type /\ Args(w) = Append(Args(d), u)
      /\ \A n \in 1 .. Len(d) - 1 : w[n] = d[n]
      /\ Args(d) \in Seq(Seq(Chars))
  BY WithIs
<1>4. /\ y \in CommandLists /\ Len(y) = Len(d)
      /\ y[Len(d)].type = d[Len(d)].type /\ Args(y) = Append(Args(d), v)
      /\ \A n \in 1 .. Len(d) - 1 : y[n] = d[n]
  BY <1>2, WithIs
<1>5. b[Len(a)] = v /\ Last(b) = v
  BY <1>1, <1>2 DEF Last
<1>6. Holds(b[Len(a)], v, 1)
  <2>1. Len(v) \in Nat
    BY <1>2, LenProperties
  <2> QED
    BY <1>5, <2>1, Exactly
<1> DEFINE p == Args(d)
<1> HIDE DEF b, w, y, p
<1>7. /\ ListOK(c) /\ w \in CommandLists /\ y \in CommandLists /\ Agree(c, w, 1)
      /\ p \in Seq(Seq(Chars)) /\ u \in Seq(Chars) /\ v \in Seq(Chars)
      /\ Args(w) = Append(p, u)
      /\ Len(y) = Len(w) /\ \A n \in 1 .. Len(w) - 1 : y[n] = w[n]
      /\ y[Len(w)].type = w[Len(w)].type /\ Args(y) = Append(p, v)
      /\ b \in Seq(Strings) /\ Len(b) = Len(Args(c))
      /\ \A m \in 1 .. Len(Args(c)) - 1 : b[m] = Args(c)[m]
      /\ Holds(b[Len(Args(c))], v, 1)
  BY <1>1, <1>2, <1>3, <1>4, <1>6 DEF w, p
<1>8. Agree(Changed(c, [type |-> c[Len(c)].type, argv |-> b]), y, 1)
  BY ONLY <1>7, AgreeRewritten
<1> QED
  BY <1>1, <1>5, <1>8 DEF b, y, v

(* write_char('\0'), behind the last word and perhaps behind another NUL   *)
LEMMA NulAgrees ==
    ASSUME NEW c, ListOK(c), NEW d \in CommandLists, NEW j \in Nat,
           Agree(c, d, j), Writable(c, 1), Args(d) # <<>>,
           Len(Last(Args(c))) + 1 <= Len(Last(Args(d))) + j
    PROVE  Agree(Written(c, Nul, 1), d, j)
<1> DEFINE a == Args(c)  b == Args(Written(c, Nul, 1))  g == Args(d)  p == Front(g)  v == g[Len(g)]
<1>1. /\ a # <<>> /\ Len(a) \in Nat \ {0} /\ a[Len(a)] \in Strings
      /\ b \in Seq(Strings) /\ Len(b) = Len(a)
      /\ \A m \in 1 .. Len(a) - 1 : b[m] = a[m]
      /\ b[Len(a)] = Append(a[Len(a)], Nul)
      /\ Written(c, Nul, 1) = Changed(c, [type |-> c[Len(c)].type, argv |-> b])
  BY WrittenIs
<1>2. g \in Seq(Seq(Chars)) /\ g # <<>>
  BY CommandListFacts
<1> HIDE DEF g
<1>3. p \in Seq(Seq(Chars)) /\ v \in Seq(Chars) /\ g = Append(p, v) /\ Last(g) = v
  BY <1>2, FrontFacts, FrontAndLast DEF Last
<1>4. Holds(a[Len(a)], v, j)
  <2>1. /\ Len(c) = Len(d) /\ Len(c) \in 1 .. Len(c) /\ AgreeCommand(c[Len(c)], d[Len(c)], j)
    BY ListIs DEF Agree
  <2>2. AgreeArgs(a, g, j)
    BY <2>1, ListIs, CommandListFacts DEF AgreeCommand, g
  <2>3. Len(a) = Len(g) /\ Len(a) \in 1 .. Len(a)
    BY <1>1, <2>2 DEF AgreeArgs
  <2> QED
    BY <2>2, <2>3 DEF AgreeArgs
<1>5. Holds(b[Len(a)], v, j)
  <2> DEFINE s == a[Len(a)]  t == Append(s, Nul)
  <2>1. s \in Seq(Chars \cup {Nul}) /\ Nul \in Chars \cup {Nul} /\ Last(a) = s
    BY <1>1 DEF Strings, Last
  <2>2. Len(s) + 1 <= Len(v) + j
    BY <1>3, <2>1 DEF g
  <2> HIDE DEF s
  <2>3. /\ Len(t) = Len(s) + 1 /\ t[Len(s) + 1] = Nul
        /\ \A i \in 1 .. Len(s) : t[i] = s[i]
    BY ONLY <2>1, AppendProperties
  <2>4. Len(s) \in Nat /\ Len(v) \in Nat
    BY <1>3, <2>1, LenProperties
  <2>5. Holds(s, v, j)
    BY <1>4 DEF s
  <2> HIDE DEF t, v
  <2>6. Len(v) <= Len(t) /\ Len(t) <= Len(v) + j
    BY <2>2, <2>3, <2>4, <2>5 DEF Holds
  <2>7. \A i \in 1 .. Len(v) : t[i] = v[i]
    <3>1. \A i \in 1 .. Len(v) : i \in 1 .. Len(s)
      BY <2>4, <2>5 DEF Holds
    <3> QED
      BY <2>3, <2>5, <3>1 DEF Holds
  <2>8. t[Len(v) + 1] = Nul
    <3>1. CASE Len(v) = Len(s)
      BY <2>3, <3>1
    <3>2. CASE Len(v) < Len(s)
      <4>1. Len(v) + 1 \in 1 .. Len(s)
        BY <2>4, <3>2
      <4> QED
        BY <2>3, <2>5, <3>2, <4>1 DEF Holds
    <3> QED
      BY <2>4, <2>5, <3>1, <3>2 DEF Holds
  <2>9. Holds(t, v, j)
    BY <2>6, <2>7, <2>8 DEF Holds
  <2> QED
    BY <1>1, <2>9 DEF t, s
<1> HIDE DEF p, v, b
<1>6. /\ ListOK(c) /\ d \in CommandLists /\ Agree(c, d, j)
      /\ p \in Seq(Seq(Chars)) /\ v \in Seq(Chars)
      /\ Args(d) = Append(p, v) /\ Len(d) = Len(d)
      /\ b \in Seq(Strings) /\ Len(b) = Len(Args(c))
      /\ \A m \in 1 .. Len(Args(c)) - 1 : b[m] = Args(c)[m]
      /\ Holds(b[Len(Args(c))], v, j)
  BY <1>1, <1>3, <1>5 DEF g
<1>7. Agree(Changed(c, [type |-> c[Len(c)].type, argv |-> b]), d, j)
  BY ONLY <1>6, AgreeRewritten
<1> QED
  BY <1>1, <1>7 DEF b

(* The last command of two lists that agree is replaced in both.           *)
LEMMA AgreeSet ==
    ASSUME NEW c, ListOK(c), NEW d \in CommandLists, NEW e \in CommandLists, NEW j,
           Agree(c, d, j), Len(e) = Len(d), \A n \in 1 .. Len(d) - 1 : e[n] = d[n],
           NEW a \in Seq(Strings), NEW t \in Types,
           e[Len(d)].type = t, AgreeArgs(a, Args(e), j)
    PROVE  Agree(Changed(c, [type |-> t, argv |-> a]), e, j)
<1> DEFINE f == [type |-> t, argv |-> a]  x == Changed(c, f)
<1>1. /\ c \in Seq([type : Types, argv : Seq(Strings)]) /\ c # <<>>
      /\ Len(c) \in Nat \ {0} /\ Len(c) \in 1 .. Len(c)
  BY ListIs
<1>2. Args(e) = e[Len(e)].argv
  BY CommandListFacts
<1>3. Len(c) = Len(d) /\ \A n \in 1 .. Len(c) : AgreeCommand(c[n], d[n], j)
  BY DEF Agree
<1>4. f \in [type : Types, argv : Seq(Strings)] /\ f.argv = a /\ f.type = t
  BY <1>1
<1> HIDE DEF f
<1>5. /\ Len(x) = Len(c) /\ x[Len(c)] = f
      /\ \A n \in 1 .. Len(c) - 1 : x[n] = c[n]
  <2> DEFINE S == [type : Types, argv : Seq(Strings)]
  <2>1. c \in Seq(S) /\ c # <<>> /\ f \in S
    BY <1>1, <1>4
  <2> HIDE DEF S
  <2> QED
    BY ONLY <2>1, ChangedIs
<1> HIDE DEF x
<1>6. ASSUME NEW n \in 1 .. Len(c) PROVE AgreeCommand(x[n], e[n], j)
  <2>1. CASE n = Len(c)
    BY <1>2, <1>3, <1>4, <1>5, <2>1 DEF AgreeCommand
  <2>2. CASE n # Len(c)
    <3>1. n \in 1 .. Len(c) - 1
      BY <1>1, <2>2
    <3> QED
      BY <1>3, <1>5, <3>1
  <2> QED
    BY <2>1, <2>2
<1>7. Agree(x, e, j)
  BY <1>3, <1>5, <1>6 DEF Agree
<1> QED
  BY <1>7 DEF x, f

LEMMA WithArgsChanged ==
    ASSUME NEW c, ListOK(c), NEW a
    PROVE  WithArgs(c, a) = Changed(c, [type |-> c[Len(c)].type, argv |-> a])
<1>1. c[Len(c)] \in [type : Types, argv : Seq(Strings)]
  BY ListFacts
<1>2. [c[Len(c)] EXCEPT !.argv = a] = [type |-> c[Len(c)].type, argv |-> a]
  BY <1>1
<1> QED
  BY <1>2 DEF WithArgs, Changed

LEMMA AgreeLast ==
    ASSUME NEW c, ListOK(c), NEW d \in CommandLists, NEW j, Agree(c, d, j)
    PROVE  /\ Len(c) = Len(d) /\ c[Len(c)].type = d[Len(d)].type
           /\ AgreeArgs(Args(c), Args(d), j)
           /\ Args(c) = <<>> <=> Args(d) = <<>>
           /\ Len(Args(c)) = Len(Args(d)) /\ Args(c) \in Seq(Strings)
<1>1. /\ Len(c) = Len(d) /\ Len(c) \in 1 .. Len(c) /\ AgreeCommand(c[Len(c)], d[Len(d)], j)
  BY ListIs DEF Agree
<1>2. /\ AgreeArgs(Args(c), Args(d), j) /\ c[Len(c)].type = d[Len(d)].type
      /\ Args(c) \in Seq(Strings) /\ Args(d) \in Seq(Seq(Chars))
  BY <1>1, ListIs, CommandListFacts DEF AgreeCommand
<1>3. Len(Args(c)) = Len(Args(d))
  BY <1>2 DEF AgreeArgs
<1>4. (Args(c) = <<>> <=> Len(Args(c)) = 0) /\ (Args(d) = <<>> <=> Len(Args(d)) = 0)
  BY <1>2, EmptySeq
<1> QED
  BY <1>1, <1>2, <1>3, <1>4

(* A blank begins another argument.                                        *)
LEMMA BlankAgrees ==
    ASSUME NEW c, ListOK(c), NEW d \in CommandLists, Agree(c, d, 1)
    PROVE  /\ Agree(WithArgs(c, Append(Args(c), <<>>)), With(d, <<>>), 1)
           /\ Last(Append(Args(c), <<>>)) = <<>>
<1> DEFINE a == Append(Args(c), <<>>)  w == With(d, <<>>)  t == c[Len(c)].type
<1>1. /\ Len(c) = Len(d) /\ t = d[Len(d)].type
      /\ AgreeArgs(Args(c), Args(d), 1) /\ Args(c) \in Seq(Strings)
  BY AgreeLast
<1>2. <<>> \in Seq(Chars) /\ <<>> \in Strings /\ Len(<<>>) = 0
  BY EmptySeq DEF Strings
<1>3. /\ w \in CommandLists /\ Len(w) = Len(d)
      /\ w[Len(d)].type = d[Len(d)].type /\ Args(w) = Append(Args(d), <<>>)
      /\ \A n \in 1 .. Len(d) - 1 : w[n] = d[n]
      /\ Args(d) \in Seq(Seq(Chars))
  BY <1>2, WithIs
<1>4. Holds(<<>>, <<>>, 1)
  BY <1>2, Exactly
<1>5. a \in Seq(Strings) /\ AgreeArgs(a, Append(Args(d), <<>>), 1) /\ Last(a) = <<>>
  <2> DEFINE p == Args(c)  q == Args(d)  e == <<>>
  <2>1. p \in Seq(Strings) /\ q \in Seq(Seq(Chars)) /\ e \in Strings /\ e \in Seq(Chars)
        /\ AgreeArgs(p, q, 1) /\ Holds(e, e, 1)
    BY <1>1, <1>2, <1>3, <1>4
  <2> HIDE DEF p, q, e
  <2>2. AgreeArgs(Append(p, e), Append(q, e), 1)
    BY ONLY <2>1, ArgsAppend
  <2>3. Append(p, e) \in Seq(Strings) /\ Len(Append(p, e)) = Len(p) + 1
        /\ Append(p, e)[Len(p) + 1] = e
    BY ONLY <2>1, AppendProperties
  <2>4. Last(Append(p, e)) = e
    BY <2>3 DEF Last
  <2> QED
    BY <2>2, <2>3, <2>4 DEF p, q, e
<1>6. t \in Types
  BY ListFacts
<1> HIDE DEF a, w, t
<1>7. /\ ListOK(c) /\ d \in CommandLists /\ w \in CommandLists /\ Agree(c, d, 1)
      /\ Len(w) = Len(d) /\ \A n \in 1 .. Len(d) - 1 : w[n] = d[n]
      /\ a \in Seq(Strings) /\ t \in Types /\ w[Len(d)].type = t
      /\ AgreeArgs(a, Args(w), 1)
  BY <1>1, <1>3, <1>5, <1>6
<1>8. Agree(Changed(c, [type |-> t, argv |-> a]), w, 1)
  BY ONLY <1>7, AgreeSet
<1>9. WithArgs(c, a) = Changed(c, [type |-> t, argv |-> a])
  BY WithArgsChanged DEF t
<1> QED
  BY <1>5, <1>8, <1>9 DEF a, w

(* The argument a separator takes back is the one no token has begun.      *)
LEMMA TakenBackAgrees ==
    ASSUME ListOK(cmds), NEW l \in Lexers, Agree(cmds, Standing(l), 1),
           Last(Args(cmds)) = Last(Args(Standing(l))),
           l.toks # <<>>, l.toks[Len(l.toks)].kind = "word", l.toks[Len(l.toks)].text # <<>>
    PROVE  /\ ~FreesNothing
           /\ Agree(WithArgs(cmds, TakenBack), Assembly(l.toks), 1)
<1> DEFINE T == l.toks  A == Assembly(T)  d == Standing(l)  a == Args(cmds)
<1>1. T \in Seq(Tokens) /\ d \in CommandLists /\ Args(d) # <<>> /\ Args(d) \in Seq(Seq(Chars))
  BY LexerFacts, StandingIs
<1>2. A \in CommandLists
  BY <1>1, AssemblyType
<1>3. /\ Len(cmds) = Len(d) /\ cmds[Len(cmds)].type = d[Len(d)].type
      /\ AgreeArgs(a, Args(d), 1) /\ a # <<>> /\ a \in Seq(Strings)
  BY <1>1, AgreeLast
<1>4. ~FreesNothing
  BY <1>3 DEF FreesNothing
<1>5. ArgChar = Len(Last(Args(d)))
  BY <1>3 DEF ArgChar
<1>6. /\ Len(d) = Len(A) /\ d[Len(A)].type = A[Len(A)].type /\ A[Len(A)].type \in Types
      /\ \A n \in 1 .. Len(d) - 1 : A[n] = d[n]
  <2>1. CASE l.glue = "word"
    BY <1>2, <2>1, CommandListFacts DEF Standing
  <2>2. CASE l.glue # "word"
    <3>1. d = With(A, <<>>) /\ <<>> \in Seq(Chars)
      BY <2>2, EmptySeq DEF Standing
    <3> HIDE DEF d, A
    <3> QED
      BY <1>2, <3>1, WithIs, CommandListFacts
  <2> QED
    BY <2>1, <2>2
<1>7. AgreeArgs(TakenBack, Args(A), 1) /\ TakenBack \in Seq(Strings)
  <2>1. CASE l.glue = "word"
    <3> DEFINE b == Front(T)  e == T[Len(T)]  u == e.text
    <3>1. b \in Seq(Tokens) /\ e \in Tokens /\ T = Append(b, e) /\ e.kind = "word"
      BY <1>1, FrontFacts, FrontAndLast
    <3>2. u \in Seq(Chars) /\ e = Tok("word", u) /\ u # <<>>
      BY <3>1 DEF Tokens, Tok
    <3>3. d = A
      BY <2>1 DEF Standing
    <3> HIDE DEF T, b, u
    <3>4. T = Append(b, Tok("word", u))
      BY <3>1, <3>2
    <3>5. A = With(Assembly(b), u)
      BY <3>1, <3>2, <3>4, WordAssembled
    <3>6. Args(A) = Append(Args(Assembly(b)), u) /\ Args(Assembly(b)) \in Seq(Seq(Chars))
      BY <3>1, <3>2, <3>5, AssemblyType, WithIs
    <3> DEFINE q == Args(Assembly(b))
    <3> HIDE DEF q
    <3>7. q \in Seq(Seq(Chars)) /\ u \in Seq(Chars)
      BY <3>2, <3>6 DEF q
    <3>8. Last(Append(q, u)) = u
      <4>1. Len(Append(q, u)) = Len(q) + 1 /\ Append(q, u)[Len(q) + 1] = u
        BY ONLY <3>7, AppendProperties
      <4> QED
        BY <4>1 DEF Last
    <3>9. Len(u) # 0
      BY <3>2, EmptySeq
    <3>10. ArgChar # 0
      BY <1>5, <3>3, <3>6, <3>8, <3>9 DEF q
    <3>11. TakenBack = a
      BY <3>10 DEF TakenBack
    <3> QED
      BY <1>3, <3>3, <3>11
  <2>2. CASE l.glue # "word"
    <3>1. d = With(A, <<>>) /\ <<>> \in Seq(Chars)
      BY <2>2, EmptySeq DEF Standing
    <3> HIDE DEF d, A
    <3>2. Args(d) = Append(Args(A), <<>>) /\ Args(A) \in Seq(Seq(Chars))
      BY <1>2, <3>1, WithIs
    <3> DEFINE q == Args(A)  u == <<>>
    <3> HIDE DEF q, a, u
    <3>3. q \in Seq(Seq(Chars)) /\ u \in Seq(Chars) /\ a \in Seq(Strings) /\ a # <<>>
          /\ AgreeArgs(a, Append(q, u), 1)
      BY <1>3, <3>1, <3>2 DEF q, u, a
    <3>4. Last(Append(q, u)) = u
      <4>1. Len(Append(q, u)) = Len(q) + 1 /\ Append(q, u)[Len(q) + 1] = u
        BY ONLY <3>3, AppendProperties
      <4> QED
        BY <4>1 DEF Last
    <3>5. ArgChar = 0
      BY <1>5, <3>2, <3>4, EmptySeq DEF q, u
    <3>6. AgreeArgs(Front(a), q, 1) /\ Front(a) \in Seq(Strings)
      <4>1. AgreeArgs(Front(a), q, 1)
        BY ONLY <3>3, ArgsFront
      <4>2. Front(a) \in Seq(Strings)
        BY ONLY <3>3, FrontFacts
      <4> QED
        BY <4>1, <4>2
    <3>7. TakenBack = Front(a)
      BY <3>5 DEF TakenBack, a
    <3> QED
      BY <3>6, <3>7 DEF q
  <2> QED
    BY <2>1, <2>2
<1> DEFINE k == TakenBack  t == cmds[Len(cmds)].type
<1> HIDE DEF k, A, d, t
<1>8. /\ ListOK(cmds) /\ d \in CommandLists /\ A \in CommandLists /\ Agree(cmds, d, 1)
      /\ Len(A) = Len(d) /\ \A n \in 1 .. Len(d) - 1 : A[n] = d[n]
      /\ k \in Seq(Strings) /\ t \in Types /\ A[Len(d)].type = t
      /\ AgreeArgs(k, Args(A), 1)
  BY <1>1, <1>2, <1>3, <1>6, <1>7 DEF k, t, d
<1>9. Agree(Changed(cmds, [type |-> t, argv |-> k]), A, 1)
  BY ONLY <1>8, AgreeSet
<1>10. WithArgs(cmds, k) = Changed(cmds, [type |-> t, argv |-> k])
  BY WithArgsChanged DEF t
<1> QED
  BY <1>4, <1>9, <1>10 DEF k, A

(* The list a separator of type t ends, and what it becomes                *)
Closed(c, t) == Changed(c, [type |-> t, argv |-> Args(c)])

LEMMA ClosedIs ==
    ASSUME NEW c \in CommandLists, NEW t \in Types
    PROVE  /\ Closed(c, t) \in CommandLists /\ Len(Closed(c, t)) = Len(c)
           /\ Closed(c, t)[Len(c)].type = t /\ Args(Closed(c, t)) = Args(c)
           /\ \A n \in 1 .. Len(c) - 1 : Closed(c, t)[n] = c[n]
<1> DEFINE e == [type |-> t, argv |-> Args(c)]
<1>1. Args(c) \in Seq(Seq(Chars))
  BY CommandListFacts
<1>2. e \in Command /\ e.argv = Args(c) /\ e.type = t
  BY <1>1 DEF Command
<1>3. Closed(c, t) = Changed(c, e)
  BY DEF Closed
<1> HIDE DEF e
<1> QED
  BY <1>2, <1>3, WithLast

LEMMA BareBegun ==
    ASSUME NEW c \in CommandLists
    PROVE  /\ Append(c, Bare) \in CommandLists
           /\ With(Append(c, Bare), <<>>) = Append(c, NewCommand)
<1> DEFINE b == Append(c, Bare)  x == With(b, <<>>)  y == Append(c, NewCommand)
<1>1. Bare \in Command /\ c \in Seq(Command) /\ Bare.type = "SINGLE" /\ Bare.argv = <<>>
  BY EmptySeq DEF Bare, Command, Types, CommandLists
<1>2. <<>> \in Seq(Chars) /\ << <<>> >> \in Seq(Seq(Chars))
  <2>1. <<>> \in Seq(Chars)
    BY EmptySeq
  <2> QED
    BY <2>1
<1>3. NewCommand = [type |-> "SINGLE", argv |-> << <<>> >>] /\ NewCommand \in Command
  BY <1>2 DEF NewCommand, Command, Types
<1> HIDE DEF Bare, NewCommand
<1>4. /\ b \in Seq(Command) /\ b # <<>> /\ Len(b) = Len(c) + 1
      /\ b[Len(c) + 1] = Bare /\ \A n \in 1 .. Len(c) : b[n] = c[n]
  <2>1. c \in Seq(Command) /\ Bare \in Command
    BY <1>1
  <2> QED
    BY ONLY <2>1, AppendProperties
<1>5. b \in CommandLists /\ Len(c) \in Nat \ {0}
  BY <1>4, CommandListFacts DEF CommandLists
<1>6. /\ y \in Seq(Command) /\ Len(y) = Len(c) + 1
      /\ y[Len(c) + 1] = NewCommand /\ \A n \in 1 .. Len(c) : y[n] = c[n]
  <2>1. c \in Seq(Command) /\ NewCommand \in Command
    BY <1>1, <1>3
  <2> QED
    BY ONLY <2>1, AppendProperties
<1> HIDE DEF b, x, y
<1>7. /\ x \in CommandLists /\ Len(x) = Len(b)
      /\ x[Len(b)].type = b[Len(b)].type
      /\ Args(x) = Append(Args(b), <<>>)
      /\ \A n \in 1 .. Len(b) - 1 : x[n] = b[n]
  BY <1>2, <1>5, WithIs DEF x
<1>8. Args(b) = <<>>
  BY <1>1, <1>4, <1>5, CommandListFacts
<1>9. Append(<<>>, <<>>) = << <<>> >>
  OBVIOUS
<1>10. x[Len(c) + 1] = NewCommand
  <2>1. /\ x[Len(x)] \in Command /\ Args(x) = x[Len(x)].argv /\ Len(x) = Len(c) + 1
    BY <1>4, <1>7, CommandListFacts
  <2>2. x[Len(x)].type = "SINGLE" /\ x[Len(x)].argv = << <<>> >>
    BY <1>1, <1>4, <1>7, <1>8, <1>9, <2>1
  <2> DEFINE e == x[Len(x)]
  <2> HIDE DEF e
  <2>3. e \in [type : Types, argv : Seq(Seq(Chars))] /\ e.type = "SINGLE" /\ e.argv = << <<>> >>
    BY <2>1, <2>2 DEF e, Command
  <2>4. e = [type |-> "SINGLE", argv |-> << <<>> >>]
    BY ONLY <2>3
  <2> QED
    BY <1>3, <2>1, <2>4 DEF e
<1>11. \A n \in 1 .. Len(x) : x[n] = y[n]
  <2>1. \A n \in 1 .. Len(x) : n = Len(c) + 1 \/ (n \in 1 .. Len(c) /\ n \in 1 .. Len(b) - 1)
    BY <1>4, <1>5, <1>7
  <2> QED
    BY <1>4, <1>6, <1>7, <1>10, <2>1
<1>12. x \in Seq(Command) /\ y \in Seq(Command) /\ Len(x) = Len(y)
  BY <1>4, <1>6, <1>7 DEF CommandLists
<1>13. x = y
  BY ONLY <1>11, <1>12, SeqEqual
<1> QED
  BY <1>5, <1>13 DEF x, y, b

LEMMA EndedAgrees ==
    ASSUME ListOK(cmds), Open(cmds), NEW l \in Lexers, Agree(cmds, Standing(l), 1),
           Last(Args(cmds)) = Last(Args(Standing(l))),
           l.toks # <<>>, l.toks[Len(l.toks)].kind = "word", l.toks[Len(l.toks)].text # <<>>,
           NEW t \in Types \ {"SINGLE"}
    PROVE  /\ ~FreesNothing
           /\ Agree(Ended(t), Closed(Assembly(l.toks), t), 1)
           /\ Agree(Separated(t), With(Append(Closed(Assembly(l.toks), t), Bare), <<>>), 1)
           /\ Last(Args(Separated(t))) = <<>>
<1> DEFINE A == Assembly(l.toks)  e == Closed(A, t)  c == WithArgs(cmds, TakenBack)
<1>1. ~FreesNothing /\ Agree(c, A, 1)
  BY TakenBackAgrees
<1>2. A \in CommandLists
  BY LexerFacts, AssemblyType
<1> HIDE DEF A
<1>3. /\ e \in CommandLists /\ Len(e) = Len(A) /\ e[Len(A)].type = t /\ Args(e) = Args(A)
      /\ \A n \in 1 .. Len(A) - 1 : e[n] = A[n]
  BY <1>2, ClosedIs
<1>4. ListOK(c) /\ Len(c) = Len(cmds)
  <2>1. ArgvOK(TakenBack)
    BY <1>1, TakenBackOK
  <2>2. ListOK(c)
    BY <2>1, WithArgsOK
  <2> QED
    BY <2>2, ListFacts DEF WithArgs
<1>5. Args(c) \in Seq(Strings) /\ AgreeArgs(Args(c), Args(A), 1)
  BY <1>1, <1>2, <1>4, AgreeLast
<1>6. Ended(t) = Changed(c, [type |-> t, argv |-> Args(c)])
  <2>1. c[Len(c)] \in [type : Types, argv : Seq(Strings)] /\ Args(c) = c[Len(c)].argv
    BY <1>4, ListFacts
  <2> DEFINE z == c[Len(c)]
  <2>2. [z EXCEPT !.type = t] = [type |-> t, argv |-> z.argv]
    <3> HIDE DEF z
    <3>1. z \in [type : Types, argv : Seq(Strings)]
      BY <2>1 DEF z
    <3> QED
      BY ONLY <3>1
  <2> QED
    BY <1>4, <2>1, <2>2 DEF Ended, Changed
<1> DEFINE a == Args(c)
<1> HIDE DEF c, e, a
<1>7. /\ ListOK(c) /\ A \in CommandLists /\ e \in CommandLists /\ Agree(c, A, 1)
      /\ Len(e) = Len(A) /\ \A n \in 1 .. Len(A) - 1 : e[n] = A[n]
      /\ a \in Seq(Strings) /\ t \in Types /\ e[Len(A)].type = t
      /\ AgreeArgs(a, Args(e), 1)
  BY <1>1, <1>2, <1>3, <1>4, <1>5 DEF a
<1>8. Agree(Changed(c, [type |-> t, argv |-> a]), e, 1)
  BY ONLY <1>7, AgreeSet
<1>9. Agree(Ended(t), e, 1)
  BY <1>6, <1>8 DEF a
<1>10. /\ ListOK(Ended(t)) /\ Separated(t) = Append(Ended(t), NewCommand)
  <2>1. ListOK(Ended(t))
    BY <1>1, EndedOK
  <2>2. Separated(t) = Append(Ended(t), NewCommand)
    BY DEF Separated, Ended
  <2> QED
    BY <2>1, <2>2
<1>11. NewCommand \in [type : Types, argv : Seq(Strings)] /\ NewCommand \in Command
       /\ AgreeCommand(NewCommand, NewCommand, 1)
  <2>1. <<>> \in Seq(Chars) /\ Len(<<>>) = 0
    BY EmptySeq
  <2>2. << <<>> >> \in Seq(Seq(Chars)) /\ Len(<< <<>> >>) = 1 /\ << <<>> >>[1] = <<>>
    BY <2>1
  <2>3. NewCommand \in Command
    BY <2>2 DEF NewCommand, Command, Types
  <2>4. Holds(<<>>, <<>>, 1)
    BY <2>1, Exactly
  <2>5. NewCommand.argv = << <<>> >>
    BY DEF NewCommand
  <2>6. AgreeArgs(NewCommand.argv, NewCommand.argv, 1)
    <3> DEFINE q == NewCommand.argv
    <3>1. Len(q) = 1 /\ q[1] = <<>>
      BY <2>2, <2>5
    <3> HIDE DEF q
    <3>2. \A m \in 1 .. Len(q) : m = 1
      BY <3>1
    <3> QED
      BY <2>4, <3>1, <3>2 DEF AgreeArgs, q
  <2> QED
    BY <2>3, <2>6, NewCommandOK DEF AgreeCommand
<1>12. Agree(Append(Ended(t), NewCommand), Append(e, NewCommand), 1)
  <2> DEFINE S == [type : Types, argv : Seq(Strings)]  x == Ended(t)  z == NewCommand
  <2>1. /\ x \in Seq(S) /\ e \in Seq(Command) /\ z \in S /\ z \in Command
        /\ Agree(x, e, 1) /\ AgreeCommand(z, z, 1)
    BY <1>3, <1>9, <1>10, <1>11 DEF ListOK, CommandLists
  <2> HIDE DEF S, x, z
  <2>2. Agree(Append(x, z), Append(e, z), 1)
    BY ONLY <2>1, AgreeAppend
  <2> QED
    BY <2>2 DEF x, z
<1>13. Append(e, NewCommand) = With(Append(e, Bare), <<>>)
  BY <1>3, BareBegun
<1>14. Last(Args(Separated(t))) = <<>>
  <2>1. Args(Separated(t)) = << <<>> >>
    BY <1>1, EndedArgs
  <2> QED
    BY <2>1 DEF Last
<1> QED
  BY <1>1, <1>9, <1>10, <1>12, <1>13, <1>14 DEF e, A

-----------------------------------------------------------------------------
(* What the rest of the shell reads *)

LEMMA CStringIs ==
    ASSUME NEW t \in Seq(Chars), NEW a \in Strings, NEW j \in Nat, Holds(a, t, j)
    PROVE  CString(a) = t
<1> DEFINE M == {m \in DOMAIN a : a[m] = Nul}
           N == {n - 1 : n \in M} \cup {Len(a)}
<1>1. /\ Len(a) \in Nat /\ Len(t) \in Nat /\ DOMAIN a = 1 .. Len(a)
      /\ \A i \in 1 .. Len(t) : t[i] \in Chars
      /\ a \in Seq(Chars \cup {Nul})
  <2>1. a \in Seq(Chars \cup {Nul})
    BY DEF Strings
  <2> QED
    BY <2>1, LenProperties, ElementOfSeq
<1>2. Nul \notin Chars
  BY DEF Nul, Chars, Digits
<1>3. \A m \in M : m \in 1 .. Len(a) /\ m > Len(t)
  <2> SUFFICES ASSUME NEW m \in M PROVE m \in 1 .. Len(a) /\ m > Len(t)
    OBVIOUS
  <2>1. m \in 1 .. Len(a) /\ a[m] = Nul
    BY <1>1
  <2>2. m \notin 1 .. Len(t)
    BY <1>1, <1>2, <2>1 DEF Holds
  <2> QED
    BY <1>1, <2>1, <2>2
<1>4. N \subseteq Nat /\ \A n \in N : Len(t) <= n
  <2> SUFFICES ASSUME NEW n \in N PROVE n \in Nat /\ Len(t) <= n
    OBVIOUS
  <2>1. CASE n = Len(a)
    BY <1>1, <2>1 DEF Holds
  <2>2. CASE n # Len(a)
    <3>1. PICK m \in M : n = m - 1
      BY <2>2
    <3>2. m \in 1 .. Len(a) /\ m > Len(t)
      BY <1>3
    <3> QED
      BY <1>1, <3>1, <3>2
  <2> QED
    BY <2>1, <2>2
<1>5. Len(t) \in N
  <2>1. CASE Len(t) = Len(a)
    BY <2>1
  <2>2. CASE Len(t) < Len(a)
    <3>1. Len(t) + 1 \in M
      BY <1>1, <2>2 DEF Holds
    <3>2. Len(t) = (Len(t) + 1) - 1
      BY <1>1
    <3> HIDE DEF M
    <3> QED
      BY <3>1, <3>2
  <2> QED
    BY <1>1, <2>1, <2>2 DEF Holds
<1>6. Min(N) \in N /\ \A n \in N : Min(N) <= n
  <2>1. N # {}
    BY <1>5
  <2> HIDE DEF N
  <2> QED
    BY <1>4, <2>1, MinIsLeast
<1>7. Min(N) = Len(t)
  <2> HIDE DEF N
  <2>1. Min(N) \in Nat /\ Len(t) <= Min(N) /\ Min(N) <= Len(t)
    BY <1>4, <1>5, <1>6
  <2> QED
    BY <1>1, <2>1
<1>8. CString(a) = SubSeq(a, 1, Len(t))
  BY <1>7 DEF CString
<1>9. \A i \in 1 .. Len(t) : a[i] = t[i]
  BY DEF Holds
<1> DEFINE s == SubSeq(a, 1, Len(t))
<1>10. s \in Seq(Chars) /\ Len(s) = Len(t) /\ \A i \in 1 .. Len(s) : s[i] = t[i]
  <2> DEFINE k == Len(t)
  <2>1. k \in Int /\ 1 \in Int /\ \A i \in 1 .. k : a[i] \in Chars
    BY <1>1, <1>9
  <2> HIDE DEF k
  <2>2. /\ SubSeq(a, 1, k) \in Seq(Chars)
        /\ Len(SubSeq(a, 1, k)) = IF 1 <= k THEN k - 1 + 1 ELSE 0
        /\ \A i \in 1 .. k - 1 + 1 : SubSeq(a, 1, k)[i] = a[1 + i - 1]
    BY ONLY <2>1, SubSeqProperties
  <2>3. k \in Nat /\ k - 1 + 1 = k /\ \A i \in 1 .. k : 1 + i - 1 = i
    BY <1>1 DEF k
  <2>4. Len(SubSeq(a, 1, k)) = k
    BY <2>2, <2>3
  <2>5. \A i \in 1 .. k : SubSeq(a, 1, k)[i] = a[i]
    BY <2>2, <2>3
  <2> QED
    BY <1>9, <2>2, <2>4, <2>5 DEF k
<1> HIDE DEF s
<1>11. s \in Seq(Chars) /\ t \in Seq(Chars) /\ Len(s) = Len(t) /\ \A i \in 1 .. Len(s) : s[i] = t[i]
  BY <1>10
<1>12. s = t
  BY ONLY <1>11, SeqEqual
<1> QED
  BY <1>8, <1>12 DEF s

ShownOf(c) == [n \in DOMAIN c |->
                  [type |-> c[n].type,
                   argv |-> [m \in DOMAIN c[n].argv |-> CString(c[n].argv[m])]]]

LEMMA ShownIs ==
    ASSUME NEW c, ListOK(c), NEW d \in CommandLists, NEW j \in Nat, Agree(c, d, j)
    PROVE  ShownOf(c) = d
<1>1. /\ DOMAIN c = 1 .. Len(c) /\ Len(c) = Len(d)
      /\ \A n \in 1 .. Len(c) : AgreeCommand(c[n], d[n], j)
  BY ListIs, LenProperties DEF Agree
<1>2. d \in Seq(Command) /\ d = [n \in 1 .. Len(d) |-> d[n]]
  BY LenProperties DEF CommandLists
<1>3. ASSUME NEW n \in 1 .. Len(d)
      PROVE  [type |-> c[n].type,
              argv |-> [m \in DOMAIN c[n].argv |-> CString(c[n].argv[m])]] = d[n]
  <2> DEFINE a == c[n].argv  b == d[n].argv
  <2>1. /\ c[n].type = d[n].type /\ AgreeArgs(a, b, j)
        /\ a \in Seq(Strings) /\ b \in Seq(Seq(Chars)) /\ d[n] \in Command
    BY <1>1, ListIs, CommandListFacts DEF AgreeCommand
  <2> HIDE DEF a, b
  <2>2. DOMAIN a = 1 .. Len(b) /\ Len(a) = Len(b)
    BY <2>1, LenProperties DEF AgreeArgs
  <2>3. \A m \in 1 .. Len(b) : CString(a[m]) = b[m]
    <3> SUFFICES ASSUME NEW m \in 1 .. Len(b) PROVE CString(a[m]) = b[m]
      OBVIOUS
    <3>1. a[m] \in Strings /\ b[m] \in Seq(Chars) /\ Holds(a[m], b[m], j)
      BY <2>1, <2>2, ElementOfSeq DEF AgreeArgs
    <3>2. j \in Nat
      OBVIOUS
    <3> QED
      BY ONLY <3>1, <3>2, CStringIs
  <2>4. b = [m \in 1 .. Len(b) |-> b[m]]
    BY <2>1, LenProperties
  <2>5. [m \in DOMAIN a |-> CString(a[m])] = b
    BY <2>2, <2>3, <2>4
  <2>6. d[n] = [type |-> d[n].type, argv |-> b]
    BY <2>1 DEF Command, b
  <2> QED
    BY <2>1, <2>5, <2>6 DEF a
<1>4. ShownOf(c) = [n \in 1 .. Len(d) |->
                  [type |-> c[n].type,
                   argv |-> [m \in DOMAIN c[n].argv |-> CString(c[n].argv[m])]]]
  BY <1>1 DEF ShownOf
<1>5. ShownOf(c) = [n \in 1 .. Len(d) |-> d[n]]
  BY <1>3, <1>4
<1> QED
  BY <1>2, <1>5

-----------------------------------------------------------------------------
(* filpinfo and the tokens *)

Mark(q) == CASE q = "none" -> "none" [] q = "single" -> "'" [] q = "double" -> "dq"

(* At the n-th character of b, with the list c, filpinfo has what the      *)
(* characters before it stand for; where no word goes on, the next         *)
(* character is neither a blank nor the second half of an operator.        *)
Matches(b, n, q, c) ==
    LET l == Lexed(b)[n]
    IN  /\ l.quote = Mark(q)
        /\ Agree(c, Standing(l), 1) /\ Last(Args(c)) = Last(Args(Standing(l)))
        /\ l.glue # "word" => n < Len(b) /\ b[n + 1] \notin {"sp", l.glue}

LEMMA LexedHere ==
    ASSUME NEW b \in Seq(Chars), NEW n \in Nat, n < Len(b)
    PROVE  /\ Len(b) \in Nat /\ n + 1 \in Nat /\ n + 1 <= Len(b) /\ (n + 1) - 1 = n
           /\ n \in 0 .. Len(b) /\ n + 1 \in 0 .. Len(b) /\ n + 1 \in 1 .. Len(b)
           /\ Lexed(b)[n] \in Lexers /\ Lexed(b)[n + 1] \in Lexers /\ b[n + 1] \in Chars
           /\ Lexed(b)[n + 1] = LexChar(Lexed(b)[n], b[n + 1])
<1>1. /\ Len(b) \in Nat
      /\ \A m \in 1 .. Len(b) : Lexed(b)[m] = LexChar(Lexed(b)[m - 1], b[m])
      /\ \A m \in 0 .. Len(b) : Lexed(b)[m] \in Lexers
  BY LexedIs
<1>2. /\ n + 1 \in Nat /\ n + 1 <= Len(b) /\ (n + 1) - 1 = n
      /\ n \in 0 .. Len(b) /\ n + 1 \in 0 .. Len(b) /\ n + 1 \in 1 .. Len(b)
  BY <1>1
<1>3. Lexed(b)[n + 1] = LexChar(Lexed(b)[(n + 1) - 1], b[n + 1])
  BY <1>1, <1>2
<1> QED
  BY <1>1, <1>2, <1>3, ElementOfSeq

LEMMA WordLexer ==
    ASSUME NEW l \in Lexers, NEW y \in Lexers, NEW s \in Seq(Chars),
           y.glue = "word", y.toks = GrownToks(l, s)
    PROVE  \E base \in Seq(Tokens), u \in Seq(Chars) :
              /\ Standing(l) = With(Assembly(base), u) /\ Standing(y) = With(Assembly(base), u \o s)
              /\ y.toks = Append(base, Tok("word", u \o s)) /\ u \o s \in Seq(Chars)
<1>1. PICK base \in Seq(Tokens), u \in Seq(Chars) :
         /\ Standing(l) = With(Assembly(base), u)
         /\ GrownToks(l, s) = Append(base, Tok("word", u \o s))
         /\ Assembly(GrownToks(l, s)) = With(Assembly(base), u \o s)
  BY Growing
<1>2. Standing(y) = With(Assembly(base), u \o s)
  BY <1>1 DEF Standing
<1>3. u \o s \in Seq(Chars)
  BY ConcatProperties
<1> QED
  BY <1>1, <1>2, <1>3

(* A character of a word is written. *)
LEMMA WriteMatches ==
    ASSUME NEW b \in Seq(Chars), NEW n \in Nat, n < Len(b), NEW q \in {"none", "single", "double"},
           NEW c, ListOK(c), Matches(b, n, q, c), Good(b, n + 1),
           \/ q # "none" /\ b[n + 1] # Mark(q)
           \/ q = "none" /\ b[n + 1] \notin {"'", "dq", "sp", "&", "|"}
    PROVE  Writable(c, 1) /\ Matches(b, n + 1, q, Written(c, b[n + 1], 1))
<1> DEFINE l == Lexed(b)[n]  x == b[n + 1]  y == Lexed(b)[n + 1]  s == <<x>>
<1>1. l \in Lexers /\ y \in Lexers /\ x \in Chars /\ y = LexChar(l, x)
  BY LexedHere
<1>2. /\ l.quote = Mark(q) /\ Agree(c, Standing(l), 1)
      /\ Last(Args(c)) = Last(Args(Standing(l)))
  BY DEF Matches
<1>3. (Mark(q) = "none") = (q = "none")
  BY DEF Mark
<1>4. y = Grown(l, s)
  <2>1. l.quote \notin {"none", x} \/ (l.quote = "none" /\ x \notin {"'", "dq", "sp", "&", "|"})
    BY <1>2, <1>3
  <2> HIDE DEF l, x, y
  <2> QED
    BY <1>1, <2>1, LexCharIs
<1>5. GoodToks(y.toks)
  BY DEF Good
<1> HIDE DEF l, x, y
<1>6. s \in Seq(Chars)
  BY <1>1
<1>7. y = [quote |-> l.quote, glue |-> "word", toks |-> GrownToks(l, s)]
  BY <1>1, <1>4, <1>6, GrownIs
<1>8. y.quote = l.quote /\ y.glue = "word" /\ y.toks = GrownToks(l, s)
  <2> DEFINE t == GrownToks(l, s)
  <2> HIDE DEF t
  <2> QED
    BY <1>7 DEF t
<1> HIDE DEF s
<1>9. PICK base \in Seq(Tokens), u \in Seq(Chars) :
         /\ Standing(l) = With(Assembly(base), u) /\ Standing(y) = With(Assembly(base), u \o s)
         /\ y.toks = Append(base, Tok("word", u \o s)) /\ u \o s \in Seq(Chars)
  BY <1>1, <1>6, <1>8, WordLexer
<1>10. Assembly(base) \in CommandLists
  BY AssemblyType
<1>11. Last(Args(c)) = u
  <2> DEFINE d == Assembly(base)
  <2>1. Args(With(d, u)) = Append(Args(d), u) /\ Args(d) \in Seq(Seq(Chars))
    BY <1>10, WithIs
  <2> DEFINE p == Args(d)
  <2> HIDE DEF p
  <2>2. p \in Seq(Seq(Chars)) /\ u \in Seq(Chars)
    BY <2>1 DEF p
  <2>3. Len(Append(p, u)) = Len(p) + 1 /\ Append(p, u)[Len(p) + 1] = u
    BY ONLY <2>2, AppendProperties
  <2> QED
    BY <1>2, <1>9, <2>1, <2>3 DEF Last, p
<1>12. Writable(c, 1)
  <2> DEFINE w == u \o s  t == Tok("word", w)
  <2>1. t \in Tokens /\ t.text = w
    BY <1>9 DEF Tokens, Tok, Kinds
  <2> HIDE DEF t
  <2>2. MayFollow(base, t)
    <3>1. GoodToks(Append(base, t))
      BY <1>5, <1>9 DEF t
    <3> QED
      BY <2>1, <3>1, GoodAppend
  <2>3. Len(w) = Len(u) + 1 /\ Len(u) \in Nat
    BY <1>6, ConcatProperties, LenProperties DEF s
  <2>4. Len(u) + 1 <= MaxEachArg
    BY <2>1, <2>2, <2>3, SizeFacts DEF MayFollow
  <2>5. Args(c) # <<>>
    <3>1. Standing(l) \in CommandLists /\ Args(Standing(l)) # <<>>
      BY <1>1, StandingIs
    <3> QED
      BY <1>2, <3>1, AgreeLast
  <2> QED
    BY <1>11, <2>4, <2>5 DEF Writable
<1>13. /\ Agree(Written(c, x, 1), With(Assembly(base), u \o <<x>>), 1)
       /\ Last(Args(Written(c, x, 1))) = u \o <<x>>
  <2> DEFINE d == Assembly(base)
  <2>1. /\ ListOK(c) /\ d \in CommandLists /\ u \in Seq(Chars)
        /\ Agree(c, With(d, u), 1) /\ Last(Args(c)) = u /\ Writable(c, 1) /\ x \in Chars
    BY <1>1, <1>2, <1>9, <1>10, <1>11, <1>12
  <2> HIDE DEF d
  <2>2. /\ Agree(Written(c, x, 1), With(d, u \o <<x>>), 1)
        /\ Last(Args(Written(c, x, 1))) = u \o <<x>>
    BY ONLY <2>1, WriteAgrees
  <2> QED
    BY <2>2 DEF d
<1>14. Last(Args(With(Assembly(base), u \o s))) = u \o s
  <2> DEFINE d == Assembly(base)  v == u \o s  p == Args(d)
  <2> HIDE DEF v
  <2>1. Args(With(d, v)) = Append(p, v) /\ p \in Seq(Seq(Chars)) /\ v \in Seq(Chars)
    BY <1>9, <1>10, WithIs DEF v
  <2> HIDE DEF p
  <2>2. Len(Append(p, v)) = Len(p) + 1 /\ Append(p, v)[Len(p) + 1] = v
    BY ONLY <2>1, AppendProperties
  <2> QED
    BY <2>1, <2>2 DEF Last, v
<1>15. /\ y.quote = Mark(q)
       /\ Agree(Written(c, x, 1), Standing(y), 1)
       /\ Last(Args(Written(c, x, 1))) = Last(Args(Standing(y)))
       /\ y.glue = "word"
  BY <1>2, <1>8, <1>9, <1>13, <1>14 DEF s
<1>16. Matches(b, n + 1, q, Written(c, x, 1))
  BY <1>15 DEF Matches, y
<1> QED
  BY <1>12, <1>16 DEF x

(* A quote opens, and is closed. *)
LEMMA OpenMatches ==
    ASSUME NEW b \in Seq(Chars), NEW n \in Nat, n < Len(b), NEW q \in {"single", "double"},
           NEW c, Matches(b, n, "none", c), b[n + 1] = Mark(q)
    PROVE  Matches(b, n + 1, q, c)
<1> DEFINE l == Lexed(b)[n]  x == b[n + 1]  y == Lexed(b)[n + 1]  s == <<>>
<1>1. l \in Lexers /\ y \in Lexers /\ x \in Chars /\ y = LexChar(l, x)
  BY LexedHere
<1>2. /\ l.quote = "none" /\ Agree(c, Standing(l), 1)
      /\ Last(Args(c)) = Last(Args(Standing(l)))
  BY DEF Matches, Mark
<1>3. x \in {"'", "dq"} /\ x = Mark(q)
  BY DEF Mark
<1> HIDE DEF l, x, y
<1>4. y = [quote |-> x, glue |-> "word", toks |-> GrownToks(l, s)]
  BY <1>1, <1>2, <1>3, LexCharIs
<1>5. s \in Seq(Chars)
  BY EmptySeq
<1>6. y.quote = x /\ y.glue = "word" /\ y.toks = GrownToks(l, s)
  <2> DEFINE t == GrownToks(l, s)
  <2> HIDE DEF t
  <2> QED
    BY <1>4 DEF t
<1> HIDE DEF s
<1>7. PICK base \in Seq(Tokens), u \in Seq(Chars) :
         /\ Standing(l) = With(Assembly(base), u) /\ Standing(y) = With(Assembly(base), u \o s)
         /\ y.toks = Append(base, Tok("word", u \o s)) /\ u \o s \in Seq(Chars)
  BY <1>1, <1>5, <1>6, WordLexer
<1>8. u \o s = u
  BY ConcatEmptySeq DEF s
<1>9. Standing(y) = Standing(l)
  BY <1>7, <1>8
<1> QED
  BY <1>2, <1>3, <1>6, <1>9 DEF Matches, y

LEMMA CloseMatches ==
    ASSUME NEW b \in Seq(Chars), NEW n \in Nat, n < Len(b), NEW q \in {"single", "double"},
           NEW c, Matches(b, n, q, c), b[n + 1] = Mark(q)
    PROVE  Matches(b, n + 1, "none", c)
<1> DEFINE l == Lexed(b)[n]  x == b[n + 1]  y == Lexed(b)[n + 1]
<1>1. l \in Lexers /\ y \in Lexers /\ x \in Chars /\ y = LexChar(l, x)
  BY LexedHere
<1>2. /\ l.quote = x /\ Agree(c, Standing(l), 1)
      /\ Last(Args(c)) = Last(Args(Standing(l)))
  BY DEF Matches
<1>3. x # "none"
  BY DEF Mark
<1> HIDE DEF l, x, y
<1>4. l.glue = "word"
  BY <1>1, <1>2, <1>3, LexerFacts
<1>5. y = [quote |-> "none", glue |-> l.glue, toks |-> l.toks]
  BY <1>1, <1>2, LexCharIs
<1>6. y.quote = "none" /\ y.glue = l.glue /\ y.toks = l.toks
  BY ONLY <1>5
<1>7. Standing(y) = Standing(l)
  BY <1>6 DEF Standing
<1> QED
  BY <1>2, <1>4, <1>6, <1>7 DEF Matches, y, Mark

(* An operator, of one character or of two *)
LEMMA OpStanding ==
    ASSUME NEW base \in Seq(Tokens), NEW k \in Kinds \ {"word"},
           NEW y \in Lexers, y.glue # "word", y.toks = Append(base, Tok(k, <<>>))
    PROVE  /\ TypeOf(k) \in Types \ {"SINGLE"}
           /\ Assembly(y.toks) = Append(Closed(Assembly(base), TypeOf(k)), Bare)
           /\ Standing(y) = With(Append(Closed(Assembly(base), TypeOf(k)), Bare), <<>>)
<1> DEFINE t == Tok(k, <<>>)  A == Assembly(base)
<1>1. t \in Tokens /\ t.kind = k /\ k # "word"
  BY EmptySeq DEF Tokens, Tok
<1> HIDE DEF t
<1>2. A \in CommandLists /\ Assembly(Append(base, t)) = Assembled(A, t)
  BY <1>1, AssemblyType, AssemblyAppend
<1> HIDE DEF A
<1>3. /\ TypeOf(k) \in Types \ {"SINGLE"}
      /\ Assembled(A, t) = Append(Closed(A, TypeOf(k)), Bare)
  BY <1>1, <1>2, AssembledIs DEF Closed
<1>4. Assembly(y.toks) = Append(Closed(A, TypeOf(k)), Bare)
  BY <1>2, <1>3 DEF t
<1> QED
  BY <1>3, <1>4 DEF Standing, A

(* Where an operator is read on a good line, a word that is not empty is   *)
(* before it.                                                              *)
LEMMA OpHere ==
    ASSUME NEW b \in Seq(Chars), NEW n \in Nat, n < Len(b), NEW c, Matches(b, n, "none", c),
           Good(b, n + 1), b[n + 1] \in {"&", "|"}
    PROVE  LET l == Lexed(b)[n]  y == Lexed(b)[n + 1]
           IN  /\ l.toks # <<>> /\ l.toks[Len(l.toks)].kind = "word"
               /\ l.toks[Len(l.toks)].text # <<>>
               /\ y.quote = "none" /\ y.glue = b[n + 1]
               /\ y.toks = Append(l.toks, Tok(b[n + 1], <<>>))
<1> DEFINE l == Lexed(b)[n]  x == b[n + 1]  y == Lexed(b)[n + 1]  t == Tok(x, <<>>)
<1>1. l \in Lexers /\ y \in Lexers /\ x \in Chars /\ y = LexChar(l, x)
  BY LexedHere
<1>2. l.quote = "none" /\ (l.glue # "word" => x # l.glue)
  BY DEF Matches, Mark
<1>3. x \in {"&", "|"} /\ GoodToks(y.toks)
  BY DEF Good
<1> HIDE DEF l, x, y
<1>4. l.glue # x
  BY <1>2, <1>3
<1>5. y = [quote |-> "none", glue |-> x, toks |-> Append(l.toks, t)]
  BY <1>1, <1>2, <1>3, <1>4, LexCharIs DEF OpToks
<1>6. y.quote = "none" /\ y.glue = x /\ y.toks = Append(l.toks, t)
  <2> HIDE DEF t
  <2> QED
    BY ONLY <1>5
<1>7. t \in Tokens /\ t.kind = x /\ l.toks \in Seq(Tokens)
  BY <1>1, <1>3, LexerFacts, EmptySeq DEF Tokens, Tok, Kinds
<1>8. MayFollow(l.toks, t)
  <2> HIDE DEF t
  <2>1. GoodToks(Append(l.toks, t))
    BY <1>3, <1>6
  <2> QED
    BY <1>7, <2>1, GoodAppend
<1>9. ~IsWord(t)
  BY <1>3, <1>7 DEF IsWord
<1>10. l.toks # <<>> /\ l.toks[Len(l.toks)].kind = "word" /\ l.toks[Len(l.toks)].text # <<>>
  BY <1>8, <1>9 DEF MayFollow, IsWord
<1> QED
  BY <1>6, <1>10 DEF l, x, y

LEMMA SecondHere ==
    ASSUME NEW b \in Seq(Chars), NEW n \in Nat, n + 1 < Len(b), NEW c, Matches(b, n, "none", c),
           Good(b, n + 1), b[n + 1] \in {"&", "|"}, b[n + 2] = b[n + 1]
    PROVE  LET l == Lexed(b)[n]  z == Lexed(b)[n + 2]
           IN  /\ z \in Lexers /\ z.quote = "none" /\ z.glue = ""
               /\ z.toks = Append(l.toks, Tok(Doubled(b[n + 1]), <<>>))
<1> DEFINE l == Lexed(b)[n]  x == b[n + 1]  y == Lexed(b)[n + 1]  z == Lexed(b)[n + 2]
           t == Tok(x, <<>>)  d == Tok(Doubled(x), <<>>)
<1>1. /\ l \in Lexers /\ y \in Lexers /\ z \in Lexers /\ x \in Chars /\ z = LexChar(y, x)
      /\ x \in {"&", "|"}
  <2>1. n < Len(b) /\ n + 1 \in Nat /\ (n + 1) + 1 = n + 2
    BY LenProperties
  <2>2. l \in Lexers /\ y \in Lexers /\ x \in Chars
    BY <2>1, LexedHere
  <2>3. z \in Lexers /\ z = LexChar(y, b[n + 2])
    BY <2>1, LexedHere
  <2> QED
    BY <2>2, <2>3
<1>2. y.quote = "none" /\ y.glue = x /\ y.toks = Append(l.toks, t)
  <2>1. n < Len(b)
    BY LenProperties
  <2> QED
    BY <2>1, OpHere
<1> HIDE DEF l, x, y, z
<1>3. z = [quote |-> "none", glue |-> "", toks |-> Append(Front(y.toks), d)]
  BY <1>1, <1>2, LexCharIs DEF OpToks
<1>4. z.quote = "none" /\ z.glue = "" /\ z.toks = Append(Front(y.toks), d)
  <2> HIDE DEF d
  <2> QED
    BY ONLY <1>3
<1>5. Front(y.toks) = l.toks
  <2> DEFINE T == l.toks
  <2>1. T \in Seq(Tokens) /\ t \in Tokens
    BY <1>1, LexerFacts, EmptySeq DEF Tokens, Tok, Kinds
  <2> HIDE DEF T, t
  <2>2. Front(Append(T, t)) = T
    BY ONLY <2>1, FrontOfAppend
  <2> QED
    BY <1>2, <2>2 DEF T, t
<1> QED
  BY <1>1, <1>4, <1>5 DEF l, x, z, d

(* Where the scan resumes behind blanks, with a list that agrees with what *)
(* was there before them                                                   *)
LEMMA ResumeMatches ==
    ASSUME NEW b \in Seq(Chars), NEW n \in Nat, n <= Len(b), ~AtEnd(b, n),
           Lexed(b)[n].quote = "none", Lexed(b)[n].glue # "word",
           n < Len(b) => b[n + 1] # Lexed(b)[n].glue,
           NEW c, Agree(c, Standing(Lexed(b)[n]), 1),
           Last(Args(c)) = Last(Args(Standing(Lexed(b)[n])))
    PROVE  Matches(b, NonBlank(b, n), "none", c)
<1> DEFINE m == NonBlank(b, n)  l == Lexed(b)[n]  y == Lexed(b)[m]
<1>1. /\ m \in n .. Len(b) - 1 /\ b[m + 1] # "sp"
      /\ \A i \in n .. m - 1 : b[i + 1] = "sp"
  BY NonBlankFound
<1>2. Len(b) \in Nat /\ n \in 0 .. Len(b)
  BY LenProperties
<1> HIDE DEF m
<1>3. m \in n .. Len(b) /\ m \in Nat /\ m < Len(b) /\ n <= m
  BY <1>1, <1>2
<1>4. \A i \in n + 1 .. m : b[i] = "sp"
  <2> SUFFICES ASSUME NEW i \in n + 1 .. m PROVE b[i] = "sp"
    OBVIOUS
  <2>1. i - 1 \in n .. m - 1 /\ (i - 1) + 1 = i
    BY <1>3
  <2> QED
    BY <1>1, <2>1
<1>5. y.toks = l.toks /\ y.quote = "none" /\ y.glue = IF m = n THEN l.glue ELSE ""
  BY <1>2, <1>3, <1>4, BlanksSkipped
<1>6. b[m + 1] \in Chars /\ "" \notin Chars
  <2>1. m + 1 \in 1 .. Len(b)
    BY <1>1, <1>2, <1>3
  <2> QED
    BY <2>1, ElementOfSeq DEF Chars, Digits
<1>7. y.glue # "word" /\ b[m + 1] # y.glue
  <2>1. CASE m = n
    BY <1>3, <1>5, <2>1
  <2>2. CASE m # n
    BY <1>5, <1>6, <2>2
  <2> QED
    BY <2>1, <2>2
<1>8. Standing(y) = Standing(l)
  BY <1>5, <1>7 DEF Standing
<1> QED
  BY <1>1, <1>3, <1>5, <1>7, <1>8 DEF Matches, Mark, m

-----------------------------------------------------------------------------
(* What is handed over *)

(* The last word of good tokens is the last argument, and leaves room.     *)
LEMMA LastWord ==
    ASSUME NEW T \in Seq(Tokens), T # <<>>, T[Len(T)].kind = "word", GoodToks(T)
    PROVE  /\ Assembly(T) \in CommandLists /\ Args(Assembly(T)) # <<>>
           /\ Len(Args(Assembly(T))) \in Nat /\ Len(Args(Assembly(T))) < Slots
           /\ Len(Last(Args(Assembly(T)))) \in Nat
           /\ Len(Last(Args(Assembly(T)))) + 2 <= MaxEachArg
<1> DEFINE b == Front(T)  e == T[Len(T)]  u == e.text  A == Assembly(T)  p == Args(Assembly(b))
<1>1. b \in Seq(Tokens) /\ e \in Tokens /\ T = Append(b, e) /\ Len(T) \in Nat \ {0}
  BY FrontFacts, FrontAndLast
<1>2. u \in Seq(Chars) /\ e = Tok("word", u)
  BY <1>1 DEF Tokens, Tok
<1>3. Len(u) + 2 <= MaxEachArg
  BY <1>1 DEF GoodToks, Short
<1>4. A \in CommandLists /\ Len(Args(A)) < Slots
  <2>1. A \in CommandLists /\ FewArgs(A)
    BY AssemblyType DEF GoodToks
  <2> HIDE DEF A
  <2> QED
    BY <2>1, CommandListFacts DEF FewArgs
<1> HIDE DEF b, u
<1>5. T = Append(b, Tok("word", u))
  BY <1>1, <1>2
<1>6. A = With(Assembly(b), u)
  BY <1>1, <1>2, <1>5, WordAssembled
<1>7. Args(A) = Append(p, u) /\ p \in Seq(Seq(Chars)) /\ u \in Seq(Chars)
  <2>1. Assembly(b) \in CommandLists
    BY <1>1, AssemblyType
  <2> HIDE DEF A
  <2> QED
    BY <1>2, <1>6, <2>1, WithIs
<1> HIDE DEF p, A
<1>8. /\ Len(Append(p, u)) = Len(p) + 1 /\ Append(p, u)[Len(p) + 1] = u
      /\ Append(p, u) \in Seq(Seq(Chars)) /\ Append(p, u) # <<>>
  BY ONLY <1>7, AppendProperties
<1>9. Last(Args(A)) = u /\ Args(A) # <<>> /\ Len(Args(A)) \in Nat
  BY <1>7, <1>8, LenProperties DEF Last
<1>10. Len(u) \in Nat
  BY <1>7, LenProperties
<1> QED
  BY <1>3, <1>4, <1>9, <1>10 DEF A

(* Between words, a blank ends one argument and begins another.            *)
LEMMA BlankMatches ==
    ASSUME NEW b \in Seq(Chars), NEW n \in Nat, n < Len(b), NEW c, ListOK(c),
           Matches(b, n, "none", c), Good(b, n + 1), b[n + 1] = "sp", ~AtEnd(b, n)
    PROVE  LET e == Written(c, Nul, 1)
           IN  /\ Writable(c, 1) /\ Len(Args(c)) < Slots
               /\ Matches(b, NonBlank(b, n), "none", WithArgs(e, Append(Args(e), <<>>)))
<1> DEFINE l == Lexed(b)[n]  m == NonBlank(b, n)  y == Lexed(b)[m]  d == Standing(l)
           e == Written(c, Nul, 1)  f == WithArgs(e, Append(Args(e), <<>>))
<1>1. /\ l \in Lexers /\ Len(b) \in Nat /\ n + 1 \in 0 .. Len(b) /\ n \in 0 .. Len(b)
      /\ n \in 0 .. n + 1 /\ n <= Len(b)
  BY LexedHere
<1>2. /\ l.quote = "none" /\ l.glue = "word" /\ Agree(c, d, 1)
      /\ Last(Args(c)) = Last(Args(d))
  BY DEF Matches, Mark
<1>3. GoodToks(l.toks)
  <2>1. Good(b, n)
    BY <1>1, GoodGoesBack
  <2> QED
    BY <2>1 DEF Good
<1>4. /\ m \in n .. Len(b) - 1 /\ b[m + 1] # "sp"
      /\ \A i \in n .. m - 1 : b[i + 1] = "sp"
  BY NonBlankFound
<1> HIDE DEF m, l
<1>5. /\ d \in CommandLists /\ Args(d) # <<>> /\ Len(Args(d)) < Slots
      /\ Len(Last(Args(d))) \in Nat /\ Len(Last(Args(d))) + 2 <= MaxEachArg
  <2>1. /\ l.toks \in Seq(Tokens) /\ l.toks # <<>> /\ l.toks[Len(l.toks)].kind = "word"
        /\ d = Assembly(l.toks)
    BY <1>1, <1>2, LexerFacts DEF Standing
  <2> QED
    BY <1>3, <2>1, LastWord
<1> HIDE DEF d
<1>6. Writable(c, 1) /\ Len(Args(c)) < Slots
  <2>1. Args(c) # <<>> /\ Len(Args(c)) = Len(Args(d))
    BY <1>2, <1>5, AgreeLast
  <2>2. Len(Last(Args(c))) + 1 <= MaxEachArg
    BY <1>2, <1>5, SizeFacts
  <2> QED
    BY <1>5, <2>1, <2>2 DEF Writable
<1>7. Agree(e, d, 1) /\ ListOK(e)
  <2>1. Nul \in Chars \cup {Nul} /\ 1 \in Nat
    OBVIOUS
  <2>2. ListOK(e)
    BY <1>6, <2>1, WrittenOK
  <2>3. Len(Last(Args(c))) + 1 <= Len(Last(Args(d))) + 1
    BY <1>2, <1>5
  <2>4. Agree(e, d, 1)
    BY <1>2, <1>5, <1>6, <2>1, <2>3, NulAgrees
  <2> QED
    BY <2>2, <2>4
<1>8. Agree(f, With(d, <<>>), 1) /\ Last(Append(Args(e), <<>>)) = <<>>
  <2> HIDE DEF e
  <2> QED
    BY <1>5, <1>7, BlankAgrees
<1>9. Last(Args(f)) = <<>>
  <2> DEFINE a == Append(Args(e), <<>>)  t == e[Len(e)].type
  <2>1. Args(WithArgs(e, a)) = a
    <3>1. /\ e \in Seq([type : Types, argv : Seq(Strings)]) /\ e # <<>>
          /\ Args(e) \in Seq(Strings) /\ t \in Types
      BY <1>7, ListIs
    <3>2. a \in Seq(Strings)
      <4> DEFINE p == Args(e)  w == <<>>
      <4>1. p \in Seq(Strings) /\ w \in Strings
        BY <3>1, EmptySeq DEF Strings
      <4> HIDE DEF p, w
      <4>2. Append(p, w) \in Seq(Strings)
        BY ONLY <4>1, AppendProperties
      <4> QED
        BY <4>2 DEF p, w
    <3>3. WithArgs(e, a) = Changed(e, [type |-> t, argv |-> a])
      BY <1>7, WithArgsChanged
    <3> DEFINE S == [type : Types, argv : Seq(Strings)]  r == [type |-> t, argv |-> a]
    <3>4. r \in S /\ r.argv = a
      BY <3>1, <3>2
    <3> HIDE DEF S, r, a, e
    <3>5. e \in Seq(S) /\ e # <<>> /\ r \in S
      BY <3>1, <3>4 DEF S
    <3>6. Len(Changed(e, r)) = Len(e) /\ Changed(e, r)[Len(e)] = r
      BY ONLY <3>5, ChangedIs
    <3> QED
      BY <3>3, <3>4, <3>6 DEF Args, Last, r
  <2> QED
    BY <1>8, <2>1
<1>10. /\ y.toks = l.toks /\ y.quote = "none" /\ y.glue = ""
       /\ m \in Nat /\ m < Len(b)
  <2>1. m # n /\ m \in n .. Len(b) /\ m \in Nat /\ m < Len(b)
    BY <1>1, <1>4
  <2>2. \A i \in n + 1 .. m : b[i] = "sp"
    <3> SUFFICES ASSUME NEW i \in n + 1 .. m PROVE b[i] = "sp"
      OBVIOUS
    <3>1. i - 1 \in n .. m - 1 /\ (i - 1) + 1 = i
      BY <2>1
    <3> QED
      BY <1>4, <3>1
  <2> QED
    BY <1>1, <1>2, <2>1, <2>2, BlanksSkipped DEF l
<1>11. b[m + 1] \in Chars /\ "" \notin Chars
  <2>1. Len(b) \in Nat /\ m \in Nat /\ m < Len(b)
    BY <1>1, <1>10
  <2>2. m + 1 \in 1 .. Len(b)
    BY ONLY <2>1
  <2> QED
    BY <2>2, ElementOfSeq DEF Chars, Digits
<1>12. Standing(y) = With(d, <<>>)
  BY <1>2, <1>10 DEF Standing, d
<1>13. Last(Args(Standing(y))) = <<>>
  <2> DEFINE w == <<>>  p == Args(d)
  <2>1. Args(With(d, w)) = Append(p, w) /\ p \in Seq(Seq(Chars)) /\ w \in Seq(Chars)
    BY <1>5, EmptySeq, WithIs
  <2> HIDE DEF p, w
  <2>2. Len(Append(p, w)) = Len(p) + 1 /\ Append(p, w)[Len(p) + 1] = w
    BY ONLY <2>1, AppendProperties
  <2> QED
    BY <1>12, <2>1, <2>2 DEF Last, w
<1>14. Matches(b, m, "none", f)
  <2> HIDE DEF f
  <2> QED
    BY <1>4, <1>8, <1>9, <1>10, <1>11, <1>12, <1>13 DEF Matches, Mark
<1> QED
  BY <1>6, <1>14 DEF m

(* done: hands over what the line means. *)
LEMMA DoneMatches ==
    ASSUME NEW c, ListOK(c), NEW d \in CommandLists, Agree(c, d, 1), Args(d) # <<>>,
           Len(Last(Args(d))) \in Nat, Len(Last(Args(d))) + 2 <= MaxEachArg, Done(c)
    PROVE  /\ fate' = "parsed" /\ Shown' = d
           /\ UNCHANGED <<buf, redir, torn>>
<1> DEFINE k == Len(Args(c))
<1>1. /\ AgreeArgs(Args(c), Args(d), 1) /\ Args(c) # <<>> /\ k = Len(Args(d))
      /\ Args(c) \in Seq(Strings) /\ Args(d) \in Seq(Seq(Chars))
  BY AgreeLast, CommandListFacts
<1>2. k \in Nat \ {0} /\ k \in 1 .. k
  <2> DEFINE a == Args(c)
  <2> HIDE DEF a
  <2>1. a \in Seq(Strings) /\ a # <<>>
    BY <1>1 DEF a
  <2>2. Len(a) \in Nat \ {0}
    BY <2>1, LenProperties, EmptySeq
  <2> QED
    BY <2>2 DEF a
<1>3. /\ Len(Last(Args(c))) <= Len(Last(Args(d))) + 1 /\ Len(Last(Args(c))) \in Nat
  <2>1. Holds(Args(c)[k], Args(d)[k], 1)
    BY <1>1, <1>2 DEF AgreeArgs
  <2>2. Args(c)[k] \in Seq(Chars \cup {Nul})
    BY <1>1, <1>2, ElementOfSeq DEF Strings
  <2> QED
    BY <1>1, <2>1, <2>2, LenProperties DEF Holds, Last
<1>4. Writable(c, 1)
  BY <1>1, <1>3, SizeFacts DEF Writable
<1> DEFINE e == IF wrote THEN Written(c, Nul, 1) ELSE c
<1>5. /\ cmds' = e /\ fate' = "parsed" /\ UNCHANGED <<buf, redir, torn>>
  BY <1>4 DEF Done
<1>6. ListOK(e) /\ Agree(e, d, 2)
  <2>1. Agree(c, d, 2)
    BY AgreeMore
  <2>2. Nul \in Chars \cup {Nul} /\ 1 \in Nat /\ 2 \in Nat
    OBVIOUS
  <2>3. Len(Last(Args(c))) + 1 <= Len(Last(Args(d))) + 2
    BY <1>3
  <2>4. Agree(Written(c, Nul, 1), d, 2)
    BY <1>4, <2>1, <2>2, <2>3, NulAgrees
  <2>5. ListOK(Written(c, Nul, 1))
    BY <1>4, <2>2, WrittenOK
  <2> QED
    BY <2>1, <2>4, <2>5
<1> HIDE DEF e
<1>7. ShownOf(e) = d
  BY <1>6, ShownIs
<1>8. Shown' = ShownOf(e)
  BY <1>5 DEF Shown, ShownOf
<1> QED
  BY <1>5, <1>7, <1>8

LEMMA MeaningIs ==
    ASSUME NEW b, NEW T \in Seq(Tokens), Lexed(b)[Len(b)].toks = T
    PROVE  /\ Args(Assembly(T)) # <<>> => Meaning(b) = Assembly(T)
           /\ \A c \in CommandLists : Assembly(T) = Append(c, Bare) => Meaning(b) = c
<1>1. Lex(b).toks = T
  BY DEF Lex
<1>2. Meaning(b) = IF Last(Assembly(T)).argv = <<>> THEN Front(Assembly(T)) ELSE Assembly(T)
  BY <1>1 DEF Meaning
<1>3. ASSUME NEW c \in CommandLists, Assembly(T) = Append(c, Bare)
      PROVE  Meaning(b) = c
  <2>1. c \in Seq(Command) /\ Bare \in Command /\ Bare.argv = <<>>
    BY EmptySeq DEF CommandLists, Command, Bare, Types
  <2> HIDE DEF Bare
  <2>2. Front(Append(c, Bare)) = c /\ Last(Append(c, Bare)) = Bare
    BY <2>1, FrontOfAppend
  <2> QED
    BY <1>2, <1>3, <2>1, <2>2
<1> QED
  BY <1>2, <1>3 DEF Args

-----------------------------------------------------------------------------
(* While the line up to `at` is good, the list has what it stands for.     *)

Match == Matches(buf, at, quote, cmds) /\ target = "argv" /\ redir.type = "NONE"
Fresh ==
    /\ at = 0 /\ quote = "none" /\ target = "argv" /\ cmds = <<NewCommand>>
    /\ redir.type = "NONE"
PlainInv ==
    /\ fate = "start" => Fresh
    /\ fate = "scan" /\ ~torn /\ Good(buf, at) => Match
    /\ ParsesPlainLines

LEMMA PlainScan ==
    ASSUME fate' = "scan", ~torn' /\ Good(buf', at') => Match'
    PROVE  PlainInv'
  BY DEF PlainInv, ParsesPlainLines, Over

LEMMA PlainOver ==
    ASSUME fate' \notin {"start", "scan"}, UNCHANGED <<buf, torn>>,
           ~torn /\ Plain(buf) =>
               fate' = "parsed" /\ Shown' = Meaning(buf) /\ redir'.type = "NONE"
    PROVE  PlainInv'
  BY DEF PlainInv, ParsesPlainLines

LEMMA PlainFail ==
    ASSUME NEW f \in Broken \cup {"error"}, Fail(f), ~torn => ~Plain(buf)
    PROVE  PlainInv'
<1>1. f \notin {"start", "scan"}
  BY DEF Broken
<1>2. fate' \notin {"start", "scan"} /\ UNCHANGED <<buf, torn>>
  BY <1>1 DEF Fail
<1> QED
  BY <1>2, PlainOver

(* A good line, here or longer, is good where the scan is.                 *)
LEMMA GoodHere ==
    ASSUME ParserInv, PlainInv, fate = "scan", ~torn,
           NEW b \in Seq(Chars), Longer(buf, b), NEW n \in Nat, at <= n, n <= Len(b), Good(b, n)
    PROVE  /\ Matches(b, at, quote, cmds) /\ Matches(buf, at, quote, cmds)
           /\ target = "argv" /\ redir.type = "NONE"
           /\ at + 1 <= n => Good(b, at + 1) /\ CharAt(at) \in PlainChars \cup {Nul}
           /\ ~Escape /\ (Ignore <=> quote # "none")
<1>1. /\ buf \in Seq(Chars) /\ Len(buf) \in Nat /\ at \in Nat /\ at <= Len(buf)
      /\ Len(b) \in Nat /\ Len(buf) <= Len(b)
  BY PlaceFacts, LenProperties DEF Longer
<1>2. /\ n \in 0 .. Len(b) /\ at \in 0 .. n /\ at \in 0 .. Len(buf)
      /\ at + 1 <= n => at + 1 \in 0 .. n
  BY <1>1
<1>3. Good(b, at) /\ (at + 1 <= n => Good(b, at + 1))
  BY <1>2, GoodGoesBack
<1>4. Lexed(b)[at] = Lexed(buf)[at] /\ Good(buf, at)
  BY <1>1, <1>2, <1>3, GoodInLonger
<1>5. Match
  BY <1>4 DEF PlainInv
<1>6. Matches(b, at, quote, cmds)
  <2>1. ASSUME Lexed(buf)[at].glue # "word"
        PROVE  at < Len(b) /\ b[at + 1] = buf[at + 1]
    <3>1. at < Len(buf)
      BY <1>5, <2>1 DEF Match, Matches
    <3>2. at + 1 \in 1 .. Len(buf) /\ at < Len(b)
      BY <1>1, <3>1
    <3> QED
      BY <3>2 DEF Longer
  <2> QED
    BY <1>4, <1>5, <2>1 DEF Match, Matches
<1>7. ~Escape
  <2>1. CASE at = 0
    BY <2>1 DEF Escape, Before, Nul
  <2>2. CASE at # 0
    <3>1. at - 1 < Len(buf) /\ (at - 1) + 1 = at /\ at \in 1 .. at
      BY <1>1, <2>2
    <3>2. Before = buf[at] /\ buf[at] \in PlainChars
      BY <1>4, <2>2, <3>1 DEF Before, CharAt, Good
    <3> QED
      BY <3>2 DEF Escape, PlainChars, Digits
  <2> QED
    BY <2>1, <2>2
<1>8. at + 1 <= n => CharAt(at) \in PlainChars \cup {Nul}
  <2>1. CASE at < Len(buf)
    <3>1. at + 1 \in 1 .. Len(buf) /\ (at + 1 <= n => at + 1 \in 1 .. n)
      BY <1>1, <2>1
    <3>2. b[at + 1] = buf[at + 1] /\ CharAt(at) = buf[at + 1]
      BY <2>1, <3>1 DEF Longer, CharAt
    <3> QED
      BY <3>1, <3>2 DEF Good
  <2>2. CASE ~(at < Len(buf))
    BY <2>2 DEF CharAt
  <2> QED
    BY <2>1, <2>2
<1> QED
  BY <1>3, <1>5, <1>6, <1>7, <1>8 DEF Match, Ignore

(* On a plain line, everything up to its end is good.                      *)
LEMMA PlainHere ==
    ASSUME ParserInv, PlainInv, fate = "scan", ~torn, Plain(buf)
    PROVE  /\ Matches(buf, at, quote, cmds) /\ target = "argv" /\ redir.type = "NONE"
           /\ at < Len(buf) => Good(buf, at + 1)
           /\ Good(buf, Len(buf)) /\ CharAt(at) \in PlainChars \cup {Nul}
           /\ ~Escape /\ (Ignore <=> quote # "none")
<1>1. /\ buf \in Seq(Chars) /\ Len(buf) \in Nat /\ at \in Nat /\ at <= Len(buf)
      /\ Longer(buf, buf) /\ (at < Len(buf) => at + 1 <= Len(buf))
  <2>1. buf \in Seq(Chars) /\ Len(buf) \in Nat /\ at \in Nat /\ at <= Len(buf)
    BY PlaceFacts
  <2> QED
    BY <2>1 DEF Longer
<1>2. Good(buf, Len(buf))
  BY <1>1, PlainIsGood
<1>3. CharAt(at) \in PlainChars \cup {Nul}
  BY <1>1, <1>2, GoodHere DEF CharAt
<1> QED
  BY <1>1, <1>2, <1>3, GoodHere

-----------------------------------------------------------------------------
(* Every case of the switch keeps the list in step with the line. *)

(* A character written in a quote, or outside quotes as it is *)
LEMMA WritePlain ==
    ASSUME ParserInv, PlainInv, fate = "scan", CharAt(at) # Nul, Write(1),
           ~Escape => \/ quote # "none" /\ CharAt(at) # Mark(quote)
                      \/ quote = "none" /\ CharAt(at) \notin {"'", "dq", "sp", "&", "|"}
    PROVE  PlainInv'
<1>1. /\ buf \in Seq(Chars) /\ at \in Nat /\ at < Len(buf) /\ at <= at + 1 /\ at + 1 \in Nat
      /\ at + 1 <= Len(buf) /\ CharAt(at) = buf[at + 1] /\ Longer(buf, buf) /\ ListOK(cmds)
      /\ quote \in {"none", "single", "double"}
  BY SeparatorPlace, PlaceFacts DEF ParserInv
<1>2. ASSUME ~torn, Good(buf, at + 1)
      PROVE  /\ Writable(cmds, 1) /\ target = "argv" /\ redir.type = "NONE"
             /\ Matches(buf, at + 1, quote, Written(cmds, buf[at + 1], 1))
  <2>1. Matches(buf, at, quote, cmds) /\ target = "argv" /\ redir.type = "NONE" /\ ~Escape
    BY <1>1, <1>2, GoodHere
  <2>2. \/ quote # "none" /\ buf[at + 1] # Mark(quote)
        \/ quote = "none" /\ buf[at + 1] \notin {"'", "dq", "sp", "&", "|"}
    BY <1>1, <2>1
  <2> QED
    BY <1>1, <1>2, <2>1, <2>2, WriteMatches
<1>3. ASSUME ~torn, Plain(buf) PROVE Writable(cmds, 1) /\ target = "argv"
  <2>1. Good(buf, at + 1)
    BY <1>1, <1>3, PlainHere
  <2> QED
    BY <1>2, <1>3, <2>1
<1>4. CASE target = "argv" /\ ~Writable(cmds, 1) /\ Fail(WriteFailure(cmds))
  <2>1. WriteFailure(cmds) \in Broken
    BY WriteFailureBreaks
  <2> QED
    BY <1>3, <1>4, <2>1, PlainFail
<1>5. CASE target = "fd" /\ Fail("error")
  BY <1>3, <1>5, PlainFail
<1>6. CASE /\ cmds' = IF target = "argv" THEN Written(cmds, CharAt(at), 1) ELSE cmds
           /\ Next1 /\ UNCHANGED <<quote, target, redir, old, torn>>
  <2>1. UNCHANGED <<buf, quote, target, redir, torn>> /\ at' = at + 1 /\ fate' = "scan"
    BY <1>6 DEF Next1
  <2>2. ~torn' /\ Good(buf', at') => Match'
    BY <1>1, <1>2, <1>6, <2>1 DEF Match
  <2> QED
    BY <2>1, <2>2, PlainScan
<1> QED
  BY <1>4, <1>5, <1>6 DEF Write

LEMMA TogglePlain ==
    ASSUME ParserInv, PlainInv, fate = "scan", NEW q \in {"single", "double"},
           CharAt(at) = Mark(q), quote \in {"none", q}, Toggle(q)
    PROVE  PlainInv'
<1>1. CharAt(at) # Nul
  BY DEF Mark, Nul
<1>2. /\ buf \in Seq(Chars) /\ at \in Nat /\ at < Len(buf) /\ at <= at + 1 /\ at + 1 \in Nat
      /\ at + 1 <= Len(buf) /\ buf[at + 1] = Mark(q) /\ Longer(buf, buf)
  BY <1>1, SeparatorPlace, PlaceFacts
<1>3. /\ UNCHANGED <<buf, target, cmds, redir, torn>> /\ at' = at + 1 /\ fate' = "scan"
      /\ quote' = IF quote = q THEN "none" ELSE q
  BY DEF Toggle, Next1, list
<1>4. ASSUME ~torn, Good(buf, at + 1)
      PROVE  /\ target = "argv" /\ redir.type = "NONE"
             /\ Matches(buf, at + 1, IF quote = q THEN "none" ELSE q, cmds)
  <2>1. Matches(buf, at, quote, cmds) /\ target = "argv" /\ redir.type = "NONE"
    BY <1>2, <1>4, GoodHere
  <2>2. CASE quote = q
    BY <1>2, <2>1, <2>2, CloseMatches
  <2>3. CASE quote = "none"
    <3>1. Matches(buf, at + 1, q, cmds)
      BY <1>2, <2>1, <2>3, OpenMatches
    <3> QED
      BY <2>1, <2>3, <3>1
  <2> QED
    BY <2>1, <2>2, <2>3
<1>5. ~torn' /\ Good(buf', at') => Match'
  BY <1>3, <1>4 DEF Match
<1> QED
  BY <1>3, <1>5, PlainScan

LEMMA QuotePlain == ASSUME ParserInv, PlainInv, SingleQuote \/ DoubleQuote PROVE PlainInv'
<1>1. fate = "scan" /\ CharAt(at) \in {"'", "dq"} /\ CharAt(at) # Nul
  BY DEF SingleQuote, DoubleQuote, Scan, Nul
<1>2. quote \in {"none", "single", "double"}
  BY DEF ParserInv
<1>3. CASE SingleQuote
  <2>1. CharAt(at) = Mark("single") /\ CharAt(at) # Mark("double")
    BY <1>3 DEF SingleQuote, Scan, Mark
  <2>2. CASE quote \in {"none", "single"} /\ Toggle("single")
    BY <1>1, <2>1, <2>2, TogglePlain
  <2>3. CASE (Escape \/ quote = "double") /\ Write(1)
    BY <1>1, <2>1, <2>3, WritePlain
  <2> QED
    BY <1>3, <2>2, <2>3 DEF SingleQuote
<1>4. CASE DoubleQuote
  <2>1. CharAt(at) = Mark("double") /\ CharAt(at) # Mark("single")
    BY <1>4 DEF DoubleQuote, Scan, Mark
  <2>2. CASE quote # "single" /\ Toggle("double")
    BY <1>1, <1>2, <2>1, <2>2, TogglePlain
  <2>3. CASE (quote = "single" \/ Escape) /\ Write(1)
    BY <1>1, <2>1, <2>3, WritePlain
  <2> QED
    BY <1>4, <2>2, <2>3 DEF DoubleQuote
<1> QED
  BY <1>3, <1>4

LEMMA OrdinaryPlain == ASSUME ParserInv, PlainInv, Ordinary PROVE PlainInv'
<1>1. fate = "scan" /\ CharAt(at) \in {"a"} \cup Digits /\ Write(1)
  BY DEF Ordinary, Scan
<1>2. CharAt(at) # Nul /\ CharAt(at) \notin {"'", "dq", "sp", "&", "|"}
  BY <1>1 DEF Nul, Digits
<1>3. quote # "none" => CharAt(at) # Mark(quote)
  BY <1>2 DEF Mark, ParserInv
<1> QED
  BY <1>1, <1>2, <1>3, WritePlain

(* The other characters are in no plain line. *)
LEMMA NotPlainHere ==
    ASSUME ParserInv, PlainInv, fate = "scan", CharAt(at) \notin PlainChars \cup {Nul},
           UNCHANGED <<buf, torn>>, fate' # "start", at' \in Nat, MovesOn
    PROVE  PlainInv'
<1>1. ~torn => ~Plain(buf)
  BY PlainHere
<1>2. CASE fate' = "scan"
  <2>1. /\ buf \in Seq(Chars) /\ at \in Nat /\ at < Len(buf)
        /\ CharAt(at) = buf[at + 1] /\ at' > at
    BY <1>2, PlaceFacts DEF MovesOn
  <2>2. at + 1 \in 1 .. at'
    BY <2>1
  <2>3. ~Good(buf, at')
    BY <2>1, <2>2 DEF Good
  <2> QED
    BY <1>2, <2>3, PlainScan
<1>3. CASE fate' # "scan"
  BY <1>1, <1>3, PlainOver
<1> QED
  BY <1>2, <1>3

LEMMA OtherPlain ==
    ASSUME ParserInv, PlainInv,
           Semicolon \/ Backslash \/ Redirect \/ Dollar \/ Hash
    PROVE  PlainInv'
<1>1. Fine
  BY SemicolonFine, BackslashFine, RedirectFine, WordFine
<1>2. fate = "scan" /\ CharAt(at) \in {"semi", "bs", ">", "$", "bq", "#"}
  BY DEF Semicolon, Backslash, Redirect, Dollar, Hash, Scan
<1>3. CharAt(at) \notin PlainChars \cup {Nul}
  BY <1>2 DEF PlainChars, Digits, Nul
<1>4. at' \in Nat /\ MovesOn
  <2>1. ParserInv' /\ MovesOn
    BY <1>1 DEF Fine
  <2>2. at' \in 0 .. Len(buf') /\ Len(buf') \in Nat
    BY <2>1, LenProperties DEF ParserInv
  <2> QED
    BY <2>1, <2>2
<1>5. \A c : WriteFailure(c) # "start"
  BY DEF WriteFailure
<1>6. ASSUME NEW n, Write(n) PROVE UNCHANGED <<buf, torn>> /\ fate' # "start"
  BY <1>2, <1>5, <1>6 DEF Write, Fail, Next1
<1>7. ASSUME NEW c, Done(c) PROVE UNCHANGED <<buf, torn>> /\ fate' # "start"
  BY <1>5, <1>7 DEF Done, Fail
<1>8. UNCHANGED <<buf, torn>> /\ fate' # "start"
  <2>1. CASE Semicolon
    <3>1. \A f \in AfterLost : f # "start"
      BY DEF AfterLost
    <3>2. CASE \E c : Done(c)
      BY <1>7, <3>2
    <3>3. CASE \E c : DoneAtSemicolon(c)
      BY <1>5, <3>3 DEF DoneAtSemicolon, Fail
    <3>4. CASE UNCHANGED <<buf, quote, target, redir, old, wrote, torn, fate>>
      BY <1>2, <3>4
    <3>5. CASE \E f : f # "start" /\ Fail(f)
      BY <3>5 DEF Fail
    <3>6. \/ \E c : Done(c)
          \/ \E c : DoneAtSemicolon(c)
          \/ UNCHANGED <<buf, quote, target, redir, old, wrote, torn, fate>>
          \/ \E f : f # "start" /\ Fail(f)
      BY <1>5, <2>1, <3>1 DEF Semicolon
    <3> QED
      BY <3>2, <3>3, <3>4, <3>5, <3>6
  <2>2. CASE Backslash
    BY <1>2, <1>5, <2>2 DEF Backslash, Fail
  <2>3. CASE Redirect
    <3>1. ASSUME NEW t, NEW o, Redirected(t, o) PROVE UNCHANGED <<buf, torn>> /\ fate' # "start"
      BY <1>2, <3>1 DEF Redirected, Fail
    <3>2. CASE \E f : f # "start" /\ Fail(f)
      BY <3>2 DEF Fail
    <3>3. \/ \E f : f # "start" /\ Fail(f)
          \/ Write(1)
          \/ \E t, o : Redirected(t, o)
      BY <2>3 DEF Redirect
    <3> QED
      BY <1>6, <3>1, <3>2, <3>3
  <2>4. CASE Dollar
    BY <1>6, <2>4 DEF Dollar
  <2>5. CASE Hash
    <3>1. \/ Write(1)
          \/ Fail("underflow")
          \/ \E c : Done(c)
      BY <2>5 DEF Hash
    <3>2. CASE Fail("underflow")
      BY <3>2 DEF Fail
    <3> QED
      BY <1>6, <1>7, <3>1, <3>2
  <2> QED
    BY <2>1, <2>2, <2>3, <2>4, <2>5
<1> QED
  BY <1>2, <1>3, <1>4, <1>8, NotPlainHere

(* A separator on a good line *)
LEMMA SeparatorMatches ==
    ASSUME ParserInv, fate = "scan", NEW l \in Lexers, Agree(cmds, Standing(l), 1),
           Last(Args(cmds)) = Last(Args(Standing(l))), GoodToks(l.toks),
           l.toks # <<>>, l.toks[Len(l.toks)].kind = "word", l.toks[Len(l.toks)].text # <<>>,
           NEW k \in Kinds \ {"word"},
           NEW y \in Lexers, y.glue # "word", y.toks = Append(l.toks, Tok(k, <<>>))
    PROVE  LET t == TypeOf(k)
               d == Closed(Assembly(l.toks), t)
           IN  /\ ~FreesNothing /\ t \in Types \ {"SINGLE"}
               /\ Agree(Separated(t), Standing(y), 1)
               /\ Last(Args(Separated(t))) = Last(Args(Standing(y)))
               /\ Agree(Ended(t), d, 1) /\ ListOK(Ended(t)) /\ Front(Separated(t)) = Ended(t)
               /\ d \in CommandLists /\ Assembly(y.toks) = Append(d, Bare)
               /\ Args(d) # <<>> /\ Len(Last(Args(d))) \in Nat
               /\ Len(Last(Args(d))) + 2 <= MaxEachArg
<1> DEFINE t == TypeOf(k)  A == Assembly(l.toks)  d == Closed(A, t)  w == Append(d, Bare)
<1>1. ListOK(cmds) /\ Open(cmds) /\ l.toks \in Seq(Tokens)
  BY LexerFacts DEF ParserInv
<1>2. t \in Types \ {"SINGLE"} /\ Assembly(y.toks) = w /\ Standing(y) = With(w, <<>>)
  BY <1>1, OpStanding
<1>3. /\ A \in CommandLists /\ Args(A) # <<>>
      /\ Len(Last(Args(A))) \in Nat /\ Len(Last(Args(A))) + 2 <= MaxEachArg
  BY <1>1, LastWord
<1> HIDE DEF t
<1>4. /\ ~FreesNothing /\ Agree(Ended(t), d, 1)
      /\ Agree(Separated(t), With(w, <<>>), 1) /\ Last(Args(Separated(t))) = <<>>
  BY <1>1, <1>2, EndedAgrees
<1>5. ListOK(Ended(t)) /\ Front(Separated(t)) = Ended(t)
  BY <1>1, <1>2, <1>4, EndedOK, SeparatedOK
<1> HIDE DEF A
<1>6. d \in CommandLists /\ Args(d) = Args(A) /\ w \in CommandLists
  <2>1. d \in CommandLists /\ Args(d) = Args(A)
    BY <1>2, <1>3, ClosedIs
  <2> HIDE DEF d
  <2> QED
    BY <2>1, BareBegun
<1> HIDE DEF d, w
<1>7. Last(Args(With(w, <<>>))) = <<>>
  <2> DEFINE e == <<>>  p == Args(w)
  <2>1. Args(With(w, e)) = Append(p, e) /\ p \in Seq(Seq(Chars)) /\ e \in Seq(Chars)
    BY <1>6, EmptySeq, WithIs
  <2> HIDE DEF p, e
  <2>2. Last(Append(p, e)) = e
    BY ONLY <2>1, FrontOfAppend
  <2> QED
    BY <2>1, <2>2 DEF e
<1> QED
  BY <1>2, <1>3, <1>4, <1>5, <1>6, <1>7 DEF t, d, w, A

(* Where the scan goes on behind a separator, in the line or a longer one  *)
Ready(b, n, c) ==
    LET y == Lexed(b)[n]
    IN  /\ y.quote = "none" /\ y.glue # "word" /\ (n < Len(b) => b[n + 1] # y.glue)
        /\ Agree(c, Standing(y), 1) /\ Last(Args(c)) = Last(Args(Standing(y)))

LEMMA ResumePlain ==
    ASSUME ParserInv, PlainInv, fate = "scan", quote = "none",
           NEW b \in Seq(Chars), Longer(buf, b), NEW n \in Nat, at < n, n <= Len(b),
           NEW c, Resume(c, b, n), ~torn /\ Plain(buf) => ~AtEnd(b, n),
           ~torn /\ Good(b, n) => Ready(b, n, c)
    PROVE  PlainInv'
<1>1. CASE AtEnd(b, n) /\ Done(c)
  <2>1. WriteFailure(c) \notin {"start", "scan"}
    BY DEF WriteFailure
  <2>2. fate' \notin {"start", "scan"} /\ UNCHANGED <<buf, torn>>
    BY <1>1, <2>1 DEF Done, Fail
  <2> QED
    BY <1>1, <2>2, PlainOver
<1>2. CASE ~AtEnd(b, n) /\ ~(AtEnd(b, n) /\ Done(c))
  <2> DEFINE m == NonBlank(b, n)
  <2>1. /\ cmds' = c /\ buf' = b /\ at' = m
        /\ UNCHANGED <<quote, target, redir, torn, fate>>
    BY <1>2 DEF Resume
  <2>2. m \in Nat /\ n <= m /\ m <= Len(b) /\ Len(b) \in Nat /\ at \in Nat /\ at <= m
        /\ m \in 0 .. Len(b) /\ n \in 0 .. m
    <3>1. Len(b) \in Nat /\ m \in n .. Len(b) - 1 /\ at \in Nat
      BY <1>2, NonBlankFound, LenProperties, PlaceFacts
    <3> HIDE DEF m
    <3> QED
      BY <3>1
  <2> HIDE DEF m
  <2>3. ASSUME ~torn, Good(b, m)
        PROVE  Matches(b, m, "none", c) /\ target = "argv" /\ redir.type = "NONE"
    <3>1. target = "argv" /\ redir.type = "NONE"
      BY <2>2, <2>3, GoodHere
    <3>2. Good(b, n)
      BY <2>2, <2>3, GoodGoesBack
    <3>3. Matches(b, m, "none", c)
      BY <1>2, <2>3, <3>2, ResumeMatches DEF Ready, m
    <3> QED
      BY <3>1, <3>3
  <2>4. ~torn' /\ Good(buf', at') => Match'
    BY <2>1, <2>3 DEF Match
  <2> QED
    BY <2>1, <2>4, PlainScan
<1> QED
  BY <1>1, <1>2 DEF Resume

(* One separator, of one character *)
LEMMA SingleMatches ==
    ASSUME ParserInv, fate = "scan", NEW b \in Seq(Chars), at < Len(b),
           Matches(b, at, "none", cmds), Good(b, at + 1), b[at + 1] \in {"&", "|"}
    PROVE  LET t == TypeOf(b[at + 1])
               y == Lexed(b)[at + 1]
               d == Closed(Assembly(Lexed(b)[at].toks), t)
           IN  /\ ~FreesNothing /\ y.quote = "none" /\ y.glue = b[at + 1]
               /\ y \in Lexers /\ y.toks # <<>> /\ y.toks[Len(y.toks)].kind = b[at + 1]
               /\ Agree(Separated(t), Standing(y), 1)
               /\ Last(Args(Separated(t))) = Last(Args(Standing(y)))
               /\ Agree(Ended(t), d, 1) /\ ListOK(Ended(t)) /\ Front(Separated(t)) = Ended(t)
               /\ d \in CommandLists /\ Assembly(y.toks) = Append(d, Bare)
               /\ Args(d) # <<>> /\ Len(Last(Args(d))) \in Nat
               /\ Len(Last(Args(d))) + 2 <= MaxEachArg
<1> DEFINE l == Lexed(b)[at]  y == Lexed(b)[at + 1]  k == b[at + 1]
<1>1. at \in Nat
  BY PlaceFacts
<1>2. l \in Lexers /\ y \in Lexers /\ at \in 0 .. at + 1 /\ at + 1 \in 0 .. Len(b)
  BY <1>1, LexedHere
<1>3. /\ l.toks # <<>> /\ l.toks[Len(l.toks)].kind = "word"
      /\ l.toks[Len(l.toks)].text # <<>>
      /\ y.quote = "none" /\ y.glue = k /\ y.toks = Append(l.toks, Tok(k, <<>>))
  BY <1>1, OpHere
<1>4. GoodToks(l.toks)
  <2>1. Good(b, at)
    BY <1>2, GoodGoesBack
  <2> QED
    BY <2>1 DEF Good
<1>5. Agree(cmds, Standing(l), 1) /\ Last(Args(cmds)) = Last(Args(Standing(l)))
  BY DEF Matches
<1>6. k \in Kinds \ {"word"} /\ k \in {"&", "|"}
  BY DEF Kinds
<1> HIDE DEF l, y, k
<1>7. y.toks # <<>> /\ y.toks[Len(y.toks)].kind = k
  BY <1>2, <1>3, <1>6, LexerFacts
<1>8. LET t == TypeOf(k)
          d == Closed(Assembly(l.toks), t)
      IN  /\ ~FreesNothing
          /\ Agree(Separated(t), Standing(y), 1)
          /\ Last(Args(Separated(t))) = Last(Args(Standing(y)))
          /\ Agree(Ended(t), d, 1) /\ ListOK(Ended(t)) /\ Front(Separated(t)) = Ended(t)
          /\ d \in CommandLists /\ Assembly(y.toks) = Append(d, Bare)
          /\ Args(d) # <<>> /\ Len(Last(Args(d))) \in Nat
          /\ Len(Last(Args(d))) + 2 <= MaxEachArg
  BY <1>2, <1>3, <1>4, <1>5, <1>6, SeparatorMatches
<1> QED
  BY <1>2, <1>3, <1>7, <1>8 DEF l, y, k

(* One separator, of two characters *)
LEMMA DoubleMatches ==
    ASSUME ParserInv, fate = "scan", NEW b \in Seq(Chars), at + 1 < Len(b),
           Matches(b, at, "none", cmds), Good(b, at + 1), b[at + 1] \in {"&", "|"},
           b[at + 2] = b[at + 1]
    PROVE  LET t == TypeOf(Doubled(b[at + 1]))
               z == Lexed(b)[at + 2]
           IN  /\ ~FreesNothing /\ z \in Lexers /\ z.quote = "none" /\ z.glue = ""
               /\ z.toks # <<>> /\ z.toks[Len(z.toks)].kind \in {"&&", "||"}
               /\ Agree(Separated(t), Standing(z), 1)
               /\ Last(Args(Separated(t))) = Last(Args(Standing(z)))
<1> DEFINE l == Lexed(b)[at]  z == Lexed(b)[at + 2]  k == Doubled(b[at + 1])
<1>1. at \in Nat /\ at < Len(b)
  BY PlaceFacts, LenProperties
<1>2. l \in Lexers /\ at \in 0 .. at + 1 /\ at + 1 \in 0 .. Len(b)
  BY <1>1, LexedHere
<1>3. /\ l.toks # <<>> /\ l.toks[Len(l.toks)].kind = "word"
      /\ l.toks[Len(l.toks)].text # <<>>
  BY <1>1, OpHere
<1>4. z \in Lexers /\ z.quote = "none" /\ z.glue = "" /\ z.toks = Append(l.toks, Tok(k, <<>>))
  BY <1>1, SecondHere
<1>5. GoodToks(l.toks)
  <2>1. Good(b, at)
    BY <1>2, GoodGoesBack
  <2> QED
    BY <2>1 DEF Good
<1>6. Agree(cmds, Standing(l), 1) /\ Last(Args(cmds)) = Last(Args(Standing(l)))
  BY DEF Matches
<1>7. k \in Kinds \ {"word"} /\ k \in {"&&", "||"}
  BY DEF Kinds, Doubled
<1> HIDE DEF l, z, k
<1>8. z.toks # <<>> /\ z.toks[Len(z.toks)].kind = k
  <2> DEFINE s == l.toks  e == Tok(k, <<>>)
  <2>1. s \in Seq(Tokens) /\ e \in Tokens /\ e.kind = k
    BY <1>2, <1>7, LexerFacts, EmptySeq DEF Tokens, Tok
  <2> HIDE DEF s, e
  <2>2. Append(s, e) # <<>> /\ Last(Append(s, e)) = e
    BY ONLY <2>1, FrontOfAppend, AppendProperties
  <2> QED
    BY <1>4, <2>1, <2>2 DEF s, e, Last
<1>9. /\ ~FreesNothing
      /\ Agree(Separated(TypeOf(k)), Standing(z), 1)
      /\ Last(Args(Separated(TypeOf(k)))) = Last(Args(Standing(z)))
  BY <1>2, <1>3, <1>4, <1>5, <1>6, <1>7, SeparatorMatches
<1> QED
  BY <1>4, <1>7, <1>8, <1>9 DEF l, z, k

LEMMA MorePlain ==
    ASSUME ParserInv, PlainInv, fate = "scan", quote = "none",
           NEW n \in Nat, at < n, n <= Len(buf), NEW c, ResumeInMore(c, n),
           ~torn => ~Plain(buf),
           \A b \in Seq(Chars) : Longer(buf, b) /\ ~torn /\ Good(b, n) => Ready(b, n, c)
    PROVE  PlainInv'
<1>1. CASE NoMoreLines
  BY <1>1, PlainFail DEF NoMoreLines, Broken
<1>2. ASSUME NEW b \in Appended, Resume(c, b, n) PROVE PlainInv'
  <2>1. buf \in Seq(Chars) /\ Len(buf) \in Nat
    BY PlaceFacts
  <2>2. b \in Seq(Chars) /\ Longer(buf, b) /\ Len(b) \in Nat
    BY <2>1, AppendedTypes, AppendedLonger, LenProperties
  <2>3. n <= Len(b)
    BY <2>1, <2>2 DEF Longer
  <2> QED
    BY <1>2, <2>2, <2>3, ResumePlain
<1> QED
  BY <1>1, <1>2 DEF ResumeInMore

(* A line that ends in an operator other than & is not plain. *)
LEMMA EndsInOperator ==
    ASSUME NEW b \in Seq(Chars), NEW n \in 0 .. Len(b), AtEnd(b, n),
           Lexed(b)[n].quote = "none", Lexed(b)[n].toks # <<>>,
           Lexed(b)[n].toks[Len(Lexed(b)[n].toks)].kind \in {"&&", "||"}
    PROVE  ~Plain(b)
<1>1. Len(b) \in n .. Len(b)
  BY LenProperties
<1>2. \A i \in n + 1 .. Len(b) : b[i] = "sp"
  BY DEF AtEnd
<1>3. Lexed(b)[Len(b)].toks = Lexed(b)[n].toks
  BY <1>1, <1>2, BlanksSkipped
<1> QED
  BY <1>3, PlainIsGood DEF IsWord

LEMMA AndOrPlain ==
    ASSUME ParserInv, PlainInv, fate = "scan", quote = "none", CharAt(at) \in {"&", "|"},
           CharAt(at + 1) = CharAt(at), AndOr(TypeOf(Doubled(CharAt(at))))
    PROVE  PlainInv'
<1> DEFINE c == Separated(TypeOf(Doubled(CharAt(at))))
<1>1. /\ buf \in Seq(Chars) /\ at \in Nat /\ Len(buf) \in Nat /\ Longer(buf, buf)
      /\ at + 1 < Len(buf) /\ at + 2 \in Nat /\ at < at + 2 /\ at + 2 <= Len(buf)
      /\ CharAt(at) = buf[at + 1] /\ buf[at + 2] = buf[at + 1]
      /\ at + 1 \in 1 .. Len(buf) /\ at + 2 \in 1 .. Len(buf) /\ at + 2 \in 0 .. Len(buf)
  <2>1. CharAt(at) # Nul /\ CharAt(at + 1) # Nul
    BY DEF Nul
  <2>2. /\ buf \in Seq(Chars) /\ at \in Nat /\ Len(buf) \in Nat /\ Longer(buf, buf)
        /\ CharAt(at) = buf[at + 1] /\ at < Len(buf)
    BY <2>1, SeparatorPlace, PlaceFacts
  <2>3. at + 1 \in Nat /\ at + 1 < Len(buf) /\ (at + 1) + 1 = at + 2
    BY <2>1, <2>2, CharType
  <2>4. CharAt(at + 1) = buf[at + 2]
    BY <2>3 DEF CharAt
  <2> QED
    BY <2>2, <2>3, <2>4
<1>2. ASSUME NEW b \in Seq(Chars), Longer(buf, b), ~torn, Good(b, at + 2)
      PROVE  Ready(b, at + 2, c)
  <2>1. Len(b) \in Nat /\ Len(buf) <= Len(b) /\ b[at + 1] = CharAt(at) /\ b[at + 2] = b[at + 1]
    BY <1>1, <1>2, LenProperties DEF Longer
  <2>2. at + 1 < Len(b) /\ at + 2 <= Len(b) /\ at <= at + 2 /\ at + 1 <= at + 2
    BY <1>1, <2>1
  <2>3. Matches(b, at, "none", cmds) /\ Good(b, at + 1)
    BY <1>1, <1>2, <2>2, GoodHere
  <2>4. /\ Lexed(b)[at + 2].quote = "none" /\ Lexed(b)[at + 2].glue = ""
        /\ Agree(c, Standing(Lexed(b)[at + 2]), 1)
        /\ Last(Args(c)) = Last(Args(Standing(Lexed(b)[at + 2])))
    BY <2>1, <2>2, <2>3, DoubleMatches
  <2>5. at + 2 < Len(b) => b[(at + 2) + 1] # ""
    <3>1. at + 2 < Len(b) => (at + 2) + 1 \in 1 .. Len(b)
      BY <1>1, <2>1
    <3>2. \A i \in 1 .. Len(b) : b[i] # ""
      <4>1. \A i \in 1 .. Len(b) : b[i] \in Chars
        BY ElementOfSeq
      <4>2. "" \notin Chars
        BY DEF Chars, Digits
      <4> QED
        BY <4>1, <4>2
    <3> QED
      BY <3>1, <3>2
  <2> HIDE DEF c
  <2> QED
    BY <2>4, <2>5 DEF Ready
<1>3. ASSUME AtEnd(buf, at + 2), ~torn PROVE ~Plain(buf)
  <2> SUFFICES ASSUME Plain(buf) PROVE FALSE
    OBVIOUS
  <2>1. Matches(buf, at, "none", cmds) /\ Good(buf, at + 1)
    BY <1>1, <1>3, PlainHere, LenProperties
  <2>2. /\ Lexed(buf)[at + 2].quote = "none" /\ Lexed(buf)[at + 2].toks # <<>>
        /\ Lexed(buf)[at + 2].toks[Len(Lexed(buf)[at + 2].toks)].kind \in {"&&", "||"}
    BY <1>1, <2>1, DoubleMatches
  <2> QED
    BY <1>1, <1>3, <2>2, EndsInOperator
<1> HIDE DEF c
<1>4. CASE AtEnd(buf, at + 2) /\ ResumeInMore(c, at + 2)
  BY <1>1, <1>2, <1>3, <1>4, MorePlain
<1>5. CASE ~AtEnd(buf, at + 2) /\ Resume(c, buf, at + 2)
  BY <1>1, <1>2, <1>5, ResumePlain
<1> QED
  BY <1>4, <1>5 DEF AndOr, c

(* Where a separator of one character is read *)
LEMMA SingleReady ==
    ASSUME ParserInv, PlainInv, fate = "scan", quote = "none", CharAt(at) \in {"&", "|"},
           CharAt(at + 1) \notin {CharAt(at), Nul}, ~torn,
           NEW b \in Seq(Chars), Longer(buf, b), Good(b, at + 1)
    PROVE  Ready(b, at + 1, Separated(TypeOf(CharAt(at))))
<1> DEFINE c == Separated(TypeOf(CharAt(at)))
<1>1. /\ buf \in Seq(Chars) /\ at \in Nat /\ Len(buf) \in Nat
      /\ CharAt(at) = buf[at + 1] /\ at + 1 < Len(buf) /\ (at + 1) + 1 \in 1 .. Len(buf)
      /\ at + 1 \in 1 .. Len(buf) /\ CharAt(at + 1) = buf[(at + 1) + 1]
  <2>1. CharAt(at) # Nul
    BY DEF Nul
  <2>2. /\ buf \in Seq(Chars) /\ at \in Nat /\ Len(buf) \in Nat /\ CharAt(at) = buf[at + 1]
    BY <2>1, SeparatorPlace
  <2>3. at + 1 \in Nat /\ at + 1 < Len(buf)
    BY <2>2, CharType
  <2> QED
    BY <2>2, <2>3 DEF CharAt
<1>2. /\ Len(b) \in Nat /\ Len(buf) <= Len(b) /\ b[at + 1] = CharAt(at)
      /\ b[(at + 1) + 1] = CharAt(at + 1)
  BY <1>1, LenProperties DEF Longer
<1>3. at < Len(b) /\ at + 1 <= Len(b) /\ at <= at + 1 /\ at + 1 \in Nat
  BY <1>1, <1>2
<1>4. Matches(b, at, "none", cmds)
  BY <1>3, GoodHere
<1>5. /\ Lexed(b)[at + 1].quote = "none" /\ Lexed(b)[at + 1].glue = CharAt(at)
      /\ Agree(c, Standing(Lexed(b)[at + 1]), 1)
      /\ Last(Args(c)) = Last(Args(Standing(Lexed(b)[at + 1])))
  BY <1>2, <1>3, <1>4, SingleMatches
<1> HIDE DEF c
<1>6. Ready(b, at + 1, c)
  BY <1>2, <1>5 DEF Ready
<1> QED
  BY <1>6 DEF c

(* On a plain line, the command a separator ends has an argument.          *)
LEMMA NothingFreedPlain ==
    ASSUME ParserInv, PlainInv, fate = "scan", quote = "none", CharAt(at) \in {"&", "|"},
           ~torn, Plain(buf)
    PROVE  /\ at \in Nat /\ at < Len(buf) /\ buf \in Seq(Chars) /\ buf[at + 1] = CharAt(at)
           /\ Matches(buf, at, "none", cmds) /\ Good(buf, at + 1)
           /\ redir.type = "NONE" /\ ~FreesNothing
<1>1. CharAt(at) # Nul
  BY DEF Nul
<1>2. at \in Nat /\ at < Len(buf) /\ buf \in Seq(Chars) /\ buf[at + 1] = CharAt(at)
  BY <1>1, PlaceFacts
<1>3. Matches(buf, at, "none", cmds) /\ Good(buf, at + 1) /\ redir.type = "NONE"
  BY <1>2, PlainHere
<1> QED
  BY <1>2, <1>3, SingleMatches

LEMMA AmpersandPlain == ASSUME ParserInv, PlainInv, Ampersand PROVE PlainInv'
<1>1. fate = "scan" /\ CharAt(at) = "&" /\ CharAt(at) # Nul
  BY DEF Ampersand, Scan, Nul
<1>2. TypeOf("&") = "BACKGROUND" /\ TypeOf(Doubled("&")) = "RUN_AND"
  BY DEF TypeOf, Doubled
<1>3. /\ buf \in Seq(Chars) /\ at \in Nat /\ at < Len(buf) /\ Len(buf) \in Nat
      /\ at + 1 \in Nat /\ at + 1 <= Len(buf) /\ at < at + 1 /\ Longer(buf, buf)
      /\ at + 1 \in 0 .. Len(buf) /\ at + 1 \in 1 .. Len(buf) /\ buf[at + 1] = "&"
  BY <1>1, SeparatorPlace, PlaceFacts
<1>4. CASE Ignore /\ Write(1)
  <2>1. CharAt(at) # Mark(quote) \/ quote = "none"
    BY <1>1 DEF Mark, ParserInv
  <2> QED
    BY <1>1, <1>4, <2>1, WritePlain DEF Ignore
<1>5. CASE ~Ignore /\ FreesNothing /\ Fail("underflow")
  <2>1. ~torn => ~Plain(buf)
    BY <1>1, <1>5, NothingFreedPlain DEF Ignore
  <2> QED
    BY <1>5, <2>1, PlainFail DEF Broken
<1>6. CASE ~Ignore /\ AtEnd(buf, at + 1) /\ Done(Front(Separated("BACKGROUND")))
  <2> DEFINE T == Lexed(buf)[at].toks  y == Lexed(buf)[at + 1]
             d == Closed(Assembly(T), "BACKGROUND")
  <2>1. ASSUME ~torn, Plain(buf)
        PROVE  fate' = "parsed" /\ Shown' = Meaning(buf) /\ redir'.type = "NONE"
    <3>1. Matches(buf, at, "none", cmds) /\ Good(buf, at + 1) /\ redir.type = "NONE"
      BY <1>1, <1>6, <2>1, NothingFreedPlain DEF Ignore
    <3>2. /\ y.quote = "none" /\ y \in Lexers
          /\ Agree(Ended("BACKGROUND"), d, 1) /\ ListOK(Ended("BACKGROUND"))
          /\ Front(Separated("BACKGROUND")) = Ended("BACKGROUND")
          /\ d \in CommandLists /\ Assembly(y.toks) = Append(d, Bare)
          /\ Args(d) # <<>> /\ Len(Last(Args(d))) \in Nat
          /\ Len(Last(Args(d))) + 2 <= MaxEachArg
      BY <1>1, <1>2, <1>3, <3>1, SingleMatches
    <3>3. Lexed(buf)[Len(buf)].toks = y.toks
      <4>1. Len(buf) \in at + 1 .. Len(buf) /\ \A i \in (at + 1) + 1 .. Len(buf) : buf[i] = "sp"
        BY <1>3, <1>6 DEF AtEnd
      <4> QED
        BY <1>3, <3>2, <4>1, BlanksSkipped
    <3> HIDE DEF d, y
    <3>4. Meaning(buf) = d
      <4>1. y.toks \in Seq(Tokens)
        BY <3>2, LexerFacts
      <4> QED
        BY <3>2, <3>3, <4>1, MeaningIs
    <3>5. Done(Ended("BACKGROUND"))
      BY <1>6, <3>2
    <3>6. fate' = "parsed" /\ Shown' = d /\ redir' = redir
      BY <3>2, <3>5, DoneMatches
    <3> QED
      BY <3>1, <3>4, <3>6
  <2>2. WriteFailure(Front(Separated("BACKGROUND"))) \notin {"start", "scan"}
    BY DEF WriteFailure
  <2>3. fate' \notin {"start", "scan"} /\ UNCHANGED <<buf, torn>>
    BY <1>6, <2>2 DEF Done, Fail
  <2> QED
    BY <2>1, <2>3, PlainOver
<1>7. CASE ~Ignore /\ CharAt(at + 1) = "&" /\ AndOr("RUN_AND")
  BY <1>1, <1>2, <1>7, AndOrPlain DEF Ignore
<1>8. CASE /\ ~Ignore /\ ~AtEnd(buf, at + 1) /\ CharAt(at + 1) # "&"
           /\ Resume(Separated("BACKGROUND"), buf, at + 1)
  <2>1. quote = "none"
    BY <1>8 DEF Ignore
  <2>2. CharAt(at + 1) # Nul
    <3>1. PICK i \in (at + 1) + 1 .. Len(buf) : buf[i] # "sp"
      BY <1>8 DEF AtEnd
    <3>2. at + 1 < Len(buf)
      BY <1>3, <3>1
    <3> QED
      BY <1>3, <3>2, CharType
  <2>3. ~torn /\ Good(buf, at + 1) => Ready(buf, at + 1, Separated("BACKGROUND"))
    BY <1>1, <1>2, <1>3, <1>8, <2>1, <2>2, SingleReady
  <2> QED
    BY <1>1, <1>3, <1>8, <2>1, <2>3, ResumePlain
<1> QED
  BY <1>4, <1>5, <1>6, <1>7, <1>8 DEF Ampersand

LEMMA BarPlain == ASSUME ParserInv, PlainInv, Bar PROVE PlainInv'
<1>1. fate = "scan" /\ CharAt(at) = "|" /\ CharAt(at) # Nul
  BY DEF Bar, Scan, Nul
<1>2. TypeOf("|") = "PIPED" /\ TypeOf(Doubled("|")) = "RUN_OR"
  BY DEF TypeOf, Doubled
<1>3. /\ buf \in Seq(Chars) /\ at \in Nat /\ at < Len(buf) /\ Len(buf) \in Nat
      /\ at + 1 \in Nat /\ at + 1 <= Len(buf) /\ at < at + 1 /\ Longer(buf, buf)
      /\ at + 1 \in 0 .. Len(buf) /\ at + 1 \in 1 .. Len(buf) /\ buf[at + 1] = "|"
  BY <1>1, SeparatorPlace, PlaceFacts
<1>4. CASE Ignore /\ Write(1)
  <2>1. CharAt(at) # Mark(quote) \/ quote = "none"
    BY <1>1 DEF Mark, ParserInv
  <2> QED
    BY <1>1, <1>4, <2>1, WritePlain DEF Ignore
<1>5. CASE ~Ignore /\ FreesNothing /\ Fail("underflow")
  <2>1. ~torn => ~Plain(buf)
    BY <1>1, <1>5, NothingFreedPlain DEF Ignore
  <2> QED
    BY <1>5, <2>1, PlainFail DEF Broken
<1>6. CASE ~Ignore /\ CharAt(at + 1) = "|" /\ AndOr("RUN_OR")
  BY <1>1, <1>2, <1>6, AndOrPlain DEF Ignore
<1>7. ASSUME ~Ignore, AtEnd(buf, at + 2), ~torn PROVE ~Plain(buf)
  <2> SUFFICES ASSUME Plain(buf) PROVE FALSE
    OBVIOUS
  <2>1. Matches(buf, at, "none", cmds) /\ Good(buf, at + 1)
    BY <1>1, <1>7, NothingFreedPlain DEF Ignore
  <2>2. Lexed(buf)[at + 1].glue = "|"
    BY <1>1, <1>3, <2>1, SingleMatches
  <2>3. ~AtEnd(buf, (at + 1) + 1) /\ (at + 1) + 1 = at + 2
    BY <1>3, <2>2, PlainIsGood
  <2> QED
    BY <1>7, <2>3
<1>8. CASE ~Ignore /\ CharAt(at + 1) = Nul /\ Fail("stray")
  <2>1. ~(at + 1 < Len(buf))
    BY <1>3, <1>8, CharType
  <2>2. AtEnd(buf, at + 2)
    <3>1. \A i \in (at + 2) + 1 .. Len(buf) : FALSE
      BY <1>3, <2>1
    <3> QED
      BY <3>1 DEF AtEnd
  <2> QED
    BY <1>7, <1>8, <2>2, PlainFail DEF Broken
<1>9. ASSUME ~Ignore, CharAt(at + 1) \notin {"|", Nul}
      PROVE  /\ quote = "none"
             /\ \A b \in Seq(Chars) : Longer(buf, b) /\ ~torn /\ Good(b, at + 1) =>
                                          Ready(b, at + 1, Separated("PIPED"))
  <2>1. quote = "none"
    BY <1>9 DEF Ignore
  <2> QED
    BY <1>1, <1>2, <1>9, <2>1, SingleReady
<1>10. CASE /\ ~Ignore /\ CharAt(at + 1) \notin {"|", Nul} /\ AtEnd(buf, at + 2)
            /\ ResumeInMore(Separated("PIPED"), at + 1)
  BY <1>1, <1>3, <1>7, <1>9, <1>10, MorePlain
<1>11. CASE /\ ~Ignore /\ CharAt(at + 1) \notin {"|", Nul} /\ ~AtEnd(buf, at + 2)
            /\ Resume(Separated("PIPED"), buf, at + 1)
  <2>1. ~AtEnd(buf, at + 1)
    <3>1. PICK i \in (at + 2) + 1 .. Len(buf) : buf[i] # "sp"
      BY <1>11 DEF AtEnd
    <3>2. i \in (at + 1) + 1 .. Len(buf)
      BY <1>3, <3>1
    <3> QED
      BY <3>1, <3>2 DEF AtEnd
  <2> QED
    BY <1>1, <1>3, <1>9, <1>11, <2>1, ResumePlain
<1> QED
  BY <1>4, <1>5, <1>6, <1>8, <1>10, <1>11 DEF Bar

(* done: where a word is the last thing the line has                       *)
LEMMA DoneAfterWord ==
    ASSUME ParserInv, PlainInv, fate = "scan", quote = "none", at <= Len(buf),
           AtEnd(buf, at), CharAt(at) \in {"sp", Nul}, Done(cmds)
    PROVE  PlainInv'
<1>1. /\ buf \in Seq(Chars) /\ at \in Nat /\ Len(buf) \in Nat /\ at \in 0 .. Len(buf)
      /\ Len(buf) \in at .. Len(buf) /\ Len(buf) \in 0 .. Len(buf) /\ ListOK(cmds)
  BY PlaceFacts
<1>2. ASSUME ~torn, Plain(buf)
      PROVE  fate' = "parsed" /\ Shown' = Meaning(buf) /\ redir'.type = "NONE"
  <2> DEFINE l == Lexed(buf)[at]  z == Lexed(buf)[Len(buf)]  d == Standing(l)
  <2>1. Matches(buf, at, quote, cmds) /\ redir.type = "NONE" /\ Good(buf, Len(buf))
    BY <1>2, PlainHere
  <2>2. l \in Lexers /\ z \in Lexers
    BY <1>1, LexedIs
  <2>3. l.quote = "none" /\ l.glue = "word" /\ Agree(cmds, d, 1)
    <3>1. l.glue = "word"
      <4>1. SUFFICES ASSUME l.glue # "word" PROVE FALSE
        OBVIOUS
      <4>2. at < Len(buf) /\ buf[at + 1] # "sp"
        BY <2>1, <4>1 DEF Matches
      <4>3. CharAt(at) = buf[at + 1] /\ CharAt(at) # Nul
        BY <1>1, <4>2, CharType DEF CharAt
      <4> QED
        BY <4>2, <4>3
    <3> QED
      BY <2>1, <3>1 DEF Matches, Mark
  <2>4. z.toks = l.toks
    <3>1. \A i \in at + 1 .. Len(buf) : buf[i] = "sp"
      BY DEF AtEnd
    <3> QED
      BY <1>1, <2>3, <3>1, BlanksSkipped
  <2>5. GoodToks(l.toks)
    BY <2>1, <2>4 DEF Good
  <2> DEFINE T == l.toks
  <2>6. T \in Seq(Tokens) /\ T # <<>> /\ T[Len(T)].kind = "word" /\ d = Assembly(T)
    BY <2>2, <2>3, LexerFacts DEF Standing
  <2>7. Lexed(buf)[Len(buf)].toks = T
    BY <2>4
  <2>8. GoodToks(T)
    BY <2>5
  <2> HIDE DEF l, z, d, T
  <2>9. /\ d \in CommandLists /\ Args(d) # <<>> /\ Len(Last(Args(d))) \in Nat
        /\ Len(Last(Args(d))) + 2 <= MaxEachArg
    BY <2>6, <2>8, LastWord
  <2>10. Meaning(buf) = d
    BY <2>6, <2>7, <2>9, MeaningIs
  <2>11. fate' = "parsed" /\ Shown' = d /\ redir' = redir
    BY <1>1, <2>3, <2>9, DoneMatches
  <2> QED
    BY <2>1, <2>10, <2>11
<1>3. WriteFailure(cmds) \notin {"start", "scan"}
  BY DEF WriteFailure
<1>4. fate' \notin {"start", "scan"} /\ UNCHANGED <<buf, torn>>
  BY <1>3 DEF Done, Fail
<1> QED
  BY <1>2, <1>4, PlainOver

LEMMA BlankPlain == ASSUME ParserInv, PlainInv, Blank PROVE PlainInv'
<1>1. fate = "scan" /\ CharAt(at) = "sp" /\ CharAt(at) # Nul
  BY DEF Blank, Scan, Nul
<1>2. /\ buf \in Seq(Chars) /\ at \in Nat /\ at < Len(buf) /\ Len(buf) \in Nat
      /\ at + 1 \in Nat /\ at + 1 <= Len(buf) /\ at < at + 1 /\ Longer(buf, buf)
      /\ at + 1 \in 0 .. Len(buf) /\ buf[at + 1] = "sp" /\ ListOK(cmds) /\ at <= Len(buf)
  BY <1>1, SeparatorPlace, PlaceFacts
<1>3. CASE Ignore /\ Write(1)
  <2>1. CharAt(at) # Mark(quote) \/ quote = "none"
    BY <1>1 DEF Mark, ParserInv
  <2> QED
    BY <1>1, <1>3, <2>1, WritePlain DEF Ignore
<1>4. CASE ~Ignore /\ AtEnd(buf, at) /\ Done(cmds)
  BY <1>1, <1>2, <1>4, DoneAfterWord DEF Ignore
<1>5. CASE ~Ignore /\ ~AtEnd(buf, at)
  <2> DEFINE c == Written(cmds, Nul, 1)  m == NonBlank(buf, at)
             e == WithArgs(c, Append(Args(c), <<>>))
  <2>1. quote = "none"
    BY <1>5 DEF Ignore
  <2>2. ASSUME ~torn, Good(buf, at + 1)
        PROVE  /\ Writable(cmds, 1) /\ Len(Args(cmds)) < Slots
               /\ Matches(buf, m, "none", e) /\ target = "argv" /\ redir.type = "NONE"
    <3>1. Matches(buf, at, "none", cmds) /\ target = "argv" /\ redir.type = "NONE"
      BY <1>1, <1>2, <2>1, <2>2, GoodHere
    <3> QED
      BY <1>2, <1>5, <2>2, <3>1, BlankMatches
  <2>3. ASSUME ~torn, Plain(buf) PROVE Writable(cmds, 1) /\ Len(Args(cmds)) < Slots
    <3>1. Good(buf, at + 1)
      BY <1>1, <1>2, <2>3, PlainHere
    <3> QED
      BY <2>2, <2>3, <3>1
  <2>4. CASE ~Writable(cmds, 1) /\ Fail(WriteFailure(cmds))
    <3>1. WriteFailure(cmds) \in Broken
      BY WriteFailureBreaks
    <3> QED
      BY <2>3, <2>4, <3>1, PlainFail
  <2>5. CASE Len(Args(cmds)) >= Slots /\ Fail("overflow")
    <3>1. ~torn => ~Plain(buf)
      <4>1. Len(Args(cmds)) \in Nat /\ Slots \in Nat
        <5> DEFINE a == Args(cmds)
        <5>1. a \in Seq(Strings)
          BY <1>2, ListIs
        <5> HIDE DEF a
        <5>2. Len(a) \in Nat
          BY <5>1, LenProperties
        <5> QED
          BY <5>2, SizeFacts DEF a
      <4> QED
        BY <2>3, <2>5, <4>1
    <3> QED
      BY <2>5, <3>1, PlainFail DEF Broken
  <2>6. CASE /\ cmds' = e /\ at' = m
             /\ UNCHANGED <<buf, quote, target, redir, wrote, torn, fate>>
    <3>1. m \in Nat /\ at + 1 <= m /\ m <= Len(buf)
      <4>1. m \in at .. Len(buf) - 1 /\ buf[m + 1] # "sp"
        BY <1>2, <1>5, NonBlankFound
      <4> HIDE DEF m
      <4>2. m # at
        BY <1>2, <4>1
      <4> QED
        BY <1>2, <4>1, <4>2
    <3> HIDE DEF m, e
    <3>2. Good(buf, m) => Good(buf, at + 1)
      <4>1. m \in 0 .. Len(buf) /\ at + 1 \in 0 .. m
        BY <1>2, <3>1
      <4> QED
        BY <1>2, <4>1, GoodGoesBack
    <3>3. ~torn' /\ Good(buf', at') => Match'
      BY <2>1, <2>2, <2>6, <3>2 DEF Match
    <3> QED
      BY <1>1, <2>6, <3>3, PlainScan
  <2> QED
    BY <1>5, <2>4, <2>5, <2>6 DEF Blank
<1> QED
  BY <1>3, <1>4, <1>5 DEF Blank

LEMMA UnreadIs ==
    /\ Unread.quote = "none" /\ Unread.glue = "" /\ Unread.toks = <<>>
    /\ Unread \in Lexers
<1>1. Unread.quote = "none" /\ Unread.glue = "" /\ Unread.toks = <<>>
  BY DEF Unread
<1>2. Unread \in Lexers
  BY EmptySeq DEF Lexers, Unread
<1> QED
  BY <1>1, <1>2

(* A line of blanks has no tokens. *)
LEMMA BlankLineNotPlain ==
    ASSUME NEW b \in Seq(Chars), AtEnd(b, 0)
    PROVE  ~Plain(b)
<1>1. Len(b) \in Nat /\ 0 \in 0 .. Len(b) /\ Len(b) \in 0 .. Len(b)
  BY LenProperties
<1>2. Lexed(b)[0].quote = "none" /\ Lexed(b)[0].toks = <<>>
  <2>1. Lexed(b)[0] = Unread
    BY LexedIs
  <2> QED
    BY <2>1, UnreadIs
<1>3. \A i \in 0 + 1 .. Len(b) : b[i] = "sp"
  BY DEF AtEnd
<1>4. Lexed(b)[Len(b)].toks = <<>>
  BY <1>1, <1>2, <1>3, BlanksSkipped
<1> QED
  BY <1>4, PlainIsGood

LEMMA EndOfBufferPlain == ASSUME ParserInv, PlainInv, EndOfBuffer PROVE PlainInv'
<1>1. fate = "scan" /\ CharAt(at) = Nul
  BY DEF EndOfBuffer, Scan
<1>2. /\ buf \in Seq(Chars) /\ at \in Nat /\ Len(buf) \in Nat /\ at = Len(buf)
  <2>1. buf \in Seq(Chars) /\ at \in Nat /\ Len(buf) \in Nat /\ at <= Len(buf)
    BY PlaceFacts
  <2>2. ~(at < Len(buf))
    BY <1>1, <2>1, CharType
  <2> QED
    BY <2>1, <2>2
<1>3. ASSUME ~torn, Plain(buf) PROVE ~Ignore /\ at # First
  <2>1. Matches(buf, at, quote, cmds) /\ (Ignore <=> quote # "none")
    BY <1>1, <1>3, PlainHere
  <2>2. Lexed(buf)[at].quote = "none"
    BY <1>2, <1>3, PlainIsGood
  <2>3. quote = "none"
    BY <2>1, <2>2 DEF Matches, Mark, ParserInv
  <2>4. First \in 0 .. Len(buf) - 1
    BY <1>2, <1>3, BlankLineNotPlain, NonBlankFound DEF First
  <2> QED
    BY <1>2, <2>1, <2>3, <2>4
<1>4. CASE ~Ignore /\ Done(cmds)
  <2>1. AtEnd(buf, at)
    BY <1>2 DEF AtEnd
  <2> QED
    BY <1>1, <1>2, <1>4, <2>1, DoneAfterWord DEF Ignore
<1>5. CASE at = First /\ Done(cmds)
  <2>1. WriteFailure(cmds) \notin {"start", "scan"}
    BY DEF WriteFailure
  <2>2. fate' \notin {"start", "scan"} /\ UNCHANGED <<buf, torn>>
    BY <1>5, <2>1 DEF Done, Fail
  <2> QED
    BY <1>3, <1>5, <2>2, PlainOver
<1>6. CASE Ignore /\ (NoMoreLines \/ Fail("stray"))
  BY <1>3, <1>6, PlainFail DEF NoMoreLines, Broken
<1>7. CASE torn' = TRUE /\ UNCHANGED fate
  BY <1>1, <1>7, PlainScan
<1> QED
  BY <1>4, <1>5, <1>6, <1>7 DEF EndOfBuffer

-----------------------------------------------------------------------------
(* From the first character to the list that is handed over *)

(* What filpinfo begins with *)
LEMMA FreshAgrees ==
    LET d == Standing(Unread)
    IN  Unread \in Lexers /\ Agree(<<NewCommand>>, d, 1) /\ Last(Args(<<NewCommand>>)) = Last(Args(d))
<1> DEFINE A == <<Bare>>  e == <<>>  d == With(A, e)
<1>1. Bare \in Command /\ Bare.type = "SINGLE" /\ Bare.argv = e
  BY EmptySeq DEF Bare, Command, Types
<1>2. A \in CommandLists /\ Len(A) = 1 /\ A[1] = Bare /\ Args(A) = e /\ e \in Seq(Chars)
  BY <1>1, EmptySeq DEF CommandLists, Args, Last
<1>3. Standing(Unread) = d
  BY AssemblyNone, UnreadIs DEF Standing
<1> HIDE DEF A, e
<1>4. Len(d) = 1 /\ d[1].type = "SINGLE" /\ Args(d) = Append(e, e)
  <2>1. /\ Len(d) = Len(A) /\ d[Len(A)].type = A[Len(A)].type
        /\ Args(d) = Append(Args(A), e)
    BY <1>2, WithIs
  <2> HIDE DEF d
  <2> QED
    BY <1>1, <1>2, <2>1
<1> HIDE DEF d
<1>5. Append(e, e) = <<e>>
  BY DEF e
<1>6. d[1].argv = <<e>> /\ Last(Args(d)) = e
  BY <1>4, <1>5 DEF Args, Last
<1> DEFINE c == <<NewCommand>>
<1>7. Len(c) = 1 /\ c[1].type = "SINGLE" /\ c[1].argv = <<e>> /\ Last(Args(c)) = e
  BY DEF NewCommand, Args, Last, e
<1> HIDE DEF c
<1>8. Holds(e, e, 1)
  <2>1. Len(e) \in Nat
    BY EmptySeq DEF e
  <2> QED
    BY <2>1, Exactly
<1>9. AgreeArgs(<<e>>, <<e>>, 1)
  BY <1>8 DEF AgreeArgs
<1>10. Agree(c, d, 1)
  <2>1. \A n \in 1 .. Len(c) : n = 1
    BY <1>7
  <2> QED
    BY <1>4, <1>6, <1>7, <1>9, <2>1 DEF Agree, AgreeCommand
<1> QED
  BY <1>3, <1>6, <1>7, <1>10, UnreadIs DEF c

LEMMA BeginPlain == ASSUME ParserInv, PlainInv, Begin PROVE PlainInv'
<1>1. fate = "start" /\ Fresh /\ buf \in Seq(Chars)
  BY DEF Begin, PlainInv, ParserInv
<1>2. CASE AtEnd(buf, 0) /\ Done(cmds)
  <2>1. WriteFailure(cmds) \notin {"start", "scan"}
    BY DEF WriteFailure
  <2>2. fate' \notin {"start", "scan"} /\ UNCHANGED <<buf, torn>>
    BY <1>2, <2>1 DEF Done, Fail
  <2> QED
    BY <1>1, <1>2, <2>2, BlankLineNotPlain, PlainOver
<1>3. CASE /\ ~AtEnd(buf, 0) /\ at' = First /\ fate' = "scan"
           /\ UNCHANGED <<buf, quote, target, cmds, redir, torn>>
  <2> DEFINE c == <<NewCommand>>  l == Lexed(buf)[0]
  <2>1. l = Unread /\ Len(buf) \in Nat
    BY <1>1, LexedIs
  <2>2. Agree(c, Standing(l), 1) /\ Last(Args(c)) = Last(Args(Standing(l)))
    BY <2>1, FreshAgrees
  <2>3. l.quote = "none" /\ l.glue = ""
    BY <2>1, UnreadIs
  <2>4. 0 < Len(buf) => buf[0 + 1] # ""
    <3>1. 0 < Len(buf) => 0 + 1 \in 1 .. Len(buf)
      BY <2>1
    <3>2. \A i \in 1 .. Len(buf) : buf[i] \in Chars
      BY <1>1, ElementOfSeq
    <3>3. "" \notin Chars
      BY DEF Chars, Digits
    <3> QED
      BY <3>1, <3>2, <3>3
  <2> HIDE DEF c, l
  <2>5. Matches(buf, NonBlank(buf, 0), "none", c)
    <3>1. 0 \in Nat /\ 0 <= Len(buf)
      BY <2>1
    <3>2. 0 < Len(buf) => buf[0 + 1] # l.glue
      BY <2>3, <2>4
    <3>3. l.glue # "word"
      BY <2>3
    <3> QED
      BY <1>1, <1>3, <2>2, <2>3, <3>1, <3>2, <3>3, ResumeMatches DEF l
  <2>6. /\ UNCHANGED <<buf, quote, target, cmds, redir>> /\ at' = NonBlank(buf, 0)
        /\ quote = "none" /\ target = "argv" /\ cmds = c /\ redir.type = "NONE"
    BY <1>1, <1>3 DEF Fresh, First, c
  <2>7. Match'
    BY <2>5, <2>6 DEF Match
  <2> QED
    BY <1>3, <2>7, PlainScan
<1> QED
  BY <1>2, <1>3 DEF Begin, list

LEMMA PlainInit == Init => PlainInv
<1> SUFFICES ASSUME Init PROVE PlainInv
  OBVIOUS
<1>1. fate = "start" /\ Fresh
  BY DEF Init, Fresh
<1> QED
  BY <1>1 DEF PlainInv, ParsesPlainLines, Over

LEMMA PlainStep == ParserInv /\ PlainInv /\ [Next]_vars => PlainInv'
<1> SUFFICES ASSUME ParserInv, PlainInv, [Next]_vars PROVE PlainInv'
  OBVIOUS
<1>1. CASE Next
  BY <1>1, BeginPlain, QuotePlain, BlankPlain, AmpersandPlain, BarPlain,
     EndOfBufferPlain, OrdinaryPlain, OtherPlain DEF Next
<1>2. CASE UNCHANGED vars
  <2>1. UNCHANGED <<buf, at, quote, target, cmds, redir, old, wrote, torn, fate>>
    BY <1>2 DEF vars
  <2>2. Shown' = Shown /\ Over' = Over /\ Match' = Match /\ Fresh' = Fresh
    BY <2>1 DEF Shown, Over, Match, Fresh
  <2> QED
    BY <2>1, <2>2 DEF PlainInv, ParsesPlainLines
<1> QED
  BY <1>1, <1>2

(* filpinfo hands over exactly the commands, words and separators of every *)
(* plain line, whatever its quotes, its blanks and the lines it goes on in *)
(* after &&, || or |: nothing is lost, added or moved to another command.  *)
THEOREM PlainLinesAreParsed == Spec => []ParsesPlainLines
<1>1. ParserInv /\ [Next]_vars => ParserInv'
  BY ParserStep
<1>2. PlainInv => ParsesPlainLines
  BY DEF PlainInv
<1> QED
  BY <1>1, <1>2, ParserInit, PlainInit, PlainStep, PTL DEF Spec
=============================================================================
