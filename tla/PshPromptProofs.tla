--------------------------- MODULE PshPromptProofs --------------------------
(***************************************************************************)
(* Proofs about ps_expander (PshPrompt), for every value of PS1 and every  *)
(* text that is put into it.                                               *)
(***************************************************************************)
EXTENDS PshPrompt, PshNumbers, SequenceTheorems, TLAPS

Fields == {"do", "ps1", "buf", "cur", "start", "count", "backslash", "level", "items"}

(* A copy of a text: its last character is a NUL, whatever the others are. *)
IsCopy(b) == (\E S : b \in Seq(S)) /\ Len(b) \in Nat /\ b[Len(b)] = NUL

(* What s is to be when Go takes it a character further                    *)
Ready(s) ==
    /\ DOMAIN s = Fields
    /\ IsCopy(s.buf) /\ s.cur \in 1 .. Len(s.buf) - 1
    /\ s.start \in 1 .. s.cur + 1 /\ s.count \in Nat /\ s.level \in 0 .. 2
    /\ s.start + s.count <= s.cur + 1
    /\ s.backslash => s.level = 0 /\ s.start + s.count <= s.cur
    /\ s.level > 0 =>
        ~s.backslash /\ s.buf[s.cur + 1] \in Digits /\ s.start + s.count <= s.cur - s.level

(* And when it is there: a backslash or the digits of a code behind it are *)
(* not counted yet.                                                        *)
Scanning(s) ==
    /\ IsCopy(s.buf) /\ s.cur \in 1 .. Len(s.buf) - 1
    /\ s.start \in 1 .. s.cur /\ s.count \in Nat /\ s.level \in 0 .. 2
    /\ s.start + s.count <= s.cur
    /\ s.backslash => s.level = 0 /\ s.start + s.count <= s.cur - 1
    /\ s.level > 0 =>
        ~s.backslash /\ s.buf[s.cur] \in Digits /\ s.start + s.count <= s.cur - s.level - 1

PromptInv ==
    /\ DOMAIN ex = Fields
    /\ ex.do \in {"idle", "expand", "rest", "shown", "fault", "exhausted"}
    /\ ex.do = "expand" => Scanning(ex)
    /\ ex.do = "rest" => IsCopy(ex.buf) /\ ex.start \in 1 .. Len(ex.buf)

-----------------------------------------------------------------------------
LEMMA IdleFacts == DOMAIN Idle = Fields /\ Idle.do = "idle"
BY DEF Idle, Fields

(* The string builder and reset_start leave the rest of the state alone.   *)
LEMMA PieceFacts ==
    ASSUME NEW s, DOMAIN s = Fields, NEW n
    PROVE  /\ DOMAIN Piece(s, n) = Fields
           /\ \A x \in Fields \ {"items"} : Piece(s, n)[x] = s[x]
BY DEF Piece, Fields

LEMMA TextFacts ==
    ASSUME NEW s, DOMAIN s = Fields, NEW t
    PROVE  /\ DOMAIN Text(s, t) = Fields
           /\ \A x \in Fields \ {"items"} : Text(s, t)[x] = s[x]
BY DEF Text, Fields

LEMMA ResetFacts ==
    ASSUME NEW s, DOMAIN s = Fields, NEW n
    PROVE  /\ DOMAIN Reset(s, n) = Fields
           /\ Reset(s, n).buf = s.buf /\ Reset(s, n).level = s.level
           /\ Reset(s, n).start = n + 1 /\ Reset(s, n).cur = n
           /\ Reset(s, n).count = 0 /\ ~Reset(s, n).backslash
BY DEF Reset, Fields

LEMMA CopyUpdated ==
    ASSUME NEW b, IsCopy(b), NEW i \in 1 .. Len(b) - 1, NEW c,
           NEW d, d = [b EXCEPT ![i] = c]
    PROVE  IsCopy(d) /\ Len(d) = Len(b)
<1>1. PICK S : b \in Seq(S)
  BY DEF IsCopy
<1>2. b \in Seq(S \cup {c}) /\ i \in 1 .. Len(b) /\ Len(b) \in Nat
  BY <1>1, SeqMonotonic, LenProperties
<1>3. /\ d \in Seq(S \cup {c}) /\ Len(d) = Len(b)
      /\ \A j \in 1 .. Len(b) : d[j] = IF j = i THEN c ELSE b[j]
  BY <1>2, ExceptSeq
<1>4. d[Len(b)] = NUL
  <2>1. Len(b) \in 1 .. Len(b) /\ Len(b) # i
    BY <1>2
  <2>2. b[Len(b)] = NUL
    BY DEF IsCopy
  <2> QED
    BY <1>3, <2>1, <2>2
<1> QED
  BY <1>2, <1>3, <1>4 DEF IsCopy

LEMMA GoKeeps ==
    ASSUME NEW s, Ready(s), Go(s)
    PROVE  PromptInv'
<1> DEFINE t == [s EXCEPT !.cur = @ + 1,
                          !.do = IF s.buf[s.cur + 1] = NUL THEN "rest" ELSE "expand"]
<1>1. ex' = t
  BY DEF Go
<1>2. /\ DOMAIN t = Fields /\ t.buf = s.buf /\ t.cur = s.cur + 1 /\ t.start = s.start
      /\ t.count = s.count /\ t.level = s.level /\ t.backslash = s.backslash
      /\ t.do = IF s.buf[s.cur + 1] = NUL THEN "rest" ELSE "expand"
  BY DEF Ready, Fields
<1> HIDE DEF t
<1>3. t.do = "expand" => Scanning(t)
  <2> SUFFICES ASSUME t.do = "expand" PROVE Scanning(t)
    OBVIOUS
  <2>1. s.buf[s.cur + 1] # NUL
    BY <1>2
  <2>2. s.cur + 1 # Len(s.buf) /\ Len(s.buf) \in Nat /\ s.cur \in 1 .. Len(s.buf) - 1
    BY <2>1 DEF Ready, IsCopy
  <2>3. t.cur \in 1 .. Len(t.buf) - 1
    BY <1>2, <2>2
  <2>4. t.backslash => t.level = 0 /\ t.start + t.count <= t.cur - 1
    BY <1>2, <2>2 DEF Ready
  <2>5. t.level > 0 =>
          ~t.backslash /\ t.buf[t.cur] \in Digits /\ t.start + t.count <= t.cur - t.level - 1
    <3> SUFFICES ASSUME t.level > 0
                 PROVE  /\ ~t.backslash /\ t.buf[t.cur] \in Digits
                        /\ t.start + t.count <= t.cur - t.level - 1
      OBVIOUS
    <3>1. ~s.backslash /\ s.buf[s.cur + 1] \in Digits /\ s.start + s.count <= s.cur - s.level
      BY <1>2 DEF Ready
    <3> QED
      BY <1>2, <2>2, <3>1 DEF Ready
  <2> QED
    BY <1>2, <2>2, <2>3, <2>4, <2>5 DEF Ready, Scanning
<1>4. t.do \in {"rest", "expand"}
  BY <1>2
<1>5. IsCopy(t.buf) /\ t.start \in 1 .. Len(t.buf)
  <2>1. Len(s.buf) \in Nat /\ s.cur \in 1 .. Len(s.buf) - 1
    BY DEF Ready, IsCopy
  <2> QED
    BY <1>2, <2>1 DEF Ready
<1> QED
  BY <1>1, <1>2, <1>3, <1>4, <1>5 DEF PromptInv

LEMMA ResetReady ==
    ASSUME NEW s, DOMAIN s = Fields, IsCopy(s.buf), s.level = 0,
           NEW n \in 1 .. Len(s.buf) - 1
    PROVE  Ready(Reset(s, n))
<1>1. Len(s.buf) \in Nat
  BY DEF IsCopy
<1> QED
  BY <1>1, ResetFacts DEF Ready

-----------------------------------------------------------------------------
(* One lemma for each case of the switch *)

LEMMA ScanFacts ==
    ASSUME PromptInv, Expanding
    PROVE  /\ DOMAIN ex = Fields /\ Scanning(ex) /\ Len(ex.buf) \in Nat
           /\ ex.cur \in Nat /\ ex.start \in Nat \ {0} /\ ex.count \in Nat
           /\ ex.backslash \/ Here \notin Digits => ex.level = 0
BY DEF PromptInv, Expanding, Scanning, IsCopy, Here

LEMMA CountedFacts ==
    ASSUME DOMAIN ex = Fields
    PROVE  /\ DOMAIN Counted = Fields /\ Counted.count = ex.count + 1
           /\ \A x \in Fields \ {"count"} : Counted[x] = ex[x]
BY DEF Counted, Fields

LEMMA BackslashKeeps ==
    ASSUME PromptInv, Backslash
    PROVE  PromptInv'
<1>1. Expanding /\ Here = "\\"
  BY DEF Backslash
<1>2. /\ DOMAIN ex = Fields /\ Scanning(ex) /\ Len(ex.buf) \in Nat /\ ex.level = 0
      /\ ex.cur \in Nat /\ ex.start \in Nat \ {0} /\ ex.count \in Nat
  BY <1>1, ScanFacts DEF Digits
<1>3. CASE ex.backslash
  <2> DEFINE s == Piece(ex, ex.count + 1)
  <2>1. DOMAIN s = Fields /\ s.buf = ex.buf /\ s.level = 0
    BY <1>2, PieceFacts DEF Fields
  <2>2. Ready(Reset(s, ex.cur))
    <3> HIDE DEF s
    <3> QED
      BY <1>2, <2>1, ResetReady DEF Scanning
  <2> QED
    BY <1>3, <2>2, GoKeeps DEF Backslash
<1>4. CASE ~ex.backslash
  <2> DEFINE s == [ex EXCEPT !.backslash = TRUE]
  <2>1. /\ DOMAIN s = Fields /\ s.buf = ex.buf /\ s.cur = ex.cur /\ s.start = ex.start
        /\ s.count = ex.count /\ s.level = ex.level
    BY <1>2 DEF Fields
  <2>2. Ready(s)
    <3> HIDE DEF s
    <3> QED
      BY <1>2, <2>1 DEF Scanning, Ready
  <2> QED
    BY <1>4, <2>2, GoKeeps DEF Backslash
<1> QED
  BY <1>3, <1>4

LEMMA ReplaceKeeps ==
    ASSUME PromptInv, Replace
    PROVE  PromptInv'
<1>1. Expanding /\ ex.backslash
  BY DEF Replace
<1>2. /\ DOMAIN ex = Fields /\ Scanning(ex) /\ Len(ex.buf) \in Nat /\ ex.level = 0
      /\ ex.cur \in Nat /\ ex.start \in Nat \ {0} /\ ex.count \in Nat
  BY <1>1, ScanFacts
<1> DEFINE at == ex.cur - 1
           code == Code(Here)
           b == [ex.buf EXCEPT ![at] = code]
<1>3. at \in 1 .. Len(ex.buf) - 1
  BY <1>1, <1>2 DEF Scanning
<1>4. IsCopy(b) /\ Len(b) = Len(ex.buf)
  <2>1. IsCopy(ex.buf)
    BY <1>2 DEF Scanning
  <2>2. b = [ex.buf EXCEPT ![at] = code]
    OBVIOUS
  <2> HIDE DEF at, code, b
  <2> QED
    BY ZenonT(30), <1>3, <2>1, <2>2, CopyUpdated
<1> DEFINE c == [Counted EXCEPT !.buf[at] = code]
           s == Piece(c, Counted.count)
<1>5. DOMAIN c = Fields /\ c.buf = b /\ c.level = 0
  BY <1>2, CountedFacts DEF Fields
<1> HIDE DEF b, c
<1>6. DOMAIN s = Fields /\ s.buf = b /\ s.level = 0
  BY <1>5, PieceFacts DEF Fields
<1>7. Ready(Reset(s, ex.cur))
  <2> HIDE DEF s
  <2> QED
    BY <1>2, <1>4, <1>6, ResetReady DEF Scanning
<1>8. Go(Reset(s, ex.cur))
  BY DEF Replace, c
<1> QED
  BY <1>7, <1>8, GoKeeps

LEMMA InsertKeeps ==
    ASSUME PromptInv, Insert
    PROVE  PromptInv'
<1>1. Expanding /\ ex.backslash
  BY DEF Insert
<1>2. /\ DOMAIN ex = Fields /\ Scanning(ex) /\ Len(ex.buf) \in Nat /\ ex.level = 0
      /\ ex.cur \in Nat
  BY <1>1, ScanFacts
<1> DEFINE c == Piece(Counted, ex.count)
           s == Text(c, Inserted(Here))
<1>3. DOMAIN c = Fields /\ c.buf = ex.buf /\ c.level = 0
  BY <1>2, CountedFacts, PieceFacts DEF Fields
<1>4. DOMAIN s = Fields /\ s.buf = ex.buf /\ s.level = 0
  <2> HIDE DEF c
  <2> QED
    BY <1>3, TextFacts DEF Fields
<1>5. Ready(Reset(s, ex.cur))
  <2> HIDE DEF s
  <2> QED
    BY <1>2, <1>4, ResetReady DEF Scanning
<1>6. Go(Reset(s, ex.cur))
  BY DEF Insert
<1> QED
  BY <1>5, <1>6, GoKeeps

LEMMA NoPasswdEntryKeeps ==
    ASSUME NoPasswdEntry
    PROVE  PromptInv'
<1>1. DOMAIN ex' = Fields /\ ex'.do = "fault"
  BY DEF NoPasswdEntry, Idle, Fields
<1> QED
  BY <1>1 DEF PromptInv

LEMMA OctalKeeps ==
    ASSUME PromptInv, Octal
    PROVE  PromptInv'
<1>1. Expanding /\ Here \in Digits /\ (ex.level > 0 \/ ex.backslash)
  BY DEF Octal
<1>2. /\ DOMAIN ex = Fields /\ Scanning(ex) /\ Len(ex.buf) \in Nat /\ ex.level \in 0 .. 2
      /\ ex.cur \in Nat /\ ex.start \in Nat \ {0} /\ ex.count \in Nat
  BY <1>1, ScanFacts DEF Scanning
<1> DEFINE at == ex.cur - ex.level - 1
           code == Char(OctalValue(SubSeq(ex.buf, at + 1, ex.cur)))
<1>3. at \in 1 .. Len(ex.buf) - 1 /\ ex.start + ex.count <= at
  <2> HIDE DEF code
  <2>1. /\ ex.start + ex.count <= ex.cur - ex.level - 1
        /\ ex.cur <= Len(ex.buf) - 1 /\ ex.level \in Nat
    BY <1>1, <1>2 DEF Scanning
  <2> QED
    BY SMTT(20), <1>2, <2>1
<1>4. CASE CodeEnds
  <2> DEFINE b == [ex.buf EXCEPT ![at] = code]
             c == [ex EXCEPT !.level = 0, !.buf[at] = code]
             s == Piece(c, ex.count + 1)
  <2>1. DOMAIN c = Fields /\ c.buf = b /\ c.level = 0
    BY <1>2 DEF Fields
  <2>2. IsCopy(b) /\ Len(b) = Len(ex.buf)
    <3>1. IsCopy(ex.buf)
      BY <1>2 DEF Scanning
    <3>2. b = [ex.buf EXCEPT ![at] = code]
      OBVIOUS
    <3> HIDE DEF at, code, b
    <3> QED
      BY <1>3, <3>1, <3>2, CopyUpdated
  <2> HIDE DEF b, c
  <2>3. DOMAIN s = Fields /\ s.buf = b /\ s.level = 0
    BY <2>1, PieceFacts DEF Fields
  <2>4. Ready(Reset(s, ex.cur))
    <3> HIDE DEF s
    <3> QED
      BY <1>2, <2>2, <2>3, ResetReady DEF Scanning
  <2>5. Go(Reset(s, ex.cur))
    BY <1>4 DEF Octal, c
  <2> QED
    BY <2>4, <2>5, GoKeeps
<1>5. CASE ~CodeEnds
  <2> DEFINE s == [ex EXCEPT !.level = @ + 1, !.backslash = FALSE]
  <2>1. /\ DOMAIN s = Fields /\ s.buf = ex.buf /\ s.cur = ex.cur /\ s.start = ex.start
        /\ s.count = ex.count /\ s.level = ex.level + 1 /\ ~s.backslash
    BY <1>2 DEF Fields
  <2>2. ex.level + 1 # 3 /\ ex.buf[ex.cur + 1] \in Digits
    BY <1>5 DEF CodeEnds, Following
  <2>3. Ready(s)
    <3> HIDE DEF s
    <3> QED
      BY SMTT(20), <1>2, <1>3, <2>1, <2>2 DEF Scanning, Ready
  <2>4. Go(s)
    BY <1>5 DEF Octal
  <2> QED
    BY <2>3, <2>4, GoKeeps
<1> QED
  BY <1>4, <1>5

LEMMA OrdinaryKeeps ==
    ASSUME PromptInv, Ordinary
    PROVE  PromptInv'
<1>1. Expanding /\ ~(ex.level > 0 /\ Here \in Digits)
  BY DEF Ordinary
<1>2. /\ DOMAIN ex = Fields /\ Scanning(ex) /\ Len(ex.buf) \in Nat
      /\ ex.cur \in Nat /\ ex.start \in Nat \ {0} /\ ex.count \in Nat
  BY <1>1, ScanFacts
<1>3. ex.level = 0
  BY <1>1, <1>2 DEF Scanning, Here
<1>4. CASE ~ex.backslash /\ Go(Counted)
  <2>1. /\ DOMAIN Counted = Fields /\ Counted.count = ex.count + 1
        /\ Counted.buf = ex.buf /\ Counted.cur = ex.cur /\ Counted.start = ex.start
        /\ Counted.level = 0 /\ Counted.backslash = ex.backslash
    BY <1>2, <1>3, CountedFacts DEF Fields
  <2>2. Ready(Counted)
    BY <1>2, <1>4, <2>1 DEF Scanning, Ready
  <2> QED
    BY <1>4, <2>2, GoKeeps
<1> DEFINE s == [Counted EXCEPT !.count = @ + 1, !.backslash = FALSE]
<1>5. CASE ex.backslash /\ Go(s)
  <2>1. /\ DOMAIN s = Fields /\ s.count = ex.count + 1 + 1
        /\ s.buf = ex.buf /\ s.cur = ex.cur /\ s.start = ex.start
        /\ s.level = 0 /\ ~s.backslash
    BY <1>2, <1>3, CountedFacts DEF Fields
  <2>2. Ready(s)
    <3> HIDE DEF s
    <3> QED
      BY SMTT(20), <1>2, <1>5, <2>1 DEF Scanning, Ready
  <2> QED
    BY <1>5, <2>2, GoKeeps
<1> QED
  BY <1>4, <1>5 DEF Ordinary

(* A string that starts before the NUL ends before it. *)
LEMMA StringAtFacts ==
    ASSUME NEW S, NEW b \in Seq(S), NEW n \in 1 .. Len(b), b[Len(b)] = NUL
    PROVE  /\ StringAt(b, n) \in Seq(S)
           /\ Len(StringAt(b, n)) \in Nat /\ Len(StringAt(b, n)) <= Len(b) - n
<1> DEFINE nuls == {k \in n .. Len(b) : b[k] = NUL}
           last == Min(nuls) - 1
<1>1. Len(b) \in Nat
  BY LenProperties
<1>2. nuls \subseteq Nat /\ Len(b) \in nuls
  BY <1>1
<1>3. last \in Int /\ last <= Len(b) - 1 /\ n <= last + 1
  <2>1. Min(nuls) \in nuls
    <3> HIDE DEF nuls
    <3> QED
      BY <1>2, MinIsLeast
  <2>2. Min(nuls) \in n .. Len(b)
    BY <2>1
  <2> QED
    BY <1>1, <2>2
<1>4. StringAt(b, n) = SubSeq(b, n, last)
  BY DEF StringAt
<1> HIDE DEF last
<1>5. \A i \in n .. last : b[i] \in S
  BY <1>1, <1>3, ElementOfSeq
<1>6. /\ SubSeq(b, n, last) \in Seq(S)
      /\ Len(SubSeq(b, n, last)) = IF n <= last THEN last - n + 1 ELSE 0
  BY <1>3, <1>5, SubSeqProperties
<1> QED
  BY <1>1, <1>3, <1>4, <1>6

LEMMA UpToFirstFacts ==
    ASSUME NEW S, NEW t \in Seq(S), NEW c
    PROVE  /\ Len(UpToFirst(c, t)) \in Nat
           /\ UpToFirst(c, t) # t => Len(UpToFirst(c, t)) < Len(t)
<1> DEFINE ends == {Len(t) + 1} \cup {n \in DOMAIN t : t[n] = c}
           stop == Min(ends) - 1
<1>1. Len(t) \in Nat /\ DOMAIN t = 1 .. Len(t)
  BY LenProperties
<1>2. stop \in 0 .. Len(t)
  <2>1. ends \subseteq 1 .. Len(t) + 1 /\ ends # {} /\ ends \subseteq Nat
    BY <1>1
  <2> HIDE DEF ends
  <2>2. Min(ends) \in ends
    BY <2>1, MinIsLeast
  <2>3. Min(ends) \in 1 .. Len(t) + 1
    BY <2>1, <2>2
  <2> QED
    BY <1>1, <2>3
<1>3. UpToFirst(c, t) = SubSeq(t, 1, stop)
  BY DEF UpToFirst
<1> HIDE DEF stop
<1>4. \A i \in 1 .. stop : t[i] \in S
  BY <1>1, <1>2, ElementOfSeq
<1>5. Len(SubSeq(t, 1, stop)) = stop
  <2>1. Len(SubSeq(t, 1, stop)) = IF 1 <= stop THEN stop - 1 + 1 ELSE 0
    BY <1>1, <1>2, <1>4, SubSeqProperties
  <2> QED
    BY <1>1, <1>2, <2>1
<1>6. stop = Len(t) => UpToFirst(c, t) = t
  BY <1>3, SubSeqFull
<1> HIDE DEF ends
<1>7. Len(UpToFirst(c, t)) = stop
  BY <1>3, <1>5
<1>8. stop # Len(t) => stop < Len(t)
  <2>1. \A l \in Nat : \A k \in 0 .. l : k # l => k < l
    OBVIOUS
  <2> QED
    BY <1>1, <1>2, <2>1
<1>9. stop \in Nat
  BY <1>1, <1>2
<1> QED
  BY <1>6, <1>7, <1>8, <1>9

LEMMA FormatTimeKeeps ==
    ASSUME PromptInv, FormatTime
    PROVE  PromptInv'
<1>1. Expanding /\ ex.backslash /\ Following = "{"
  BY DEF FormatTime
<1>2. /\ DOMAIN ex = Fields /\ Scanning(ex) /\ Len(ex.buf) \in Nat /\ ex.level = 0
      /\ ex.cur \in 1 .. Len(ex.buf) - 1
  BY <1>1, ScanFacts DEF Scanning
<1> DEFINE rest == StringAt(ex.buf, ex.cur + 2)
           format == UpToFirst("}", rest)
           end == IF format = rest THEN ex.cur + 1 + Len(rest)
                  ELSE ex.cur + 2 + Len(format)
           time == IF format = <<>> THEN Clock["t"] ELSE Strftime(format)
(* The { is not the last character of the copy: a NUL is behind it.        *)
<1>3. ex.cur + 2 \in 1 .. Len(ex.buf) /\ ex.buf[Len(ex.buf)] = NUL
  <2>1. ex.buf[ex.cur + 1] = "{" /\ ex.buf[Len(ex.buf)] = NUL
    BY <1>1, <1>2 DEF Following, Scanning, IsCopy
  <2>2. ex.cur + 1 # Len(ex.buf)
    BY <2>1 DEF NUL
  <2>3. \A l \in Nat : \A k \in 1 .. l - 1 : k + 1 # l => k + 2 \in 1 .. l
    OBVIOUS
  <2> QED
    BY <1>2, <2>1, <2>2, <2>3
(* The format does not reach the NUL, and its } is before it.              *)
<1>4. PICK S : ex.buf \in Seq(S)
  BY <1>2 DEF Scanning, IsCopy
<1>5. /\ rest \in Seq(S) /\ Len(rest) \in Nat
      /\ Len(rest) <= Len(ex.buf) - (ex.cur + 2)
  BY <1>3, <1>4, StringAtFacts
<1>6. Len(format) \in Nat /\ (format # rest => Len(format) < Len(rest))
  <2> HIDE DEF rest
  <2> QED
    BY <1>5, UpToFirstFacts
<1>7. end \in 1 .. Len(ex.buf) - 1
  <2> HIDE DEF rest, format
  <2> QED
    BY <1>2, <1>5, <1>6
<1> HIDE DEF rest, format, time, end
<1>8. CASE ex' = [Idle EXCEPT !.do = "exhausted", !.ps1 = ex.ps1]
  BY <1>8, IdleFacts DEF PromptInv, Idle, Fields
<1>9. CASE Go(Reset(Text(Piece(Counted, ex.count), time), end))
  <2> DEFINE c == Piece(Counted, ex.count)
             s == Text(c, time)
  <2>1. DOMAIN c = Fields /\ c.buf = ex.buf /\ c.level = 0
    BY <1>2, CountedFacts, PieceFacts DEF Fields
  <2>2. DOMAIN s = Fields /\ s.buf = ex.buf /\ s.level = 0
    <3> HIDE DEF c
    <3> QED
      BY <2>1, TextFacts DEF Fields
  <2>3. Ready(Reset(s, end))
    <3>1. IsCopy(s.buf)
      BY <1>2, <2>2 DEF Scanning
    <3> HIDE DEF s
    <3> QED
      BY <1>7, <2>2, <3>1, ResetReady
  <2> QED
    BY <1>9, <2>3, GoKeeps
<1>10. IF time = <<>> THEN ex' = [Idle EXCEPT !.do = "exhausted", !.ps1 = ex.ps1]
       ELSE Go(Reset(Text(Piece(Counted, ex.count), time), end))
  BY DEF FormatTime, time, end, format, rest
<1> QED
  BY <1>8, <1>9, <1>10

-----------------------------------------------------------------------------
LEMMA BeginKeeps ==
    ASSUME PromptInv, NEW p \in Prompts, Begin(p)
    PROVE  PromptInv'
<1>1. PICK stray \in Stray \cup {<<>>} :
        ex' = [Idle EXCEPT !.do = "expand", !.ps1 = p, !.cur = 1, !.start = 1,
                           !.buf = p \o <<NUL>> \o stray \o <<NUL>>]
  BY DEF Begin
<1> DEFINE b == p \o <<NUL>> \o stray \o <<NUL>>
           T == STRING \cup {NUL}
<1>2. b \in Seq(T) /\ Len(b) \in Nat /\ Len(b) >= 2 /\ b[Len(b)] = NUL
  <2>1. p \in Seq(T) /\ stray \in Seq(T) /\ <<NUL>> \in Seq(T) /\ Len(<<NUL>>) = 1
    <3>1. p \in Seq(STRING) /\ (stray \in Seq(STRING) \/ stray = <<>>)
      BY PromptsAssumption
    <3>2. <<>> \in Seq(T) /\ STRING \subseteq T
      BY EmptySeq
    <3>3. <<NUL>> \in Seq(T) /\ Len(<<NUL>>) = 1
      OBVIOUS
    <3>4. \A u \in Seq(STRING) : u \in Seq(T)
      <4> HIDE DEF T
      <4> QED
        BY <3>2, SeqMonotonic
    <3> QED
      BY <3>1, <3>2, <3>3, <3>4
  <2> HIDE DEF T
  <2> DEFINE q == p \o <<NUL>>
             r == q \o stray
  <2>2. q \in Seq(T) /\ Len(q) = Len(p) + 1 /\ Len(p) \in Nat
    BY <2>1, ConcatProperties, LenProperties
  <2> HIDE DEF q
  <2>3. r \in Seq(T) /\ Len(r) = Len(q) + Len(stray) /\ Len(stray) \in Nat
    BY <2>1, <2>2, ConcatProperties, LenProperties
  <2> HIDE DEF r
  <2>4. b = r \o <<NUL>>
    BY DEF r, q
  <2>5. /\ r \o <<NUL>> \in Seq(T) /\ Len(r \o <<NUL>>) = Len(r) + 1
        /\ \A i \in 1 .. Len(r) + 1 :
             (r \o <<NUL>>)[i] = IF i <= Len(r) THEN r[i] ELSE <<NUL>>[i - Len(r)]
    <3> DEFINE z == <<NUL>>
    <3>1. r \in Seq(T) /\ z \in Seq(T) /\ Len(z) = 1
      BY <2>1, <2>3
    <3> HIDE DEF z
    <3>2. /\ r \o z \in Seq(T) /\ Len(r \o z) = Len(r) + Len(z)
          /\ \A i \in 1 .. Len(r) + Len(z) :
               (r \o z)[i] = IF i <= Len(r) THEN r[i] ELSE z[i - Len(r)]
      BY <3>1, ConcatProperties
    <3> QED
      BY <3>1, <3>2 DEF z
  <2>6. Len(r) \in Nat /\ Len(r) >= 1
    BY <2>2, <2>3
  <2>7. (r \o <<NUL>>)[Len(r) + 1] = NUL
    <3>1. Len(r) + 1 \in 1 .. Len(r) + 1 /\ ~(Len(r) + 1 <= Len(r))
          /\ (Len(r) + 1) - Len(r) = 1
      BY <2>6
    <3> QED
      BY <2>5, <3>1
  <2> HIDE DEF b
  <2>8. Len(b) = Len(r) + 1 /\ Len(b) \in Nat /\ Len(b) >= 2
    BY <2>4, <2>5, <2>6
  <2> QED
    BY <2>4, <2>5, <2>7, <2>8
<1> HIDE DEF b
<1>3. /\ DOMAIN ex' = Fields /\ ex'.do = "expand" /\ ex'.buf = b /\ ex'.cur = 1
      /\ ex'.start = 1 /\ ex'.count = 0 /\ ex'.level = 0 /\ ex'.backslash = FALSE
  BY <1>1 DEF Idle, Fields, b
<1>4. IsCopy(b)
  BY <1>2 DEF IsCopy
<1> QED
  BY <1>2, <1>3, <1>4 DEF PromptInv, Scanning

LEMMA YieldKeeps ==
    ASSUME PromptInv, Yield
    PROVE  PromptInv'
<1> DEFINE items == Item(ex.items, StringAt(ex.buf, ex.start))
<1>1. ex' = [Idle EXCEPT !.do = IF items = <<>> THEN "fault" ELSE "shown",
                         !.ps1 = ex.ps1, !.items = items]
  BY DEF Yield
<1> HIDE DEF items
<1>2. DOMAIN ex' = Fields /\ ex'.do \in {"fault", "shown"}
  BY <1>1 DEF Idle, Fields
<1> QED
  BY <1>2 DEF PromptInv

LEMMA ExpandKeeps ==
    ASSUME PromptInv, Expand
    PROVE  PromptInv'
BY BackslashKeeps, ReplaceKeeps, InsertKeeps, NoPasswdEntryKeeps, FormatTimeKeeps,
   OctalKeeps, OrdinaryKeeps, YieldKeeps DEF Expand

-----------------------------------------------------------------------------
(* FlattenSeq puts the pieces of a sequence behind each other. *)

LEMMA ConcatClosed ==
    ASSUME NEW C, NEW x \in Seq(C), NEW y \in Seq(C)
    PROVE  x \o y \in Seq(C)
BY ConcatProperties

LEMMA ConcatFirst ==
    ASSUME NEW C, NEW x \in Seq(C), NEW y \in Seq(C)
    PROVE  /\ x \o y = <<>> => x = <<>> /\ y = <<>>
           /\ x # <<>> => x \o y # <<>> /\ (x \o y)[1] = x[1]
<1> PICK a \in Nat, b \in Nat : a = Len(x) /\ b = Len(y)
  BY LenProperties
<1>1. /\ Len(x \o y) = a + b
      /\ \A i \in 1 .. a + b : (x \o y)[i] = IF i <= a THEN x[i] ELSE y[i - a]
  BY ConcatProperties
<1>2. (a = 0 => x = <<>>) /\ (b = 0 => y = <<>>) /\ (x = <<>> => a = 0)
  BY EmptySeq
<1>3. x \o y = <<>> => a + b = 0
  BY <1>1
<1>4. x # <<>> => 1 \in 1 .. a + b /\ 1 <= a
  BY <1>2
<1>5. x # <<>> => (x \o y)[1] = x[1]
  BY <1>1, <1>4
<1>6. x \o y = <<>> => a = 0 /\ b = 0
  BY <1>3
<1> QED
  BY <1>2, <1>5, <1>6

LEMMA FlattenFun ==
    ASSUME NEW s, Len(s) \in Nat \ {0}
    PROVE  \E f : /\ FlattenSeq(s) = f[Len(s)]
                  /\ \A i \in 1 .. Len(s) : f[i] = IF i = 1 THEN s[i] ELSE f[i - 1] \o s[i]
<1> PICK N \in Nat \ {0} : N = Len(s)
  OBVIOUS
<1>1. Len(s) = N
  OBVIOUS
<1>2. \E f : /\ FlattenSeq(s) = f[N]
             /\ \A i \in 1 .. N : f[i] = IF i = 1 THEN s[i] ELSE f[i - 1] \o s[i]
  BY <1>1, FlattenIs
<1> QED
  BY <1>1, <1>2

LEMMA FlattenOne ==
    ASSUME NEW s, NEW C, s \in Seq(Seq(C))
    PROVE  /\ FlattenSeq(s) \in Seq(C)
           /\ FlattenSeq(s) = <<>> => \A i \in 1 .. Len(s) : s[i] = <<>>
           /\ Len(s) > 0 /\ s[1] # <<>> =>
                FlattenSeq(s) # <<>> /\ FlattenSeq(s)[1] = s[1][1]
<1>1. Len(s) \in Nat
  BY LenProperties
<1>2. CASE Len(s) = 0
  <2>1. s = <<>>
    BY <1>2, EmptySeq
  <2>2. FlattenSeq(s) = <<>>
    BY <1>2, <2>1 DEF FlattenSeq
  <2> QED
    BY <1>2, <2>2, EmptySeq
<1>3. CASE Len(s) > 0
  <2> DEFINE N == Len(s)
  <2>1. N \in Nat \ {0}
    BY <1>1, <1>3
  <2>2. PICK f : /\ FlattenSeq(s) = f[N]
                 /\ \A i \in 1 .. N : f[i] = IF i = 1 THEN s[i] ELSE f[i - 1] \o s[i]
    BY <2>1, FlattenFun
  <2>3. \A i \in 1 .. N : s[i] \in Seq(C)
    BY ElementOfSeq
  <2> HIDE DEF N
  <2> DEFINE Fine(i) == /\ f[i] \in Seq(C)
                        /\ f[i] = <<>> => \A j \in 1 .. i : s[j] = <<>>
                        /\ s[1] # <<>> => f[i] # <<>> /\ f[i][1] = s[1][1]
             T == {n \in Nat : n + 1 <= N => Fine(n + 1)}
  <2>4. 0 \in T
    <3>1. f[1] = s[1] /\ s[1] \in Seq(C) /\ \A j \in 1 .. 1 : j = 1
      BY <2>1, <2>2, <2>3
    <3>2. Fine(1)
      BY <3>1
    <3>3. 0 + 1 = 1
      OBVIOUS
    <3> HIDE DEF Fine
    <3> QED
      BY <3>2, <3>3
  <2>5. ASSUME NEW n \in Nat, n \in T PROVE n + 1 \in T
    <3> SUFFICES ASSUME n + 1 + 1 <= N PROVE Fine(n + 1 + 1)
      BY DEF T
    <3> PICK i \in Nat : i = n + 1
      OBVIOUS
    <3> PICK k \in Nat : k = i + 1
      OBVIOUS
    <3>1. i <= N /\ k <= N /\ i \in 1 .. N /\ k \in 1 .. N /\ k - 1 = i /\ k # 1
      BY <2>1
    <3>2. Fine(i)
      <4> HIDE DEF Fine
      <4> QED
        BY <2>5, <3>1
    <3>3. f[k] = f[i] \o s[k] /\ f[i] \in Seq(C) /\ s[k] \in Seq(C)
      BY <2>2, <2>3, <3>1, <3>2
    <3>4. f[k] \in Seq(C)
      BY <3>3, ConcatClosed
    <3>5. f[k] = <<>> => f[i] = <<>> /\ s[k] = <<>>
      BY ZenonT(30), <3>3, ConcatFirst
    <3>6. f[k] = <<>> => \A j \in 1 .. k : s[j] = <<>>
      <4> SUFFICES ASSUME f[k] = <<>>, NEW j \in 1 .. k PROVE s[j] = <<>>
        OBVIOUS
      <4>1. j \in 1 .. i \/ j = k
        BY <3>1
      <4> QED
        BY <3>2, <3>5, <4>1
    <3>7. s[1] # <<>> => f[k] # <<>> /\ f[k][1] = s[1][1]
      <4> SUFFICES ASSUME s[1] # <<>> PROVE f[k] # <<>> /\ f[k][1] = s[1][1]
        OBVIOUS
      <4>1. f[i] # <<>> /\ f[i][1] = s[1][1]
        BY <3>2
      <4>2. f[i] \o s[k] # <<>> /\ (f[i] \o s[k])[1] = f[i][1]
        BY <3>3, <4>1, ConcatFirst
      <4> QED
        BY <3>3, <4>1, <4>2
    <3>8. Fine(k)
      BY <3>4, <3>6, <3>7
    <3> HIDE DEF Fine
    <3> QED
      BY <3>8
  <2>6. \A n \in Nat : n \in T
    <3> HIDE DEF T
    <3> QED
      BY <2>4, <2>5, Induction
  <2>7. Fine(N)
    <3>1. N - 1 \in Nat /\ N - 1 + 1 = N
      BY <2>1
    <3>2. N - 1 \in T
      <4> HIDE DEF T
      <4> QED
        BY <2>6, <3>1
    <3> HIDE DEF Fine
    <3> QED
      BY <3>1, <3>2
  <2> QED
    BY <2>2, <2>7 DEF N
<1> QED
  BY <1>1, <1>2, <1>3

LEMMA FlattenAppend ==
    ASSUME NEW C, NEW s \in Seq(Seq(C)), NEW t \in Seq(C)
    PROVE  FlattenSeq(Append(s, t)) = FlattenSeq(s) \o t
<1> DEFINE u == Append(s, t)
           N == Len(s)
<1>1. /\ N \in Nat /\ u \in Seq(Seq(C)) /\ Len(u) = N + 1 /\ u[N + 1] = t
      /\ \A i \in 1 .. N : u[i] = s[i]
  BY AppendProperties, LenProperties
<1> HIDE DEF u
<1>2. PICK g : /\ FlattenSeq(u) = g[N + 1]
               /\ \A i \in 1 .. N + 1 : g[i] = IF i = 1 THEN u[i] ELSE g[i - 1] \o u[i]
  <2>1. Len(u) \in Nat \ {0}
    BY <1>1
  <2>2. \E g : /\ FlattenSeq(u) = g[Len(u)]
               /\ \A i \in 1 .. Len(u) : g[i] = IF i = 1 THEN u[i] ELSE g[i - 1] \o u[i]
    BY <2>1, FlattenFun
  <2> QED
    BY <1>1, <2>2
<1>3. CASE N = 0
  <2>1. s = <<>>
    BY <1>3, EmptySeq
  <2>2. FlattenSeq(s) = <<>>
    BY <1>3, <2>1 DEF FlattenSeq
  <2>3. N + 1 = 1 /\ 1 \in 1 .. N + 1
    BY <1>3
  <2>4. FlattenSeq(u) = t
    BY <1>1, <1>2, <2>3
  <2> QED
    BY <2>2, <2>4, ConcatEmptySeq DEF u
<1>4. CASE N # 0
  <2>1. N \in Nat \ {0} /\ Len(s) = N
    BY <1>1, <1>4
  <2>2. PICK f : /\ FlattenSeq(s) = f[N]
                 /\ \A i \in 1 .. N : f[i] = IF i = 1 THEN s[i] ELSE f[i - 1] \o s[i]
    BY <2>1, FlattenFun
  <2> HIDE DEF N
  <2> DEFINE T == {n \in Nat : n + 1 <= N => g[n + 1] = f[n + 1]}
  <2>3. 0 \in T
    <3>1. 1 \in 1 .. N /\ 1 \in 1 .. N + 1 /\ 0 + 1 = 1
      BY <2>1
    <3>2. g[1] = f[1]
      BY <1>1, <1>2, <2>2, <3>1
    <3> QED
      BY <3>1, <3>2
  <2>4. ASSUME NEW n \in Nat, n \in T PROVE n + 1 \in T
    <3> SUFFICES ASSUME n + 1 + 1 <= N PROVE g[n + 1 + 1] = f[n + 1 + 1]
      BY DEF T
    <3> PICK i \in Nat : i = n + 1
      OBVIOUS
    <3> PICK k \in Nat : k = i + 1
      OBVIOUS
    <3>1. i <= N /\ k \in 1 .. N /\ k \in 1 .. N + 1 /\ k - 1 = i /\ k # 1
      BY <2>1
    <3>2. g[i] = f[i]
      BY <2>4, <3>1
    <3>3. g[k] = g[i] \o u[k] /\ f[k] = f[i] \o s[k] /\ u[k] = s[k]
      BY <1>1, <1>2, <2>2, <3>1
    <3> QED
      BY <3>2, <3>3
  <2>5. \A n \in Nat : n \in T
    <3> HIDE DEF T
    <3> QED
      BY <2>3, <2>4, Induction
  <2>6. g[N] = f[N]
    <3>1. N - 1 \in Nat /\ N - 1 + 1 = N
      BY <2>1
    <3>2. N - 1 \in T
      <4> HIDE DEF T
      <4> QED
        BY <2>5, <3>1
    <3> QED
      BY <2>1, <3>1, <3>2
  <2> PICK k \in Nat : k = N + 1
    BY <2>1
  <2>7. k \in 1 .. N + 1 /\ k # 1 /\ k - 1 = N
    BY <2>1
  <2>8. g[N + 1] = g[N] \o u[N + 1]
    BY <1>2, <2>7
  <2>9. FlattenSeq(u) = FlattenSeq(s) \o t
    BY <1>1, <1>2, <2>2, <2>6, <2>8
  <2> QED
    BY <2>9 DEF u
<1> QED
  BY <1>3, <1>4

-----------------------------------------------------------------------------
(* The characters that can be in a prompt, and the texts made of them      *)

Codes == {Code(x) : x \in {"$", "a", "e", "n", "r"}}
Octals == {Char(OctalValue(d)) : d \in Seq(Digits)}
Signs == STRING \cup Digits \cup {"~", " ", "\\", NUL} \cup Codes \cup Octals
Texts == Seq(Signs)

LEMMA SingleText ==
    ASSUME NEW C, NEW c \in C
    PROVE  <<c>> \in Seq(C) /\ Len(<<c>>) = 1 /\ <<c>>[1] = c
OBVIOUS

LEMMA TextsAre ==
    /\ Seq(STRING) \subseteq Texts /\ Seq(Digits) \subseteq Texts /\ <<>> \in Texts
    /\ \A c \in Signs : <<c>> \in Texts
<1>1. STRING \subseteq Signs /\ Digits \subseteq Signs
  BY DEF Signs
<1>2. Seq(STRING) \subseteq Seq(Signs) /\ Seq(Digits) \subseteq Seq(Signs)
  BY <1>1, SeqMonotonic
<1> QED
  BY <1>2, EmptySeq DEF Texts

LEMMA SubSeqType ==
    ASSUME NEW C, NEW t \in Seq(C), NEW m \in Nat \ {0}, NEW n \in Int, n <= Len(t)
    PROVE  SubSeq(t, m, n) \in Seq(C)
<1>1. Len(t) \in Nat
  BY LenProperties
<1>2. \A i \in m .. n : t[i] \in C
  BY <1>1, ElementOfSeq
<1> QED
  BY <1>2, SubSeqProperties

LEMMA UpToFirstType ==
    ASSUME NEW C, NEW t \in Seq(C), NEW c
    PROVE  /\ UpToFirst(c, t) \in Seq(C)
           /\ t = <<>> \/ t[1] = c => UpToFirst(c, t) = <<>>
<1> DEFINE ends == {Len(t) + 1} \cup {n \in DOMAIN t : t[n] = c}
           stop == Min(ends) - 1
<1>1. Len(t) \in Nat /\ DOMAIN t = 1 .. Len(t)
  BY LenProperties
<1>2. ends \subseteq 1 .. Len(t) + 1 /\ ends # {} /\ ends \subseteq Nat
  BY <1>1
<1>3. t = <<>> \/ t[1] = c => 1 \in ends
  <2>1. t = <<>> => Len(t) = 0
    OBVIOUS
  <2>2. t # <<>> => 1 \in DOMAIN t
    BY <1>1, EmptySeq
  <2> QED
    BY <2>1, <2>2
<1>4. UpToFirst(c, t) = SubSeq(t, 1, stop)
  BY DEF UpToFirst
<1> HIDE DEF ends
<1>5. Min(ends) \in ends /\ \A y \in ends : Min(ends) <= y
  BY <1>2, MinIsLeast
<1>6. Min(ends) \in 1 .. Len(t) + 1
  BY <1>2, <1>5
<1>7. stop \in Int /\ stop <= Len(t)
  BY <1>1, <1>6
<1>8. 1 \in ends => stop < 1
  BY <1>1, <1>5, <1>6
<1> HIDE DEF stop
<1>9. stop < 1 => SubSeq(t, 1, stop) = <<>>
  BY <1>7, SubSeqEmpty
<1>10. SubSeq(t, 1, stop) \in Seq(C)
  BY <1>7, SubSeqType
<1> QED
  BY <1>3, <1>4, <1>8, <1>9, <1>10

LEMMA LastOfType ==
    ASSUME NEW C, NEW t \in Seq(C), NEW c
    PROVE  LastOf(c, t) \in 0 .. Len(t) /\ Len(t) \in Nat
<1> DEFINE T == {0} \cup {n \in DOMAIN t : t[n] = c}
<1>1. Len(t) \in Nat /\ DOMAIN t = 1 .. Len(t)
  BY LenProperties
<1>2. T \subseteq 0 .. Len(t) /\ T \subseteq Nat /\ T # {} /\ \A y \in T : y <= Len(t)
  BY <1>1
<1>3. LastOf(c, t) = Max(T)
  BY DEF LastOf
<1> HIDE DEF T
<1>4. Max(T) \in T
  BY <1>1, <1>2, MaxIsGreatest
<1> QED
  BY <1>1, <1>2, <1>3, <1>4

LEMMA StrftimeType ==
    ASSUME NEW C, NEW t \in Seq(C)
    PROVE  /\ Strftime(t) \in Seq(C)
           /\ Strftime(t) = <<>> => \A n \in 1 .. Len(t) : t[n] \in Blanked
<1> DEFINE s == [n \in DOMAIN t |-> IF t[n] \in Blanked THEN <<>> ELSE <<t[n]>>]
<1>1. Len(t) \in Nat /\ DOMAIN t = 1 .. Len(t)
  BY LenProperties
<1>2. \A n \in 1 .. Len(t) : t[n] \in C
  BY ElementOfSeq
<1>3. \A n \in 1 .. Len(t) : s[n] \in Seq(C)
  <2>1. \A c \in C : <<c>> \in Seq(C)
    BY SingleText
  <2>2. <<>> \in Seq(C)
    BY EmptySeq
  <2> QED
    BY <1>1, <1>2, <2>1, <2>2
<1>4. s = [n \in 1 .. Len(t) |-> s[n]]
  BY <1>1
<1>5. \A n \in 1 .. Len(t) : s[n] = <<>> => t[n] \in Blanked
  BY <1>1
<1>6. Strftime(t) = FlattenSeq(s)
  BY DEF Strftime
<1> HIDE DEF s
<1>7. s \in Seq(Seq(C)) /\ Len(s) = Len(t)
  <2>1. s \in [1 .. Len(t) -> Seq(C)]
    BY <1>3, <1>4
  <2> QED
    BY <1>1, <2>1, IsASeq, LenProperties
<1>8. /\ FlattenSeq(s) \in Seq(C)
      /\ FlattenSeq(s) = <<>> => \A i \in 1 .. Len(s) : s[i] = <<>>
  BY <1>7, FlattenOne
<1> QED
  BY <1>5, <1>6, <1>7, <1>8

LEMMA TwoTexts ==
    ASSUME NEW x \in Texts, NEW y \in Texts
    PROVE  /\ x \o y \in Texts /\ Len(x \o y) = Len(x) + Len(y)
           /\ Len(x) \in Nat /\ Len(y) \in Nat
           /\ \A i \in 1 .. Len(x) + Len(y) :
                (x \o y)[i] = IF i <= Len(x) THEN x[i] ELSE y[i - Len(x)]
BY ConcatProperties, LenProperties DEF Texts

(* The blank that %e puts before a digit is the ninth character.           *)
LEMMA PutNinth ==
    ASSUME NEW h \in Texts, Len(h) = 8, NEW d \in Texts
    PROVE  \A c \in Signs :
             /\ (h \o <<c>>) \o d \in Texts /\ Len((h \o <<c>>) \o d) = 9 + Len(d)
             /\ ((h \o <<c>>) \o d)[9] = c
             /\ \A i \in 1 .. 9 + Len(d) :
                  i # 9 => ((h \o <<c>>) \o d)[i] = IF i <= 8 THEN h[i] ELSE d[i - 9]
<1> SUFFICES ASSUME NEW c \in Signs
             PROVE  /\ (h \o <<c>>) \o d \in Texts /\ Len((h \o <<c>>) \o d) = 9 + Len(d)
                    /\ ((h \o <<c>>) \o d)[9] = c
                    /\ \A i \in 1 .. 9 + Len(d) :
                         i # 9 => ((h \o <<c>>) \o d)[i] = IF i <= 8 THEN h[i] ELSE d[i - 9]
  OBVIOUS
<1> PICK y : y = <<c>>
  OBVIOUS
<1>1. y \in Texts /\ Len(y) = 1 /\ y[1] = c
  BY DEF Texts
<1> PICK u : u = h \o y
  OBVIOUS
<1>2. /\ u \in Texts /\ Len(u) = 9 /\ u[9] = c
      /\ \A i \in 1 .. 8 : u[i] = h[i]
  <2>1. /\ u \in Texts /\ Len(u) = Len(h) + Len(y)
        /\ \A i \in 1 .. Len(h) + Len(y) : u[i] = IF i <= Len(h) THEN h[i] ELSE y[i - Len(h)]
    BY ZenonT(30), <1>1, TwoTexts
  <2> QED
    BY <1>1, <2>1
<1> PICK v : v = u \o d
  OBVIOUS
<1>3. /\ v \in Texts /\ Len(v) = 9 + Len(d) /\ Len(d) \in Nat
      /\ \A i \in 1 .. 9 + Len(d) : v[i] = IF i <= 9 THEN u[i] ELSE d[i - 9]
  <2>0. d \in Texts /\ v = u \o d
    OBVIOUS
  <2>1. /\ v \in Texts /\ Len(v) = Len(u) + Len(d) /\ Len(d) \in Nat
        /\ \A i \in 1 .. Len(u) + Len(d) : v[i] = IF i <= Len(u) THEN u[i] ELSE d[i - Len(u)]
    BY ONLY <1>2, <2>0, TwoTexts
  <2> QED
    BY <1>2, <2>1
<1>4. v[9] = c
  <2>1. 9 \in 1 .. 9 + Len(d)
    BY <1>3
  <2> QED
    BY <1>2, <1>3, <2>1
<1>5. \A i \in 1 .. 9 + Len(d) : i # 9 => v[i] = IF i <= 8 THEN h[i] ELSE d[i - 9]
  <2> SUFFICES ASSUME NEW i \in 1 .. 9 + Len(d), i # 9
               PROVE  v[i] = IF i <= 8 THEN h[i] ELSE d[i - 9]
    OBVIOUS
  <2>1. CASE i <= 8
    BY <1>2, <1>3, <2>1
  <2>2. CASE ~(i <= 8)
    <3>1. ~(i <= 9)
      BY <2>2, <1>3
    <3> QED
      BY <1>3, <2>2, <3>1
  <2> QED
    BY <2>1, <2>2
<1>6. v = (h \o <<c>>) \o d
  OBVIOUS
<1> QED
  BY <1>3, <1>4, <1>5, <1>6

LEMMA NinthIs ==
    ASSUME NEW h \in Texts, Len(h) = 8, NEW d \in Texts, NEW a \in Signs
    PROVE  (h \o <<a>>) \o d \in Texts /\ ((h \o <<a>>) \o d)[9] = a
BY PutNinth

LEMMA PatchedNinth ==
    ASSUME NEW h \in Texts, Len(h) = 8, NEW d \in Texts, NEW a \in Signs, NEW b \in Signs
    PROVE  [(h \o <<a>>) \o d EXCEPT ![9] = b] = (h \o <<b>>) \o d
<1> PICK s : s = (h \o <<a>>) \o d
  OBVIOUS
<1> PICK t : t = (h \o <<b>>) \o d
  OBVIOUS
<1> PICK z : z = [s EXCEPT ![9] = b]
  OBVIOUS
<1> PICK N \in Nat : N = 9 + Len(d)
  BY LenProperties DEF Texts
<1>2. /\ s \in Texts /\ Len(s) = N /\ s[9] = a
      /\ \A i \in 1 .. N : i # 9 => s[i] = IF i <= 8 THEN h[i] ELSE d[i - 9]
  BY ZenonT(30), PutNinth
<1>3. /\ t \in Texts /\ Len(t) = N /\ t[9] = b
      /\ \A i \in 1 .. N : i # 9 => t[i] = IF i <= 8 THEN h[i] ELSE d[i - 9]
  BY ZenonT(30), PutNinth
<1>4. /\ z \in Texts /\ Len(z) = N
      /\ \A j \in 1 .. N : z[j] = IF j = 9 THEN b ELSE s[j]
  <2>1. 9 \in 1 .. Len(s)
    <3>1. Len(d) \in Nat
      BY LenProperties DEF Texts
    <3> QED
      BY <1>2, <3>1
  <2>2. s \in Texts /\ z = [s EXCEPT ![9] = b] /\ b \in Signs
    BY <1>2
  <2>3. z \in Texts /\ Len(z) = Len(s) /\ \A j \in 1 .. Len(s) : z[j] = IF j = 9 THEN b ELSE s[j]
    BY ONLY <2>1, <2>2, ExceptSeq DEF Texts
  <2> QED
    BY <1>2, <2>3
<1>5. \A j \in 1 .. N : z[j] = t[j]
  BY <1>2, <1>3, <1>4
<1>6. z = t
  BY ONLY <1>3, <1>4, <1>5, SeqEqual DEF Texts
<1> QED
  BY <1>6

LEMMA NinthBehindEight ==
    ASSUME NEW h \in Texts, Len(h) = 8, NEW d \in Texts, d # <<>>
    PROVE  (h \o d)[9] = d[1]
<1>1. Len(d) \in Nat /\ Len(d) # 0
  BY EmptySeq, LenProperties DEF Texts
<1>2. 9 \in 1 .. Len(h) + Len(d) /\ ~(9 <= Len(h)) /\ 9 - Len(h) = 1
  BY <1>1
<1>3. \A i \in 1 .. Len(h) + Len(d) :
         (h \o d)[i] = IF i <= Len(h) THEN h[i] ELSE d[i - Len(h)]
  BY TwoTexts
<1> QED
  BY <1>2, <1>3

-----------------------------------------------------------------------------
(* \d: strftime's date with its ninth character patched is the date of     *)
(* today.                                                                  *)

LEMMA LengthOfTwo ==
    ASSUME NEW x \in Texts, NEW y \in Texts
    PROVE  x \o y \in Texts /\ Len(x \o y) = Len(x) + Len(y)
BY TwoTexts

LEMMA DateHead ==
    ASSUME NEW sp \in Texts, Len(sp) = 1
    PROVE  Weekday \o sp \o Month \o sp \in Texts /\ Len(Weekday \o sp \o Month \o sp) = 8
<1>1. Weekday \in Texts /\ Month \in Texts /\ Len(Weekday) = 3 /\ Len(Month) = 3
  BY DateAssumption, TextsAre
<1> PICK a : a = Weekday \o sp
  OBVIOUS
<1>2. a \in Texts /\ Len(a) = Len(Weekday) + Len(sp)
  BY <1>1, LengthOfTwo
<1> PICK b : b = a \o Month
  OBVIOUS
<1>3. b \in Texts /\ Len(b) = Len(a) + Len(Month)
  BY <1>1, <1>2, LengthOfTwo
<1>4. b \o sp \in Texts /\ Len(b \o sp) = Len(b) + Len(sp)
  BY <1>3, LengthOfTwo
<1>5. Weekday \o sp \o Month \o sp = b \o sp
  OBVIOUS
<1> QED
  BY <1>1, <1>2, <1>3, <1>4, <1>5

LEMMA DateIsDate == Dated = DateOfToday /\ DateOfToday \in Texts
<1> DEFINE bl == " "
           zz == "0"
           sp == <<bl>>
           h == Weekday \o sp \o Month \o sp
           day == Day
<1>1. bl \in Signs /\ zz \in Signs /\ bl \notin Digits
  BY DEF Signs, Digits
<1>2. StrftimeDate = h \o (IF Len(day) = 1 THEN <<bl>> ELSE <<>>) \o day
  BY DEF StrftimeDate
<1>3. DateOfToday = h \o (IF Len(day) = 1 THEN <<zz>> ELSE <<>>) \o day
  BY DEF DateOfToday
<1>4. Dated = IF StrftimeDate[9] = bl THEN [StrftimeDate EXCEPT ![9] = zz] ELSE StrftimeDate
  BY DEF Dated
<1>5. day \in Seq(Digits) /\ Len(day) \in {1, 2}
  BY DateAssumption
<1> HIDE DEF bl, zz, day
<1>6. sp \in Texts /\ Len(sp) = 1
  BY <1>1, TextsAre
<1> HIDE DEF sp
<1>7. h \in Texts /\ Len(h) = 8
  BY <1>6, DateHead
<1>8. day \in Texts
  BY <1>5, TextsAre
<1> HIDE DEF h
<1>9. CASE Len(day) = 1
  <2> PICK s : s = (h \o <<bl>>) \o day
    OBVIOUS
  <2>1. StrftimeDate = s
    BY <1>2, <1>9
  <2>2. DateOfToday = (h \o <<zz>>) \o day
    BY <1>3, <1>9
  <2>3. /\ s \in Texts /\ s[9] = bl /\ [s EXCEPT ![9] = zz] = (h \o <<zz>>) \o day
    <3>0. s = (h \o <<bl>>) \o day
      OBVIOUS
    <3>1. bl \in Signs /\ zz \in Signs /\ h \in Texts /\ Len(h) = 8 /\ day \in Texts
      BY <1>1, <1>7, <1>8
    <3>2. s \in Texts /\ s[9] = bl
      BY ONLY <3>0, <3>1, NinthIs
    <3>3. [s EXCEPT ![9] = zz] = (h \o <<zz>>) \o day
      BY ONLY <3>0, <3>1, PatchedNinth
    <3> QED
      BY <3>2, <3>3
  <2>4. Dated = (h \o <<zz>>) \o day
    BY ONLY <1>4, <2>1, <2>3
  <2> PICK t : t = (h \o <<zz>>) \o day
    OBVIOUS
  <2>5. t \in Texts
    BY <1>1, <1>7, <1>8, NinthIs
  <2> QED
    BY ONLY <2>2, <2>4, <2>5, t = (h \o <<zz>>) \o day
<1>10. CASE Len(day) = 2
  <2>1. h \o <<>> = h
    BY <1>7, ConcatEmptySeq DEF Texts
  <2>2. StrftimeDate = h \o day /\ DateOfToday = h \o day
    BY <1>2, <1>3, <1>10, <2>1
  <2>3. h \o day \in Texts
    BY <1>7, <1>8, TwoTexts
  <2>4. day[1] \in Digits /\ day # <<>>
    BY <1>5, <1>10, ElementOfSeq
  <2>5. (h \o day)[9] = day[1]
    BY <1>7, <1>8, <2>4, NinthBehindEight
  <2>6. StrftimeDate[9] # bl
    BY <1>1, <2>2, <2>4, <2>5
  <2> QED
    BY <1>4, <2>2, <2>3, <2>6
<1> QED
  BY <1>5, <1>9, <1>10

LEMMA InsertedType ==
    ASSUME NEW x, IsInserted(x)
    PROVE  Inserted(x) \in Texts
<1>1. Host \in Seq(STRING) /\ Version \in Seq(STRING) /\ Wd \in Seq(STRING) /\ HomeDir \in Seq(STRING)
  BY TextsAssumption
<1>2. Seq(STRING) \subseteq Texts /\ <<>> \in Texts
  BY TextsAre
<1>3. Tilde \in Texts
  <2>1. Len(HomeDir) \in Nat /\ Len(Wd) \in Nat
    BY <1>1, LenProperties
  <2>2. Len(HomeDir) + 1 \in Nat \ {0} /\ Len(Wd) \in Int /\ Len(Wd) <= Len(Wd)
    BY <2>1
  <2>3. SubSeq(Wd, Len(HomeDir) + 1, Len(Wd)) \in Seq(STRING)
    BY <1>1, <2>2, SubSeqType
  <2>4. <<"~">> \in Texts
    BY TextsAre DEF Signs
  <2>5. <<"~">> \o SubSeq(Wd, Len(HomeDir) + 1, Len(Wd)) \in Texts
    BY <1>2, <2>3, <2>4, TwoTexts
  <2> QED
    BY <1>1, <1>2, <2>5 DEF Tilde
<1>4. LastPart(Tilde) \in Texts
  <2> DEFINE sl == "/"
  <2> PICK t \in Seq(Signs) : t = Tilde
    BY <1>3 DEF Texts
  <2> HIDE DEF sl
  <2>1. LastOf(sl, t) \in 0 .. Len(t) /\ Len(t) \in Nat
    BY LastOfType
  <2>2. SubSeq(t, LastOf(sl, t) + 1, Len(t)) \in Texts
    <3>1. LastOf(sl, t) + 1 \in Nat \ {0} /\ Len(t) \in Int /\ Len(t) <= Len(t)
      BY <2>1
    <3> QED
      BY <3>1, SubSeqType DEF Texts
  <2> QED
    BY <1>3, <2>2 DEF LastPart, sl
<1>5. (IF LastOf(".", Version) = 0 THEN Version
       ELSE SubSeq(Version, 1, LastOf(".", Version) - 1)) \in Texts
  <2> DEFINE dot == "."
  <2> HIDE DEF dot
  <2>1. LastOf(dot, Version) \in 0 .. Len(Version) /\ Len(Version) \in Nat
    BY <1>1, LastOfType
  <2>2. LastOf(dot, Version) - 1 \in Int /\ LastOf(dot, Version) - 1 <= Len(Version)
        /\ 1 \in Nat \ {0}
    BY <2>1
  <2>3. SubSeq(Version, 1, LastOf(dot, Version) - 1) \in Seq(STRING)
    BY <1>1, <2>2, SubSeqType
  <2> QED
    BY <1>1, <1>2, <2>3 DEF dot
<1>6. UpToFirst(".", Host) \in Texts
  <2>1. UpToFirst(".", Host) \in Seq(STRING)
    BY <1>1, UpToFirstType
  <2> QED
    BY <1>2, <2>1
<1>7. \A y \in Plain : Clock[y] \in Texts
  BY <1>2, ClockAssumption
<1>8. Dated \in Texts
  BY DateIsDate
<1>9. CASE x \in Plain
  BY <1>7, <1>9 DEF Inserted, Plain
<1>10. CASE x \in {"d", "h", "H", "v"}
  BY <1>1, <1>2, <1>5, <1>6, <1>8, <1>10 DEF Inserted, Plain
<1>11. CASE x \in {"V", "w", "W", "[", "]"}
  BY <1>1, <1>2, <1>3, <1>4, <1>11 DEF Inserted, Plain
<1> QED
  BY <1>9, <1>10, <1>11 DEF IsInserted

LEMMA OneSign ==
    /\ \A x : IsReplaced(x) => <<Code(x)>> \in Texts
    /\ \A d \in Seq(Digits) : Char(OctalValue(d)) \in Signs
<1>1. ASSUME NEW x, IsReplaced(x) PROVE <<Code(x)>> \in Texts
  <2>1. Code(x) \in Codes
    BY <1>1 DEF IsReplaced, Codes
  <2>2. Code(x) \in Signs
    BY <2>1 DEF Signs
  <2> QED
    BY <2>2, TextsAre
<1>2. ASSUME NEW d \in Seq(Digits) PROVE Char(OctalValue(d)) \in Signs
  <2>1. Char(OctalValue(d)) \in Octals
    BY DEF Octals
  <2> QED
    BY <2>1 DEF Signs
<1> QED
  BY <1>1, <1>2

LEMMA TimeType ==
    ASSUME NEW f \in Texts
    PROVE  /\ (IF f = <<>> THEN Clock["t"] ELSE Strftime(f)) \in Texts
           /\ (IF f = <<>> THEN Clock["t"] ELSE Strftime(f)) = <<>> =>
                f # <<>> /\ \A n \in 1 .. Len(f) : f[n] \in Blanked
<1>1. Clock["t"] \in Texts /\ Clock["t"] # <<>>
  BY ClockAssumption, TextsAre DEF Plain
<1> QED
  BY <1>1, StrftimeType DEF Texts

-----------------------------------------------------------------------------
(* The meaning of PS1, case by case.  The names stand for the parts of     *)
(* MeaningFrom, so that the provers need not look into its strings.        *)

LEMMA MeaningEnd ==
    ASSUME NEW p, NEW f, NEW n, n > Len(p)
    PROVE  MeaningFrom(p, f, n) = <<>>
BY DEF MeaningFrom

LEMMA MeaningPlain ==
    ASSUME NEW p, NEW f, NEW n, ~(n > Len(p)), p[n] # "\\" \/ n = Len(p)
    PROVE  MeaningFrom(p, f, n) = <<p[n]>> \o f[n + 1]
BY DEF MeaningFrom

(* Behind the backslash at n *)
IsNumber(p, n, k) ==
    /\ n + k <= Len(p)
    /\ ToSet(SubSeq(p, n + 1, n + k)) \subseteq Digits
    /\ k = 3 \/ n + k = Len(p) \/ p[n + k + 1] \notin Digits
Number(p, n) == CHOOSE k \in 1 .. 3 : IsNumber(p, n, k)
Format(p, n) == UpToFirst("}", SubSeq(p, n + 3, Len(p)))
Opens(p, n) == p[n + 1] = "D" /\ n + 1 < Len(p) /\ p[n + 2] = "{"
TimeOf(format) == IF format = <<>> THEN Clock["t"] ELSE Strftime(format)

Escape(p, n) == ~(n > Len(p)) /\ p[n] = "\\" /\ n # Len(p)
IsSlash(x) == x = "\\"
IsDate(x) == x = "d"
Kept(x) == <<"\\", x>>
OfEscape(p, f, n, x) ==
    CASE IsSlash(x) -> <<x>> \o f[n + 2]
      [] IsDate(x) -> DateOfToday \o f[n + 2]
      [] ~IsDate(x) /\ IsInserted(x) -> Inserted(x) \o f[n + 2]
      [] IsReplaced(x) -> <<Stands(x)>> \o f[n + 2]
      [] Opens(p, n) -> TimeOf(Format(p, n)) \o f[Min({n + 4 + Len(Format(p, n)), Len(p) + 1})]
      [] x \in Digits -> <<Char(OctalValue(SubSeq(p, n + 1, n + Number(p, n))))>>
                         \o f[n + Number(p, n) + 1]
      [] OTHER -> Kept(x) \o f[n + 2]

LEMMA MeaningEscape ==
    ASSUME NEW p, NEW f, NEW n, Escape(p, n)
    PROVE  MeaningFrom(p, f, n) = OfEscape(p, f, n, p[n + 1])
BY DEF Escape, OfEscape, MeaningFrom, Opens, TimeOf, Format, Number, IsNumber, IsSlash, IsDate, Kept

(* The cases exclude each other. *)
LEMMA OneEscape ==
    ASSUME NEW p, NEW n, NEW x, x = p[n + 1]
    PROVE  /\ IsSlash(x) => /\ ~IsDate(x) /\ ~IsInserted(x) /\ ~IsReplaced(x) /\ ~Opens(p, n)
                            /\ x \notin Digits
           /\ IsInserted(x) => ~IsReplaced(x) /\ ~Opens(p, n) /\ x \notin Digits
           /\ IsReplaced(x) => ~IsDate(x) /\ ~Opens(p, n) /\ x \notin Digits
           /\ Opens(p, n) => ~IsDate(x) /\ x \notin Digits
           /\ IsDate(x) => IsInserted(x)
<1> USE DEF IsSlash, IsDate, IsInserted, IsReplaced, Opens, Digits, Plain
<1>1. IsSlash(x) => /\ ~IsDate(x) /\ ~IsInserted(x) /\ ~IsReplaced(x) /\ ~Opens(p, n)
                    /\ x \notin Digits
  OBVIOUS
<1>2. IsInserted(x) => ~IsReplaced(x) /\ ~Opens(p, n) /\ x \notin Digits
  OBVIOUS
<1>3. IsReplaced(x) => ~IsDate(x) /\ ~Opens(p, n) /\ x \notin Digits
  OBVIOUS
<1>4. Opens(p, n) => ~IsDate(x) /\ x \notin Digits
  OBVIOUS
<1>5. IsDate(x) => IsInserted(x)
  OBVIOUS
<1> QED
  BY ONLY <1>1, <1>2, <1>3, <1>4, <1>5

LEMMA MeaningBackslash ==
    ASSUME NEW p, NEW f, NEW n, Escape(p, n), IsSlash(p[n + 1])
    PROVE  MeaningFrom(p, f, n) = <<p[n + 1]>> \o f[n + 2]
BY MeaningEscape, OneEscape DEF OfEscape

LEMMA MeaningInserted ==
    ASSUME NEW p, NEW f, NEW n, Escape(p, n), IsInserted(p[n + 1])
    PROVE  MeaningFrom(p, f, n) = Inserted(p[n + 1]) \o f[n + 2]
<1>1. CASE IsDate(p[n + 1])
  <2>1. MeaningFrom(p, f, n) = DateOfToday \o f[n + 2]
    BY <1>1, MeaningEscape, OneEscape DEF OfEscape
  <2>2. Inserted(p[n + 1]) = Dated
    BY <1>1 DEF Inserted, Plain, IsDate
  <2> QED
    BY <2>1, <2>2, DateIsDate
<1>2. CASE ~IsDate(p[n + 1])
  BY <1>2, MeaningEscape, OneEscape DEF OfEscape
<1> QED
  BY <1>1, <1>2

LEMMA MeaningReplaced ==
    ASSUME NEW p, NEW f, NEW n, Escape(p, n), IsReplaced(p[n + 1])
    PROVE  MeaningFrom(p, f, n) = <<Code(p[n + 1])>> \o f[n + 2]
<1>1. MeaningFrom(p, f, n) = <<Stands(p[n + 1])>> \o f[n + 2]
  BY MeaningEscape, OneEscape DEF OfEscape
<1>2. Stands(p[n + 1]) = Code(p[n + 1])
  BY DEF Stands, Code, IsReplaced
<1> QED
  BY <1>1, <1>2

LEMMA MeaningFormat ==
    ASSUME NEW p, NEW f, NEW n, Escape(p, n), Opens(p, n)
    PROVE  MeaningFrom(p, f, n) =
             TimeOf(Format(p, n)) \o f[Min({n + 4 + Len(Format(p, n)), Len(p) + 1})]
BY MeaningEscape, OneEscape DEF OfEscape

LEMMA MeaningDigits ==
    ASSUME NEW p, NEW f, NEW n, Escape(p, n), p[n + 1] \in Digits
    PROVE  MeaningFrom(p, f, n) =
             <<Char(OctalValue(SubSeq(p, n + 1, n + Number(p, n))))>> \o f[n + Number(p, n) + 1]
BY MeaningEscape, OneEscape DEF OfEscape

LEMMA MeaningOther ==
    ASSUME NEW p, NEW f, NEW n, Escape(p, n),
           ~IsSlash(p[n + 1]), ~IsInserted(p[n + 1]), ~IsReplaced(p[n + 1]), ~Opens(p, n),
           p[n + 1] \notin Digits
    PROVE  MeaningFrom(p, f, n) = Kept(p[n + 1]) \o f[n + 2]
<1>1. ~IsDate(p[n + 1])
  BY DEF IsInserted, IsDate
<1> QED
  BY <1>1, MeaningEscape DEF OfEscape

-----------------------------------------------------------------------------
(* The number that a code reads and the format that \D{ reads *)

LEMMA SetOfSub ==
    ASSUME NEW C, NEW t \in Seq(C), NEW m \in Nat \ {0}, NEW n \in Nat, n <= Len(t)
    PROVE  ToSet(SubSeq(t, m, n)) = {t[i] : i \in m .. n}
<1> DEFINE s == SubSeq(t, m, n)
<1>1. Len(t) \in Nat
  BY LenProperties
<1>2. \A i \in m .. n : t[i] \in C
  BY <1>1, ElementOfSeq
<1>3. /\ s \in Seq(C) /\ Len(s) = IF m <= n THEN n - m + 1 ELSE 0
      /\ \A i \in 1 .. n - m + 1 : s[i] = t[m + i - 1]
  BY <1>2, SubSeqProperties
<1>4. DOMAIN s = 1 .. Len(s)
  BY <1>3, LenProperties
<1> HIDE DEF s
<1>5. ASSUME NEW i \in DOMAIN s PROVE s[i] \in {t[j] : j \in m .. n}
  <2>1. i \in 1 .. n - m + 1 /\ m + i - 1 \in m .. n
    BY <1>3, <1>4, <1>5
  <2> QED
    BY <1>3, <2>1
<1>6. ASSUME NEW j \in m .. n PROVE t[j] \in {s[i] : i \in DOMAIN s}
  <2> PICK i \in Nat : i = j - m + 1
    BY <1>6
  <2>1. i \in 1 .. n - m + 1 /\ m + i - 1 = j /\ i \in DOMAIN s
    BY <1>3, <1>4, <1>6
  <2>2. s[i] = t[j]
    BY <1>3, <2>1
  <2> QED
    BY <2>1, <2>2
<1>7. ToSet(s) = {s[i] : i \in DOMAIN s}
  BY DEF ToSet
<1> QED
  BY <1>5, <1>6, <1>7 DEF s

(* Up to three digits are the number of a code. *)
LEMMA NumberMeans ==
    ASSUME NEW p \in Seq(STRING), NEW n \in Nat, NEW k \in 1 .. 3
    PROVE  IsNumber(p, n, k) <=>
             /\ n + k <= Len(p) /\ \A i \in n + 1 .. n + k : p[i] \in Digits
             /\ k = 3 \/ n + k = Len(p) \/ p[n + k + 1] \notin Digits
<1>1. n + 1 \in Nat \ {0} /\ n + k \in Nat
  OBVIOUS
<1>2. n + k <= Len(p) => ToSet(SubSeq(p, n + 1, n + k)) = {p[i] : i \in n + 1 .. n + k}
  BY <1>1, SetOfSub
<1> QED
  BY <1>2 DEF IsNumber

LEMMA NumberIs ==
    ASSUME NEW p \in Seq(STRING), NEW n \in Nat, n + 1 <= Len(p), p[n + 1] \in Digits
    PROVE  /\ Number(p, n) \in 1 .. 3 /\ IsNumber(p, n, Number(p, n))
           /\ \A k \in 1 .. 3 : IsNumber(p, n, k) => k = Number(p, n)
<1>1. Len(p) \in Nat
  BY LenProperties
<1> DEFINE I(k) == /\ n + k <= Len(p) /\ \A i \in n + 1 .. n + k : p[i] \in Digits
                   /\ k = 3 \/ n + k = Len(p) \/ p[n + k + 1] \notin Digits
<1>2. \A k \in 1 .. 3 : IsNumber(p, n, k) <=> I(k)
  BY NumberMeans
<1>3. I(1) \/ I(2) \/ I(3)
  <2>1. CASE n + 1 = Len(p) \/ p[n + 1 + 1] \notin Digits
    <3>1. \A i \in n + 1 .. n + 1 : p[i] \in Digits
      OBVIOUS
    <3>2. I(1)
      BY <2>1, <3>1
    <3> QED
      BY <3>2
  <2>2. CASE ~(n + 1 = Len(p) \/ p[n + 1 + 1] \notin Digits) /\ (n + 2 = Len(p) \/ p[n + 2 + 1] \notin Digits)
    <3>1. \A i \in n + 1 .. n + 2 : i = n + 1 \/ i = n + 1 + 1
      OBVIOUS
    <3>2. \A i \in n + 1 .. n + 2 : p[i] \in Digits
      BY <2>2, <3>1
    <3>3. n + 2 <= Len(p)
      BY <1>1, <2>2
    <3>4. I(2)
      BY <2>2, <3>2, <3>3
    <3> QED
      BY <3>4
  <2>3. CASE ~(n + 1 = Len(p) \/ p[n + 1 + 1] \notin Digits) /\ ~(n + 2 = Len(p) \/ p[n + 2 + 1] \notin Digits)
    <3>1. \A i \in n + 1 .. n + 3 : i = n + 1 \/ i = n + 1 + 1 \/ i = n + 2 + 1
      OBVIOUS
    <3>2. \A i \in n + 1 .. n + 3 : p[i] \in Digits
      BY <2>3, <3>1
    <3>3. n + 3 <= Len(p)
      BY <1>1, <2>3
    <3>4. I(3)
      BY <3>2, <3>3
    <3> QED
      BY <3>4
  <2> QED
    BY <2>1, <2>2, <2>3
<1>4. ASSUME NEW k \in 1 .. 3, NEW l \in 1 .. 3, I(k), I(l), k < l PROVE FALSE
  <2>1. n + l <= Len(p) /\ \A i \in n + 1 .. n + l : p[i] \in Digits
    BY <1>4
  <2>2. n + k + 1 \in n + 1 .. n + l /\ k # 3 /\ n + k # Len(p)
    BY <1>1, <1>4, <2>1
  <2> QED
    BY <1>4, <2>1, <2>2
<1>5. \A k, l \in 1 .. 3 : I(k) /\ I(l) => k = l
  <2> SUFFICES ASSUME NEW k \in 1 .. 3, NEW l \in 1 .. 3, I(k), I(l) PROVE k = l
    OBVIOUS
  <2>1. ~(k < l)
    <3> HIDE DEF I
    <3> QED
      BY <1>4
  <2>2. ~(l < k)
    <3> HIDE DEF I
    <3> QED
      BY <1>4
  <2> QED
    BY <2>1, <2>2
<1> HIDE DEF I
<1>6. \E k \in 1 .. 3 : IsNumber(p, n, k)
  <2>1. 1 \in 1 .. 3 /\ 2 \in 1 .. 3 /\ 3 \in 1 .. 3
    OBVIOUS
  <2> QED
    BY <1>2, <1>3, <2>1
<1>7. Number(p, n) \in 1 .. 3 /\ IsNumber(p, n, Number(p, n))
  BY <1>6 DEF Number
<1> QED
  BY <1>2, <1>5, <1>7

LEMMA FormatIs ==
    ASSUME NEW p \in Seq(STRING), NEW n \in Nat, Opens(p, n)
    PROVE  /\ Format(p, n) \in Seq(STRING) /\ Len(Format(p, n)) \in Nat
           /\ Len(Format(p, n)) <= Len(p) - n - 2
           /\ \A i \in 1 .. Len(Format(p, n)) : Format(p, n)[i] = p[n + 2 + i]
<1> DEFINE s == SubSeq(p, n + 3, Len(p))
           brace == "}"
           ends == {Len(s) + 1} \cup {i \in DOMAIN s : s[i] = brace}
           stop == Min(ends) - 1
<1>1. Len(p) \in Nat /\ n + 1 < Len(p)
  BY LenProperties DEF Opens
<1>2. \A i \in n + 3 .. Len(p) : p[i] \in STRING
  BY <1>1, ElementOfSeq
<1>3. /\ s \in Seq(STRING) /\ Len(s) = IF n + 3 <= Len(p) THEN Len(p) - (n + 3) + 1 ELSE 0
      /\ \A i \in 1 .. Len(p) - (n + 3) + 1 : s[i] = p[(n + 3) + i - 1]
  BY <1>1, <1>2, SubSeqProperties
<1>4. Len(s) = Len(p) - n - 2 /\ Len(s) \in Nat
  BY <1>1, <1>3
<1>5. \A i \in 1 .. Len(s) : s[i] = p[n + 2 + i]
  <2> SUFFICES ASSUME NEW i \in 1 .. Len(s) PROVE s[i] = p[n + 2 + i]
    OBVIOUS
  <2>1. i \in 1 .. Len(p) - (n + 3) + 1 /\ (n + 3) + i - 1 = n + 2 + i
    BY <1>1, <1>4
  <2> QED
    BY <1>3, <2>1
<1> HIDE DEF s
<1>6. DOMAIN s = 1 .. Len(s)
  BY <1>3, LenProperties
<1> HIDE DEF brace
<1>7. ends \subseteq 1 .. Len(s) + 1 /\ ends # {} /\ ends \subseteq Nat
  BY <1>4, <1>6
<1>8. Format(p, n) = SubSeq(s, 1, stop)
  BY DEF Format, UpToFirst, s, brace
<1> HIDE DEF ends
<1>9. Min(ends) \in 1 .. Len(s) + 1
  BY <1>7, MinIsLeast
<1>10. stop \in 0 .. Len(s) /\ stop \in Nat
  BY <1>4, <1>9
<1> HIDE DEF stop
<1>11. \A i \in 1 .. stop : s[i] \in STRING
  BY <1>3, <1>4, <1>10, ElementOfSeq
<1> PICK f : f = SubSeq(s, 1, stop)
  OBVIOUS
<1>12. /\ f \in Seq(STRING) /\ Len(f) = IF 1 <= stop THEN stop - 1 + 1 ELSE 0
       /\ \A i \in 1 .. stop - 1 + 1 : f[i] = s[1 + i - 1]
  BY <1>10, <1>11, SubSeqProperties
<1>13. Len(f) = stop
  BY <1>10, <1>12
<1>14. \A i \in 1 .. stop : f[i] = p[n + 2 + i]
  <2> SUFFICES ASSUME NEW i \in 1 .. stop PROVE f[i] = p[n + 2 + i]
    OBVIOUS
  <2>1. i \in 1 .. stop - 1 + 1 /\ 1 + i - 1 = i /\ i \in 1 .. Len(s)
    BY <1>4, <1>10
  <2> QED
    BY <1>5, <1>12, <2>1
<1> QED
  BY <1>4, <1>8, <1>10, <1>12, <1>13, <1>14

-----------------------------------------------------------------------------
(* A meaning exists: the rests of PS1 get theirs from its end on.          *)

(* The meaning of the rest from n on is t and the meaning of the rest      *)
(* from m on.                                                              *)
Shape(p, n, t, m) == \A f : MeaningFrom(p, f, n) = t \o f[m]

LEMMA TimeOfType ==
    ASSUME NEW f \in Seq(STRING)
    PROVE  TimeOf(f) \in Texts
BY TimeType, TextsAre DEF TimeOf

LEMMA FormatNext ==
    ASSUME NEW p \in Seq(STRING), NEW n \in Nat, Opens(p, n),
           NEW m, m = Min({n + 4 + Len(Format(p, n)), Len(p) + 1})
    PROVE  /\ m \in n + 1 .. Len(p) + 1
           /\ m = IF n + 3 + Len(Format(p, n)) > Len(p) THEN Len(p) + 1
                  ELSE n + 4 + Len(Format(p, n))
<1> PICK l \in Nat, k \in Nat : l = Len(p) /\ k = Len(Format(p, n))
  BY FormatIs, LenProperties
<1>1. n + 1 < l /\ k <= l - n - 2
  <2>1. n + 1 < Len(p)
    BY DEF Opens
  <2>2. Len(Format(p, n)) <= Len(p) - n - 2
    BY FormatIs
  <2> QED
    BY <2>1, <2>2
<1> DEFINE T == {n + 4 + k, l + 1}
<1>2. m = Min(T)
  OBVIOUS
<1>3. T \subseteq Nat /\ T # {}
  OBVIOUS
<1>4. m \in T /\ \A y \in T : m <= y
  <2> HIDE DEF T
  <2> QED
    BY <1>2, <1>3, MinIsLeast
<1>5. m \in T /\ m <= n + 4 + k /\ m <= l + 1
  BY <1>4
<1> QED
  BY <1>1, <1>5

LEMMA MeaningShape ==
    ASSUME NEW p \in Seq(STRING), NEW n \in 1 .. Len(p)
    PROVE  \E t \in Texts : \E m \in n + 1 .. Len(p) + 1 : Shape(p, n, t, m)
<1> PICK l \in Nat : l = Len(p)
  BY LenProperties
<1>1. n \in Nat /\ ~(n > Len(p)) /\ n \in 1 .. l
  OBVIOUS
<1>2. \A i \in 1 .. l : p[i] \in STRING /\ <<p[i]>> \in Texts
  <2>1. \A i \in 1 .. l : p[i] \in STRING
    BY ElementOfSeq
  <2>2. \A i \in 1 .. l : p[i] \in Signs
    BY <2>1 DEF Signs
  <2> QED
    BY <2>1, <2>2, TextsAre
<1>3. CASE p[n] # "\\" \/ n = Len(p)
  <2>1. Shape(p, n, <<p[n]>>, n + 1)
    BY <1>1, <1>3, MeaningPlain DEF Shape
  <2>2. n + 1 \in n + 1 .. Len(p) + 1
    BY <1>1
  <2> QED
    BY <1>1, <1>2, <2>1, <2>2
<1>4. CASE Escape(p, n)
  <2>0. n # l
    BY <1>4 DEF Escape
  <2>9. n + 1 \in 1 .. l
    BY <1>1, <2>0
  <2> PICK x \in STRING : x = p[n + 1]
    BY <1>2, <2>9
  <2>1. n + 2 \in n + 1 .. Len(p) + 1 /\ n + 1 \in 1 .. l
    BY <1>1, <1>4 DEF Escape
  <2>2. <<x>> \in Texts
    BY <1>2, <2>1
  <2>3. CASE IsSlash(x)
    <3>1. Shape(p, n, <<x>>, n + 2)
      BY <1>4, <2>3, MeaningBackslash DEF Shape
    <3> QED
      BY <2>1, <2>2, <3>1
  <2>4. CASE IsInserted(x)
    <3>1. Shape(p, n, Inserted(x), n + 2)
      BY <1>4, <2>4, MeaningInserted DEF Shape
    <3>2. Inserted(x) \in Texts
      BY <2>4, InsertedType
    <3> QED
      BY <2>1, <3>1, <3>2
  <2>5. CASE IsReplaced(x)
    <3>1. Shape(p, n, <<Code(x)>>, n + 2)
      BY <1>4, <2>5, MeaningReplaced DEF Shape
    <3>2. <<Code(x)>> \in Texts
      BY <2>5, OneSign
    <3> QED
      BY <2>1, <3>1, <3>2
  <2>6. CASE Opens(p, n)
    <3> PICK m : m = Min({n + 4 + Len(Format(p, n)), Len(p) + 1})
      OBVIOUS
    <3>1. Shape(p, n, TimeOf(Format(p, n)), m)
      BY <1>4, <2>6, MeaningFormat DEF Shape
    <3>2. TimeOf(Format(p, n)) \in Texts
      BY <1>1, <2>6, FormatIs, TimeOfType
    <3>3. m \in n + 1 .. Len(p) + 1
      BY <1>1, <2>6, FormatNext
    <3> QED
      BY <3>1, <3>2, <3>3
  <2>7. CASE x \in Digits
    <3> PICK k \in 1 .. 3 : k = Number(p, n) /\ IsNumber(p, n, k)
      BY <1>1, <2>1, <2>7, NumberIs
    <3> DEFINE d == SubSeq(p, n + 1, n + k)
    <3>1. Shape(p, n, <<Char(OctalValue(d))>>, n + k + 1)
      BY <1>4, <2>7, MeaningDigits DEF Shape
    <3>2. n + k <= Len(p) /\ \A i \in n + 1 .. n + k : p[i] \in Digits
      BY <1>1, NumberMeans
    <3>3. d \in Seq(Digits)
      BY <3>2, SubSeqProperties
    <3> HIDE DEF d
    <3>4. <<Char(OctalValue(d))>> \in Texts
      BY <3>3, OneSign, TextsAre
    <3>5. n + k + 1 \in n + 1 .. Len(p) + 1
      BY <1>1, <3>2
    <3> QED
      BY <3>1, <3>4, <3>5
  <2>8. CASE ~(IsSlash(x) \/ IsInserted(x) \/ IsReplaced(x) \/ Opens(p, n) \/ x \in Digits)
    <3>1. Shape(p, n, Kept(x), n + 2)
      BY <1>4, <2>8, MeaningOther DEF Shape
    <3>2. Kept(x) \in Texts
      <4>1. "\\" \in Signs /\ x \in Signs
        BY DEF Signs
      <4> QED
        BY <4>1 DEF Kept, Texts
    <3> QED
      BY <2>1, <3>1, <3>2
  <2> QED
    BY <2>3, <2>4, <2>5, <2>6, <2>7, <2>8
<1> QED
  BY <1>1, <1>3, <1>4 DEF Escape

(* The meanings of the rests of a prompt *)
MeansUpto(p, f, n) ==
    \A m \in n .. Len(p) + 1 : f[m] = MeaningFrom(p, f, m) /\ f[m] \in Texts
Means(p) == CHOOSE f : MeansUpto(p, f, 1) /\ Meaning(p) = f[1]

LEMMA MeaningLocal ==
    ASSUME NEW p \in Seq(STRING), NEW n \in 1 .. Len(p) + 1, NEW f, NEW g,
           \A m \in n + 1 .. Len(p) + 1 : f[m] = g[m] /\ f[m] \in Texts
    PROVE  MeaningFrom(p, f, n) = MeaningFrom(p, g, n) /\ MeaningFrom(p, f, n) \in Texts
<1>0. Len(p) \in Nat
  BY LenProperties
<1>1. CASE n = Len(p) + 1
  <2>1. n > Len(p)
    BY <1>0, <1>1
  <2>2. MeaningFrom(p, f, n) = <<>> /\ MeaningFrom(p, g, n) = <<>>
    BY <2>1, MeaningEnd
  <2> QED
    BY <2>2, TextsAre
<1>2. CASE n # Len(p) + 1
  <2>1. n \in 1 .. Len(p)
    BY <1>0, <1>2
  <2>2. PICK t \in Texts, m \in n + 1 .. Len(p) + 1 : Shape(p, n, t, m)
    BY <2>1, MeaningShape
  <2>3. f[m] = g[m] /\ f[m] \in Texts
    OBVIOUS
  <2>4. MeaningFrom(p, f, n) = t \o f[m] /\ MeaningFrom(p, g, n) = t \o g[m]
    BY <2>2 DEF Shape
  <2>5. t \o f[m] \in Texts
    BY <2>3, LengthOfTwo
  <2> QED
    BY <2>3, <2>4, <2>5
<1> QED
  BY <1>1, <1>2

LEMMA MeansExtend ==
    ASSUME NEW p \in Seq(STRING), NEW n \in 1 .. Len(p) + 1, NEW f, MeansUpto(p, f, n + 1)
    PROVE  \E g : MeansUpto(p, g, n)
<1> PICK l \in Nat : l = Len(p) + 1
  BY LenProperties
<1>0. n \in 1 .. l /\ Len(p) + 1 = l
  OBVIOUS
<1> DEFINE g == [m \in 1 .. l |-> IF m = n THEN MeaningFrom(p, f, n) ELSE f[m]]
<1>1. \A m \in n + 1 .. l : g[m] = f[m]
  BY <1>0
<1>2. g[n] = MeaningFrom(p, f, n)
  BY <1>0
<1> HIDE DEF g
<1>3. \A m \in n + 1 .. l : f[m] = MeaningFrom(p, f, m) /\ f[m] \in Texts
  BY <1>0 DEF MeansUpto
<1>4. ASSUME NEW m \in n .. l
      PROVE  g[m] = MeaningFrom(p, g, m) /\ g[m] \in Texts
  <2>1. m \in 1 .. Len(p) + 1
    BY <1>0
  <2>2. \A k \in m + 1 .. Len(p) + 1 : f[k] = g[k] /\ f[k] \in Texts
    <3> SUFFICES ASSUME NEW k \in m + 1 .. Len(p) + 1 PROVE f[k] = g[k] /\ f[k] \in Texts
      OBVIOUS
    <3>1. k \in n + 1 .. l
      BY <1>0
    <3> QED
      BY <1>1, <1>3, <3>1
  <2>3. MeaningFrom(p, f, m) = MeaningFrom(p, g, m) /\ MeaningFrom(p, f, m) \in Texts
    BY <2>1, <2>2, MeaningLocal
  <2>4. CASE m = n
    BY <1>2, <2>3, <2>4
  <2>5. CASE m # n
    <3>1. m \in n + 1 .. l
      BY <1>0, <2>5
    <3> QED
      BY <1>1, <1>3, <2>3, <3>1
  <2> QED
    BY <2>4, <2>5
<1>5. MeansUpto(p, g, n)
  BY <1>0, <1>4 DEF MeansUpto
<1> QED
  BY <1>5

LEMMA MeansExist ==
    ASSUME NEW p \in Seq(STRING)
    PROVE  \E f : MeansUpto(p, f, 1)
<1> PICK l \in Nat : l = Len(p) + 1
  BY LenProperties
<1> DEFINE T == {k \in Nat : k <= l => \E f : MeansUpto(p, f, l + 1 - k)}
<1>1. 0 \in T
  <2>1. l + 1 - 0 = l + 1 /\ \A m \in l + 1 .. Len(p) + 1 : FALSE
    OBVIOUS
  <2>2. MeansUpto(p, <<>>, l + 1)
    BY <2>1 DEF MeansUpto
  <2> QED
    BY <2>1, <2>2
<1>2. ASSUME NEW k \in Nat, k \in T PROVE k + 1 \in T
  <2> SUFFICES ASSUME k + 1 <= l PROVE \E f : MeansUpto(p, f, l + 1 - (k + 1))
    BY DEF T
  <2> PICK n \in Nat : n = l + 1 - (k + 1)
    OBVIOUS
  <2>1. n \in 1 .. Len(p) + 1 /\ l + 1 - k = n + 1 /\ k <= l
    OBVIOUS
  <2>2. PICK f : MeansUpto(p, f, n + 1)
    BY <1>2, <2>1
  <2>3. \E g : MeansUpto(p, g, n)
    BY <2>1, <2>2, MeansExtend
  <2> QED
    BY <2>3
<1>3. \A k \in Nat : k \in T
  <2> HIDE DEF T
  <2> QED
    BY <1>1, <1>2, Induction
<1>4. l + 1 - l = 1
  OBVIOUS
<1> QED
  BY <1>3, <1>4

LEMMA MeansAre ==
    ASSUME NEW p \in Seq(STRING)
    PROVE  MeansUpto(p, Means(p), 1) /\ Meaning(p) = Means(p)[1]
<1> PICK l \in Nat : l = Len(p) + 1
  BY LenProperties
<1>1. PICK f : MeansUpto(p, f, 1)
  BY MeansExist
<1> DEFINE g == [n \in 1 .. l |-> f[n]]
<1>2. \A n \in 1 .. l : g[n] = f[n]
  OBVIOUS
<1> HIDE DEF g
<1>3. \A n \in 1 .. l : f[n] = MeaningFrom(p, f, n) /\ f[n] \in Texts
  BY <1>1 DEF MeansUpto
<1>4. ASSUME NEW n \in 1 .. l PROVE g[n] = MeaningFrom(p, g, n)
  <2>1. n \in 1 .. Len(p) + 1
    OBVIOUS
  <2>2. \A k \in n + 1 .. Len(p) + 1 : f[k] = g[k] /\ f[k] \in Texts
    BY <1>2, <1>3
  <2>3. MeaningFrom(p, f, n) = MeaningFrom(p, g, n)
    BY <2>1, <2>2, MeaningLocal
  <2> QED
    BY <1>2, <1>3, <2>3
<1>5. g = [n \in 1 .. l |-> MeaningFrom(p, g, n)]
  BY <1>4 DEF g
<1> DEFINE means[n \in 1 .. Len(p) + 1] == MeaningFrom(p, means, n)
<1>6. Meaning(p) = means[1]
  BY DEF Meaning
<1>7. means = [n \in 1 .. Len(p) + 1 |-> MeaningFrom(p, means, n)]
  <2>1. \E h : h = [n \in 1 .. Len(p) + 1 |-> MeaningFrom(p, h, n)]
    BY <1>5
  <2> QED
    BY <2>1
<1> HIDE DEF means
<1>8. \A n \in 1 .. l : means[n] = MeaningFrom(p, means, n)
  BY <1>7
<1> DEFINE T == {k \in Nat : k <= l => MeansUpto(p, means, l + 1 - k)}
<1>9. 0 \in T
  <2>1. l + 1 - 0 = l + 1 /\ \A m \in l + 1 .. Len(p) + 1 : FALSE
    OBVIOUS
  <2>2. MeansUpto(p, means, l + 1)
    BY <2>1 DEF MeansUpto
  <2> QED
    BY <2>1, <2>2
<1>10. ASSUME NEW k \in Nat, k \in T PROVE k + 1 \in T
  <2> SUFFICES ASSUME k + 1 <= l PROVE MeansUpto(p, means, l + 1 - (k + 1))
    BY DEF T
  <2> PICK n \in Nat : n = l + 1 - (k + 1)
    OBVIOUS
  <2>1. n \in 1 .. Len(p) + 1 /\ l + 1 - k = n + 1 /\ k <= l /\ Len(p) + 1 = l
    OBVIOUS
  <2>2. MeansUpto(p, means, n + 1)
    BY <1>10, <2>1
  <2>3. \A m \in n + 1 .. Len(p) + 1 : means[m] = means[m] /\ means[m] \in Texts
    BY <2>2 DEF MeansUpto
  <2>4. MeaningFrom(p, means, n) \in Texts
    BY <2>1, <2>3, MeaningLocal
  <2>5. ASSUME NEW m \in n .. Len(p) + 1
        PROVE  means[m] = MeaningFrom(p, means, m) /\ means[m] \in Texts
    <3>1. m = n \/ m \in n + 1 .. Len(p) + 1
      BY <2>1
    <3> QED
      BY <1>8, <2>1, <2>3, <2>4, <3>1
  <2>6. MeansUpto(p, means, n)
    BY <2>5 DEF MeansUpto
  <2> QED
    BY <2>6
<1>11. \A k \in Nat : k \in T
  <2> HIDE DEF T
  <2> QED
    BY <1>9, <1>10, Induction
<1>12. MeansUpto(p, means, 1)
  <2>1. l + 1 - l = 1 /\ l \in T
    BY <1>11
  <2> QED
    BY <2>1
<1>13. \E h : MeansUpto(p, h, 1) /\ Meaning(p) = h[1]
  BY <1>6, <1>12
<1> QED
  BY <1>13 DEF Means

-----------------------------------------------------------------------------
(* The pieces and texts of the string builder *)

LEMMA Associative ==
    ASSUME NEW a \in Texts, NEW b \in Texts, NEW t \in Texts
    PROVE  (a \o b) \o t = a \o (b \o t)
BY ConcatAssociative DEF Texts

(* psh_stringbuilder_add_length *)
LEMMA ItemIs ==
    ASSUME NEW items \in Seq(Texts), NEW t \in Texts
    PROVE  /\ Item(items, t) \in Seq(Texts) /\ FlattenSeq(items) \in Texts
           /\ FlattenSeq(Item(items, t)) = FlattenSeq(items) \o t
           /\ FlattenSeq(Item(items, t)) \in Texts
<1>1. FlattenSeq(items) \in Texts
  BY FlattenOne DEF Texts
<1>2. CASE t = <<>>
  <2>1. FlattenSeq(items) \o <<>> = FlattenSeq(items)
    BY <1>1, ConcatEmptySeq DEF Texts
  <2> QED
    BY <1>1, <1>2, <2>1 DEF Item
<1>3. CASE t # <<>>
  <2>1. Item(items, t) = Append(items, t)
    BY <1>3 DEF Item
  <2>2. Append(items, t) \in Seq(Texts)
    BY AppendProperties
  <2>3. FlattenSeq(Append(items, t)) = FlattenSeq(items) \o t
    BY FlattenAppend DEF Texts
  <2>4. FlattenSeq(items) \o t \in Texts
    BY <1>1, LengthOfTwo
  <2> QED
    BY <1>1, <2>1, <2>2, <2>3, <2>4
<1> QED
  BY <1>2, <1>3

(* The first item begins with a NUL. *)
NulFirst(items) == items # <<>> /\ items[1] # <<>> /\ items[1][1] = NUL

LEMMA ItemFirst ==
    ASSUME NEW items \in Seq(Texts), NEW t \in Texts
    PROVE  /\ NulFirst(items) => NulFirst(Item(items, t))
           /\ items = <<>> /\ t # <<>> /\ t[1] = NUL => NulFirst(Item(items, t))
           /\ Item(items, t) = <<>> => items = <<>> /\ t = <<>>
<1>1. CASE t = <<>>
  BY <1>1 DEF Item
<1>2. CASE t # <<>>
  <2> PICK u : u = Append(items, t)
    OBVIOUS
  <2>1. Item(items, t) = u
    BY <1>2 DEF Item
  <2>2. /\ u \in Seq(Texts) /\ u # <<>> /\ Len(u) = Len(items) + 1 /\ u[Len(items) + 1] = t
        /\ \A i \in 1 .. Len(items) : u[i] = items[i]
    BY AppendProperties, EmptySeq
  <2>3. items = <<>> => u[1] = t
    BY <2>2
  <2>4. items # <<>> => u[1] = items[1]
    <3> SUFFICES ASSUME items # <<>> PROVE u[1] = items[1]
      OBVIOUS
    <3>1. Len(items) \in Nat /\ Len(items) # 0
      BY EmptySeq, LenProperties
    <3>2. 1 \in 1 .. Len(items)
      BY <3>1
    <3> QED
      BY <2>2, <3>2
  <2> QED
    BY <1>2, <2>1, <2>2, <2>3, <2>4 DEF NulFirst
<1> QED
  BY <1>1, <1>2

LEMMA SubSeqSame ==
    ASSUME NEW s, NEW C, NEW t \in Seq(C), NEW m \in Nat \ {0}, NEW n \in Int, n <= Len(t),
           \A i \in m .. n : s[i] = t[i]
    PROVE  SubSeq(s, m, n) = SubSeq(t, m, n)
<1>0. Len(t) \in Nat
  BY LenProperties
<1>1. \A i \in m .. n : s[i] \in C /\ t[i] \in C
  BY <1>0, ElementOfSeq
<1> PICK u, v : u = SubSeq(s, m, n) /\ v = SubSeq(t, m, n)
  OBVIOUS
<1>2. /\ u \in Seq(C) /\ Len(u) = IF m <= n THEN n - m + 1 ELSE 0
      /\ \A i \in 1 .. n - m + 1 : u[i] = s[m + i - 1]
  BY <1>1, SubSeqProperties
<1>3. /\ v \in Seq(C) /\ Len(v) = IF m <= n THEN n - m + 1 ELSE 0
      /\ \A i \in 1 .. n - m + 1 : v[i] = t[m + i - 1]
  BY <1>1, SubSeqProperties
<1>4. \A i \in 1 .. Len(u) : i \in 1 .. n - m + 1 /\ m + i - 1 \in m .. n
  BY <1>2
<1>5. \A i \in 1 .. Len(u) : u[i] = v[i]
  BY <1>2, <1>3, <1>4
<1>6. Len(u) = Len(v)
  BY <1>2, <1>3
<1>7. u = v
  BY ONLY <1>2, <1>3, <1>5, <1>6, SeqEqual
<1> QED
  BY <1>7

LEMMA SubSeqGrows ==
    ASSUME NEW C, NEW t \in Seq(C), NEW m \in Nat \ {0}, NEW n \in Nat, m <= n, n <= Len(t)
    PROVE  SubSeq(t, m, n) = SubSeq(t, m, n - 1) \o <<t[n]>>
<1>0. Len(t) \in Nat /\ n - 1 \in Int
  BY LenProperties
<1>1. \A i \in m .. n : t[i] \in C
  BY <1>0, ElementOfSeq
<1> PICK u, v : u = SubSeq(t, m, n) /\ v = SubSeq(t, m, n - 1)
  OBVIOUS
<1> PICK w : w = <<t[n]>>
  OBVIOUS
<1> PICK z : z = v \o w
  OBVIOUS
<1>2. /\ u \in Seq(C) /\ Len(u) = n - m + 1
      /\ \A i \in 1 .. n - m + 1 : u[i] = t[m + i - 1]
  <2>1. /\ SubSeq(t, m, n) \in Seq(C) /\ Len(SubSeq(t, m, n)) = IF m <= n THEN n - m + 1 ELSE 0
        /\ \A i \in 1 .. n - m + 1 : SubSeq(t, m, n)[i] = t[m + i - 1]
    BY <1>1, SubSeqProperties
  <2> QED
    BY <2>1
<1>3. /\ v \in Seq(C) /\ Len(v) = n - m
      /\ \A i \in 1 .. n - m : v[i] = t[m + i - 1]
  <2>1. \A i \in m .. n - 1 : t[i] \in C
    BY <1>1
  <2>2. /\ v \in Seq(C) /\ Len(v) = IF m <= n - 1 THEN n - 1 - m + 1 ELSE 0
        /\ \A i \in 1 .. n - 1 - m + 1 : v[i] = t[m + i - 1]
    BY <1>0, <2>1, SubSeqProperties
  <2>3. n - 1 - m + 1 = n - m
    OBVIOUS
  <2>4. Len(v) = n - m
    BY <1>0, <2>2
  <2> QED
    BY <2>2, <2>3, <2>4
<1>4. w \in Seq(C) /\ Len(w) = 1 /\ w[1] = t[n]
  <2>1. t[n] \in C
    BY <1>1
  <2> QED
    BY <2>1, SingleText
<1>5. /\ z \in Seq(C) /\ Len(z) = Len(v) + Len(w)
      /\ \A i \in 1 .. Len(v) + Len(w) : z[i] = IF i <= Len(v) THEN v[i] ELSE w[i - Len(v)]
  BY <1>3, <1>4, ConcatProperties
<1> PICK k \in Nat : k = n - m
  OBVIOUS
<1>6. /\ Len(z) = k + 1 /\ Len(u) = k + 1
      /\ \A i \in 1 .. k + 1 : z[i] = IF i <= k THEN v[i] ELSE w[i - k]
  BY <1>2, <1>3, <1>4, <1>5
<1>7. ASSUME NEW i \in 1 .. k + 1 PROVE u[i] = z[i]
  <2>1. CASE i <= k
    <3>1. i \in 1 .. n - m /\ i \in 1 .. n - m + 1
      BY <2>1
    <3> QED
      BY <1>2, <1>3, <1>6, <2>1, <3>1
  <2>2. CASE ~(i <= k)
    <3>1. i = k + 1 /\ i - k = 1 /\ i \in 1 .. n - m + 1 /\ m + i - 1 = n
      BY <2>2
    <3> QED
      BY <1>2, <1>4, <1>6, <2>2, <3>1
  <2> QED
    BY <2>1, <2>2
<1>8. u = z
  <2>1. u \in Seq(C) /\ z \in Seq(C) /\ Len(u) = Len(z) /\ \A i \in 1 .. Len(u) : u[i] = z[i]
    BY <1>2, <1>5, <1>6, <1>7
  <2> QED
    BY ONLY <2>1, SeqEqual
<1> QED
  BY <1>8

-----------------------------------------------------------------------------
(* What ps_expander has kept when it is at a character: MeansInv           *)

(* The copy of a prompt that is not empty: from start on it is as PS1.     *)
(* What was counted means what it says, and at q the meaning of the rest   *)
(* begins, which the pieces handed over so far are the beginning of.       *)
Copied(s, c) ==
    /\ Len(s.buf) = Len(s.ps1) + 2 /\ s.buf[Len(s.ps1) + 1] = NUL
    /\ \A k \in s.start .. Len(s.ps1) : s.buf[k] = s.ps1[k]
    /\ c \in 1 .. Len(s.ps1) + 1 /\ s.start \in 1 .. c /\ s.count \in Nat

(* q is where a backslash is that may begin an escape, up to two digits    *)
(* behind it, or the character itself.                                     *)
Placed(s, c, q) ==
    /\ q <= c
    /\ q = c => ~s.backslash /\ s.level = 0
    /\ q # c => IsSlash(s.ps1[q])
    /\ q # c /\ s.level = 0 => s.backslash /\ q = c - 1
    /\ s.level # 0 => /\ ~s.backslash /\ s.level \in 1 .. 2 /\ q = c - s.level - 1
                      /\ c <= Len(s.ps1) /\ \A i \in q + 1 .. c : s.ps1[i] \in Digits

(* The pieces, what was counted and the meaning of the rest are the        *)
(* meaning of PS1.                                                         *)
Meant(s, q) ==
    (FlattenSeq(s.items) \o SubSeq(s.ps1, s.start, q - 1)) \o Means(s.ps1)[q] = Meaning(s.ps1)

Standing(s, c) ==
    Copied(s, c) /\ Placed(s, c, s.start + s.count) /\ Meant(s, s.start + s.count)

(* The copy of an empty one begins with its NUL, and so does the first     *)
(* piece.                                                                  *)
BehindNul(s, c) ==
    NulFirst(s.items) \/ /\ s.items = <<>> /\ s.start = 1 /\ s.buf[1] = NUL
                         /\ c = 1 => s.count = 0 /\ ~s.backslash /\ s.level = 0
                         /\ c # 1 => s.count # 0

IsPrompt(p) == p \in Seq(STRING) /\ \A k \in 1 .. Len(p) : p[k] # NUL

At(s, c) ==
    /\ IsPrompt(s.ps1) /\ s.buf \in Texts /\ s.items \in Seq(Texts)
    /\ s.level # 0 => \A i \in c - s.level .. c : s.buf[i] \in Digits
    /\ s.ps1 # <<>> => Standing(s, c)
    /\ s.ps1 = <<>> => BehindNul(s, c)

(* The inductive invariant, together with PromptInv                        *)
MeansInv ==
    /\ ex.do \in {"expand", "rest"} =>
        /\ At(ex, ex.cur)
        /\ ex.ps1 # <<>> => (ex.do = "rest" <=> ex.cur = Len(ex.ps1) + 1)
    /\ PromptMeansPs1

LEMMA GoStands ==
    ASSUME NEW s, DOMAIN s = Fields, s.cur \in Nat, At(s, s.cur + 1), Go(s)
    PROVE  MeansInv'
<1> DEFINE t == [s EXCEPT !.cur = @ + 1,
                          !.do = IF s.buf[s.cur + 1] = NUL THEN "rest" ELSE "expand"]
<1>1. ex' = t
  BY DEF Go
<1>2. /\ t.ps1 = s.ps1 /\ t.buf = s.buf /\ t.cur = s.cur + 1 /\ t.start = s.start
      /\ t.count = s.count /\ t.level = s.level /\ t.backslash = s.backslash
      /\ t.items = s.items
      /\ t.do = IF s.buf[s.cur + 1] = NUL THEN "rest" ELSE "expand"
  BY DEF Fields
<1> HIDE DEF t
<1>3. At(t, t.cur)
  <2>1. s.ps1 # <<>> => Standing(t, t.cur)
    BY <1>2 DEF At, Standing, Copied, Placed, Meant
  <2>2. s.ps1 = <<>> => BehindNul(t, t.cur)
    BY <1>2 DEF At, BehindNul
  <2> QED
    BY <1>2, <2>1, <2>2 DEF At
<1>4. t.ps1 # <<>> => (t.do = "rest" <=> t.cur = Len(t.ps1) + 1)
  <2> SUFFICES ASSUME s.ps1 # <<>> PROVE s.buf[s.cur + 1] = NUL <=> s.cur + 1 = Len(s.ps1) + 1
    BY <1>2
  <2> PICK l \in Nat : l = Len(s.ps1)
    BY LenProperties DEF At, IsPrompt
  <2> PICK c \in Nat : c = s.cur + 1
    OBVIOUS
  <2>1. /\ s.buf[l + 1] = NUL /\ \A k \in s.start .. l : s.buf[k] = s.ps1[k]
        /\ c \in 1 .. l + 1 /\ s.start \in 1 .. c
    BY DEF At, Standing, Copied
  <2>2. \A k \in 1 .. l : s.ps1[k] # NUL
    BY DEF At, IsPrompt
  <2>3. c # l + 1 => c \in s.start .. l /\ c \in 1 .. l
    BY <2>1
  <2> QED
    BY <2>1, <2>2, <2>3
<1>5. t.do \in {"rest", "expand"}
  BY <1>2
<1>6. PromptMeansPs1'
  BY <1>1, <1>5 DEF PromptMeansPs1
<1> QED
  BY <1>1, <1>3, <1>4, <1>6 DEF MeansInv

(* The scan goes on behind a piece that was handed over.                   *)
LEMMA Resumes ==
    ASSUME NEW s, DOMAIN s = Fields, s.level = 0, IsPrompt(s.ps1),
           NEW n \in Nat, n <= Len(s.ps1),
           Len(s.buf) = Len(s.ps1) + 2, s.buf[Len(s.ps1) + 1] = NUL,
           \A k \in n + 1 .. Len(s.ps1) : s.buf[k] = s.ps1[k],
           FlattenSeq(s.items) \in Texts,
           FlattenSeq(s.items) \o Means(s.ps1)[n + 1] = Meaning(s.ps1)
    PROVE  Standing(Reset(s, n), n + 1)
<1> PICK l \in Nat : l = Len(s.ps1)
  BY LenProperties DEF IsPrompt
<1> PICK r : r = Reset(s, n)
  OBVIOUS
<1>1. /\ r.buf = s.buf /\ r.level = 0 /\ r.start = n + 1 /\ r.count = 0
      /\ ~r.backslash /\ r.ps1 = s.ps1 /\ r.items = s.items
  BY DEF Reset, Fields
<1> PICK q \in Nat : q = r.start + r.count
  BY <1>1
<1>2. q = n + 1 /\ q - 1 < r.start /\ r.start \in Int /\ q - 1 \in Int
  BY <1>1
<1>3. SubSeq(s.ps1, r.start, q - 1) = <<>>
  BY <1>2, SubSeqEmpty
<1>4. (FlattenSeq(s.items) \o <<>>) = FlattenSeq(s.items)
  BY ConcatEmptySeq DEF Texts
<1>5. Meant(r, q)
  BY <1>1, <1>2, <1>3, <1>4 DEF Meant
<1>6. Placed(r, n + 1, q)
  BY <1>1, <1>2 DEF Placed
<1>7. Copied(r, n + 1)
  BY <1>1 DEF Copied
<1> QED
  BY <1>5, <1>6, <1>7 DEF Standing

LEMMA ResumesAt ==
    ASSUME NEW s, DOMAIN s = Fields, s.level = 0, IsPrompt(s.ps1), s.buf \in Texts,
           s.items \in Seq(Texts), NEW n \in Nat, n # 0,
           s.ps1 # <<>> => Standing(Reset(s, n), n + 1),
           s.ps1 = <<>> => NulFirst(s.items)
    PROVE  At(Reset(s, n), n + 1)
<1> PICK r : r = Reset(s, n)
  OBVIOUS
<1>1. r.buf = s.buf /\ r.ps1 = s.ps1 /\ r.items = s.items /\ r.level = 0
  BY DEF Reset, Fields
<1> QED
  BY <1>1 DEF At, BehindNul

-----------------------------------------------------------------------------
(* A piece is handed over: what was counted, and a text behind it.         *)

Q == ex.start + ex.count

LEMMA MeansAt ==
    ASSUME NEW p \in Seq(STRING), NEW n \in 1 .. Len(p) + 1
    PROVE  Means(p)[n] = MeaningFrom(p, Means(p), n) /\ Means(p)[n] \in Texts
BY MeansAre DEF MeansUpto

LEMMA StandFacts ==
    ASSUME PromptInv, MeansInv, Expanding, ex.ps1 # <<>>, NEW l, l = Len(ex.ps1)
    PROVE  /\ IsPrompt(ex.ps1) /\ l \in Nat /\ ex.cur \in 1 .. l
           /\ ex.start \in 1 .. ex.cur /\ ex.count \in Nat /\ Q \in ex.start .. ex.cur
           /\ Len(ex.buf) = l + 2 /\ ex.buf[l + 1] = NUL
           /\ \A k \in ex.start .. l : ex.buf[k] = ex.ps1[k]
           /\ Here = ex.ps1[ex.cur]
           /\ Following = IF ex.cur < l THEN ex.ps1[ex.cur + 1] ELSE NUL
           /\ Placed(ex, ex.cur, Q) /\ Meant(ex, Q)
<1>1. At(ex, ex.cur) /\ ex.cur # l + 1
  BY DEF MeansInv, Expanding
<1>2. IsPrompt(ex.ps1) /\ l \in Nat
  BY <1>1, LenProperties DEF At, IsPrompt
<1>3. Copied(ex, ex.cur) /\ Placed(ex, ex.cur, Q) /\ Meant(ex, Q)
  BY <1>1 DEF At, Standing, Q
<1>4. /\ Len(ex.buf) = l + 2 /\ ex.buf[l + 1] = NUL
      /\ \A k \in ex.start .. l : ex.buf[k] = ex.ps1[k]
      /\ ex.cur \in 1 .. l + 1 /\ ex.start \in 1 .. ex.cur /\ ex.count \in Nat
  BY <1>3 DEF Copied
<1>5. ex.cur \in 1 .. l
  BY <1>1, <1>2, <1>4
<1>6. Q \in ex.start .. ex.cur
  BY <1>3, <1>4, <1>5 DEF Placed, Q
<1>7. Here = ex.ps1[ex.cur]
  BY <1>4, <1>5 DEF Here
<1>8. Following = IF ex.cur < l THEN ex.ps1[ex.cur + 1] ELSE NUL
  <2> PICK k \in Nat : k = ex.cur + 1
    BY <1>5
  <2>1. Following = ex.buf[k]
    BY DEF Following
  <2>2. ex.cur < l => k \in ex.start .. l
    BY <1>2, <1>4, <1>5
  <2>3. ~(ex.cur < l) => k = l + 1
    BY <1>2, <1>5
  <2> QED
    BY <1>4, <2>1, <2>2, <2>3
<1> QED
  BY <1>2, <1>3, <1>4, <1>5, <1>6, <1>7, <1>8

(* A backslash or digits behind it are before the scan.                    *)
LEMMA BehindFacts ==
    ASSUME PromptInv, MeansInv, Expanding, ex.backslash \/ ex.level # 0
    PROVE  /\ ex.start \in Nat \ {0} /\ ex.count \in Nat /\ ex.cur \in Nat /\ Q \in Nat
           /\ Q < ex.cur /\ ex.start <= Q /\ Len(ex.buf) \in Nat /\ ex.cur < Len(ex.buf)
           /\ ex.ps1 = <<>> => NulFirst(ex.items) \/ /\ ex.items = <<>> /\ ex.start = 1
                                                     /\ ex.buf[1] = NUL /\ ex.count # 0
<1>1. /\ Scanning(ex) /\ Len(ex.buf) \in Nat
      /\ ex.cur \in Nat /\ ex.start \in Nat \ {0} /\ ex.count \in Nat
  BY ScanFacts
<1>2. Q < ex.cur /\ ex.cur < Len(ex.buf) /\ Q \in Nat /\ ex.start <= Q
  BY <1>1 DEF Scanning, Q
<1>3. ex.ps1 = <<>> => BehindNul(ex, ex.cur)
  BY DEF MeansInv, At, Expanding
<1>4. ex.cur # 1
  BY <1>1, <1>2
<1> QED
  BY <1>1, <1>2, <1>3, <1>4 DEF BehindNul

LEMMA PieceBefore ==
    ASSUME NEW p \in Seq(STRING), NEW b, NEW m \in Nat \ {0}, NEW n \in Nat, m <= n, n <= Len(p) + 1,
           \A k \in m .. n - 1 : b[k] = p[k]
    PROVE  SubSeq(b, m, n - 1) = SubSeq(p, m, n - 1) /\ SubSeq(p, m, n - 1) \in Texts
<1>0. Len(p) \in Nat
  BY LenProperties
<1>1. n - 1 \in Int /\ n - 1 <= Len(p)
  BY <1>0
<1>2. SubSeq(b, m, n - 1) = SubSeq(p, m, n - 1)
  BY <1>1, SubSeqSame
<1>3. SubSeq(p, m, n - 1) \in Seq(STRING)
  BY <1>1, SubSeqType
<1> QED
  BY <1>2, <1>3, TextsAre

LEMMA PieceWith ==
    ASSUME NEW p \in Seq(STRING), NEW b \in Texts, NEW m \in Nat \ {0}, NEW n \in Nat, m <= n,
           n <= Len(p) + 1, n <= Len(b), \A k \in m .. n - 1 : b[k] = p[k]
    PROVE  SubSeq(b, m, n) = SubSeq(p, m, n - 1) \o <<b[n]>> /\ <<b[n]>> \in Texts
<1>1. SubSeq(b, m, n) = SubSeq(b, m, n - 1) \o <<b[n]>>
  BY SubSeqGrows DEF Texts
<1>2. SubSeq(b, m, n - 1) = SubSeq(p, m, n - 1)
  BY PieceBefore
<1>3. Len(b) \in Nat
  BY LenProperties DEF Texts
<1>4. b[n] \in Signs
  <2>1. n \in 1 .. Len(b)
    BY <1>3
  <2> QED
    BY <2>1, ElementOfSeq DEF Texts
<1> QED
  BY <1>1, <1>2, <1>4, TextsAre

LEMMA PieceType ==
    ASSUME NEW b \in Texts, NEW m \in Nat \ {0}, NEW n \in Int, n <= Len(b)
    PROVE  /\ SubSeq(b, m, n) \in Texts
           /\ m <= n => SubSeq(b, m, n) # <<>> /\ SubSeq(b, m, n)[1] = b[m]
<1>0. Len(b) \in Nat
  BY LenProperties DEF Texts
<1>1. SubSeq(b, m, n) \in Texts
  BY SubSeqType DEF Texts
<1>2. \A i \in m .. n : b[i] \in Signs
  BY <1>0, ElementOfSeq DEF Texts
<1> PICK u : u = SubSeq(b, m, n)
  OBVIOUS
<1>3. /\ Len(u) = IF m <= n THEN n - m + 1 ELSE 0
      /\ \A i \in 1 .. n - m + 1 : u[i] = b[m + i - 1]
  BY <1>2, SubSeqProperties
<1>4. m <= n => u # <<>> /\ u[1] = b[m]
  <2> SUFFICES ASSUME m <= n PROVE u # <<>> /\ u[1] = b[m]
    OBVIOUS
  <2>1. 1 \in 1 .. n - m + 1 /\ m + 1 - 1 = m /\ Len(u) # 0
    BY <1>3
  <2>2. u # <<>>
    BY <2>1
  <2> QED
    BY <1>3, <2>1, <2>2
<1> QED
  BY <1>1, <1>4

(* \\, \$, \a, \e, \n, \r and \nnn: a character takes the place of their    *)
(* backslash and is handed over with what was counted before it.           *)
LEMMA HandsOver ==
    ASSUME PromptInv, MeansInv, Expanding, ex.backslash \/ ex.level # 0,
           NEW b \in Texts, Len(b) = Len(ex.buf),
           NEW at \in Nat, Q <= at, ex.ps1 # <<>> => at = Q,
           \A k \in 1 .. Len(b) : k # at => b[k] = ex.buf[k],
           NEW s, DOMAIN s = Fields, s.level = 0, s.ps1 = ex.ps1, s.buf = b,
           s.items = Item(ex.items, SubSeq(b, ex.start, Q)),
           ex.ps1 # <<>> =>
               MeaningFrom(ex.ps1, Means(ex.ps1), Q) = <<b[Q]>> \o Means(ex.ps1)[ex.cur + 1]
    PROVE  At(Reset(s, ex.cur), ex.cur + 1)
<1>1. /\ ex.start \in Nat \ {0} /\ ex.count \in Nat /\ ex.cur \in Nat /\ Q \in Nat
      /\ Q < ex.cur /\ ex.start <= Q /\ Len(ex.buf) \in Nat /\ ex.cur < Len(ex.buf)
      /\ ex.ps1 = <<>> => NulFirst(ex.items) \/ /\ ex.items = <<>> /\ ex.start = 1
                                                /\ ex.buf[1] = NUL /\ ex.count # 0
  BY BehindFacts
<1>2. IsPrompt(ex.ps1) /\ ex.items \in Seq(Texts)
  BY DEF MeansInv, Expanding, At
<1> PICK t : t = SubSeq(b, ex.start, Q)
  OBVIOUS
<1>3. t \in Texts /\ t # <<>> /\ t[1] = b[ex.start]
  <2>1. ex.start \in Nat \ {0} /\ Q \in Int /\ Q <= Len(b) /\ ex.start <= Q /\ b \in Texts
    BY ONLY <1>1, b \in Texts, Len(b) = Len(ex.buf)
  <2>2. SubSeq(b, ex.start, Q) \in Texts
    BY ONLY <2>1, PieceType
  <2>3. SubSeq(b, ex.start, Q) # <<>> /\ SubSeq(b, ex.start, Q)[1] = b[ex.start]
    BY ONLY <2>1, PieceType
  <2> QED
    BY <2>2, <2>3
<1>4. s.items \in Seq(Texts) /\ FlattenSeq(ex.items) \in Texts
      /\ FlattenSeq(s.items) = FlattenSeq(ex.items) \o t /\ FlattenSeq(s.items) \in Texts
  BY <1>2, <1>3, ItemIs
<1>5. ex.ps1 = <<>> => NulFirst(s.items)
  <2> SUFFICES ASSUME ex.ps1 = <<>>, ex.items = <<>>, ex.start = 1, ex.buf[1] = NUL, ex.count # 0
               PROVE  NulFirst(s.items)
    BY <1>1, <1>2, <1>3, ItemFirst
  <2>1. at # 1 /\ 1 \in 1 .. Len(b)
    BY <1>1 DEF Q
  <2>2. t[1] = NUL
    BY <1>3, <2>1
  <2> QED
    BY <1>2, <1>3, <2>2, ItemFirst
<1>6. ex.ps1 # <<>> => Standing(Reset(s, ex.cur), ex.cur + 1)
  <2> SUFFICES ASSUME ex.ps1 # <<>> PROVE Standing(Reset(s, ex.cur), ex.cur + 1)
    OBVIOUS
  <2>0. ex.ps1 \in Seq(STRING)
    BY <1>2 DEF IsPrompt
  <2> PICK l \in Nat : l = Len(ex.ps1)
    BY <2>0, LenProperties
  <2>1. /\ ex.cur \in 1 .. l /\ Len(ex.buf) = l + 2 /\ ex.buf[l + 1] = NUL
        /\ \A k \in ex.start .. l : ex.buf[k] = ex.ps1[k]
        /\ Meant(ex, Q)
    BY StandFacts
  <2>2. \A k \in ex.start .. l : k # Q => b[k] = ex.ps1[k]
    <3>1. \A k \in ex.start .. l : k \in 1 .. Len(b)
      BY ONLY <1>1, <2>1, Len(b) = Len(ex.buf)
    <3> QED
      BY <2>1, <3>1
  <2>3. \A k \in ex.start .. Q - 1 : b[k] = ex.ps1[k]
    <3>1. \A k \in ex.start .. Q - 1 : k \in ex.start .. l /\ k # Q
      BY ONLY <1>1, <2>1
    <3> QED
      BY ONLY <2>2, <3>1
  <2>4. ex.cur <= Len(ex.ps1) /\ Len(b) = Len(ex.ps1) + 2
    BY <2>1
  <2>5. FlattenSeq(s.items) \o Means(ex.ps1)[ex.cur + 1] = Meaning(ex.ps1)
    <3>0. Q \in Nat /\ Q <= Len(ex.ps1) + 1 /\ Q <= Len(b) /\ Q \in 1 .. Len(ex.ps1) + 1
          /\ ex.cur + 1 \in 1 .. Len(ex.ps1) + 1
      BY ONLY <1>1, <2>1, <2>4, l \in Nat, l = Len(ex.ps1), Len(b) = Len(ex.buf)
    <3>1. (FlattenSeq(ex.items) \o SubSeq(ex.ps1, ex.start, Q - 1)) \o Means(ex.ps1)[Q] = Meaning(ex.ps1)
      BY <2>1 DEF Meant
    <3>2. Means(ex.ps1)[Q] = <<b[Q]>> \o Means(ex.ps1)[ex.cur + 1]
      BY <2>0, <3>0, MeansAt
    <3>3. Means(ex.ps1)[ex.cur + 1] \in Texts
      BY <2>0, <3>0, MeansAt
    <3>a. ex.start \in Nat \ {0} /\ ex.start <= Q /\ b \in Texts
      BY <1>1
    <3>b. /\ SubSeq(b, ex.start, Q) = SubSeq(ex.ps1, ex.start, Q - 1) \o <<b[Q]>>
          /\ <<b[Q]>> \in Texts
      BY ONLY <2>0, <2>3, <3>0, <3>a, PieceWith
    <3>4. t = SubSeq(ex.ps1, ex.start, Q - 1) \o <<b[Q]>> /\ <<b[Q]>> \in Texts
      BY <3>b
    <3>5. SubSeq(ex.ps1, ex.start, Q - 1) \in Texts
      BY <1>1, <2>0, <2>3, <3>0, PieceBefore
    <3> PICK f : f = FlattenSeq(ex.items)
      OBVIOUS
    <3> PICK a : a = SubSeq(ex.ps1, ex.start, Q - 1)
      OBVIOUS
    <3> PICK x : x = <<b[Q]>>
      OBVIOUS
    <3> PICK r : r = Means(ex.ps1)[ex.cur + 1]
      OBVIOUS
    <3> PICK g : g = Meaning(ex.ps1)
      OBVIOUS
    <3>5a. f \in Texts /\ a \in Texts /\ x \in Texts /\ r \in Texts
      BY <1>4, <3>3, <3>4, <3>5
    <3>6. (f \o a) \o (x \o r) = g
      BY <3>1, <3>2
    <3>5b. f \o a \in Texts
      BY ONLY <3>5a, LengthOfTwo
    <3> PICK h : h = f \o a
      OBVIOUS
    <3>5c. h \in Texts /\ x \in Texts /\ r \in Texts
      BY <3>5a, <3>5b
    <3>5d. (h \o x) \o r = h \o (x \o r)
      BY ONLY <3>5c, Associative
    <3>6a. (f \o a) \o (x \o r) = ((f \o a) \o x) \o r
      BY ONLY <3>5d, h = f \o a
    <3>6b. (f \o a) \o x = f \o (a \o x)
      BY ONLY <3>5a, Associative
    <3>7. (f \o (a \o x)) \o r = g
      BY ONLY <3>6, <3>6a, <3>6b
    <3>8. t = a \o x /\ FlattenSeq(s.items) = f \o t
      BY <1>4, <3>4
    <3>9. FlattenSeq(s.items) \o r = g
      BY ONLY <3>7, <3>8
    <3> QED
      BY ONLY <3>9, r = Means(ex.ps1)[ex.cur + 1], g = Meaning(ex.ps1)
  <2>6. \A k \in ex.cur + 1 .. l : s.buf[k] = ex.ps1[k]
    <3>1. \A k \in ex.cur + 1 .. l : k \in ex.start .. l /\ k # Q
      BY ONLY <1>1, <2>1
    <3> QED
      BY <2>2, <3>1
  <2>7. Len(s.buf) = l + 2 /\ s.buf[l + 1] = NUL
    <3>1. l + 1 \in 1 .. Len(b) /\ l + 1 # Q
      BY SMTT(20), <1>1, <2>1
    <3> QED
      BY <2>1, <3>1
  <2>8. /\ DOMAIN s = Fields /\ s.level = 0 /\ IsPrompt(s.ps1)
        /\ ex.cur \in Nat /\ ex.cur <= Len(s.ps1)
        /\ Len(s.buf) = Len(s.ps1) + 2 /\ s.buf[Len(s.ps1) + 1] = NUL
        /\ \A k \in ex.cur + 1 .. Len(s.ps1) : s.buf[k] = s.ps1[k]
        /\ FlattenSeq(s.items) \in Texts
        /\ FlattenSeq(s.items) \o Means(s.ps1)[ex.cur + 1] = Meaning(s.ps1)
    BY <1>1, <1>2, <1>4, <2>4, <2>5, <2>6, <2>7
  <2> QED
    BY ONLY <2>8, Resumes
<1>7. ex.cur # 0
  BY <1>1
<1> QED
  BY <1>1, <1>2, <1>4, <1>5, <1>6, <1>7, ResumesAt

(* What was counted is handed over, and then a text; n is the end of what  *)
(* stands for the text.                                                    *)
LEMMA HandsOverText ==
    ASSUME PromptInv, MeansInv, Expanding, ex.backslash,
           NEW t \in Texts, NEW n \in Nat, ex.cur <= n, ex.ps1 # <<>> => n <= Len(ex.ps1),
           NEW s, DOMAIN s = Fields, s.level = 0, s.ps1 = ex.ps1, s.buf = ex.buf,
           s.items = Item(Item(ex.items, SubSeq(ex.buf, ex.start, Q - 1)), t),
           ex.ps1 # <<>> => MeaningFrom(ex.ps1, Means(ex.ps1), Q) = t \o Means(ex.ps1)[n + 1]
    PROVE  At(Reset(s, n), n + 1)
<1>1. /\ ex.start \in Nat \ {0} /\ ex.count \in Nat /\ ex.cur \in Nat /\ Q \in Nat
      /\ Q < ex.cur /\ ex.start <= Q /\ Len(ex.buf) \in Nat /\ ex.cur < Len(ex.buf)
      /\ ex.ps1 = <<>> => NulFirst(ex.items) \/ /\ ex.items = <<>> /\ ex.start = 1
                                                /\ ex.buf[1] = NUL /\ ex.count # 0
  BY BehindFacts
<1>2. IsPrompt(ex.ps1) /\ ex.items \in Seq(Texts) /\ ex.buf \in Texts
  BY DEF MeansInv, Expanding, At
<1> PICK u : u = SubSeq(ex.buf, ex.start, Q - 1)
  OBVIOUS
<1> PICK items : items = Item(ex.items, u)
  OBVIOUS
<1>3. u \in Texts /\ (ex.start <= Q - 1 => u # <<>> /\ u[1] = ex.buf[ex.start])
  <2>1. Q - 1 \in Int /\ Q - 1 <= Len(ex.buf)
    BY <1>1
  <2> QED
    BY <1>1, <1>2, <2>1, PieceType
<1>4. /\ items \in Seq(Texts) /\ FlattenSeq(ex.items) \in Texts
      /\ FlattenSeq(items) = FlattenSeq(ex.items) \o u
  BY <1>2, <1>3, ItemIs
<1>5. /\ s.items \in Seq(Texts) /\ FlattenSeq(s.items) \in Texts
      /\ FlattenSeq(s.items) = FlattenSeq(items) \o t
  <2>1. s.items = Item(items, t) /\ t \in Texts
    OBVIOUS
  <2> QED
    BY ONLY <1>4, <2>1, ItemIs
<1>6. ex.ps1 = <<>> => NulFirst(s.items)
  <2> SUFFICES ASSUME ex.ps1 = <<>> PROVE NulFirst(s.items)
    OBVIOUS
  <2>1. NulFirst(items)
    <3> SUFFICES ASSUME ex.items = <<>>, ex.start = 1, ex.buf[1] = NUL, ex.count # 0
                 PROVE  NulFirst(items)
      BY <1>1, <1>2, <1>3, ItemFirst
    <3>1. ex.start <= Q - 1
      BY <1>1 DEF Q
    <3> QED
      BY <1>2, <1>3, <3>1, ItemFirst
  <2> QED
    BY <1>4, <2>1, ItemFirst
<1>7. ex.ps1 # <<>> => Standing(Reset(s, n), n + 1)
  <2> SUFFICES ASSUME ex.ps1 # <<>> PROVE Standing(Reset(s, n), n + 1)
    OBVIOUS
  <2>0. ex.ps1 \in Seq(STRING)
    BY <1>2 DEF IsPrompt
  <2> PICK l \in Nat : l = Len(ex.ps1)
    BY <2>0, LenProperties
  <2>1. /\ ex.cur \in 1 .. l /\ Len(ex.buf) = l + 2 /\ ex.buf[l + 1] = NUL
        /\ \A k \in ex.start .. l : ex.buf[k] = ex.ps1[k]
        /\ Meant(ex, Q)
    BY StandFacts
  <2>2. \A k \in ex.start .. Q - 1 : ex.buf[k] = ex.ps1[k]
    BY ONLY <1>1, <2>1
  <2>3. n <= Len(ex.ps1) /\ Q <= n
    BY <1>1
  <2>4. FlattenSeq(s.items) \o Means(ex.ps1)[n + 1] = Meaning(ex.ps1)
    <3>0. Q \in Nat /\ Q <= Len(ex.ps1) + 1 /\ Q \in 1 .. Len(ex.ps1) + 1
          /\ n + 1 \in 1 .. Len(ex.ps1) + 1
      BY SMTT(20), <1>1, <2>1, <2>3
    <3>1. (FlattenSeq(ex.items) \o SubSeq(ex.ps1, ex.start, Q - 1)) \o Means(ex.ps1)[Q] = Meaning(ex.ps1)
      BY <2>1 DEF Meant
    <3>2. Means(ex.ps1)[Q] = t \o Means(ex.ps1)[n + 1]
      BY <2>0, <3>0, MeansAt
    <3>3. Means(ex.ps1)[n + 1] \in Texts
      BY <2>0, <3>0, MeansAt
    <3> PICK b : b = ex.buf
      OBVIOUS
    <3>a. /\ ex.start \in Nat \ {0} /\ ex.start <= Q
          /\ \A k \in ex.start .. Q - 1 : b[k] = ex.ps1[k]
      BY <1>1, <2>2
    <3>c. SubSeq(b, ex.start, Q - 1) = SubSeq(ex.ps1, ex.start, Q - 1)
      <4>1. Q - 1 \in Int /\ Q - 1 <= Len(ex.ps1)
        BY <1>1, <2>1, <2>3
      <4> QED
        BY ONLY <2>0, <3>a, <4>1, SubSeqSame
    <3>b. SubSeq(ex.buf, ex.start, Q - 1) = SubSeq(ex.ps1, ex.start, Q - 1)
      BY <3>c
    <3>4. u = SubSeq(ex.ps1, ex.start, Q - 1)
      BY <3>b
    <3> PICK f : f = FlattenSeq(ex.items)
      OBVIOUS
    <3> PICK r : r = Means(ex.ps1)[n + 1]
      OBVIOUS
    <3> PICK g : g = Meaning(ex.ps1)
      OBVIOUS
    <3>5a. f \in Texts /\ u \in Texts /\ t \in Texts /\ r \in Texts
      BY <1>3, <1>4, <3>3
    <3>6. (f \o u) \o (t \o r) = g
      BY <3>1, <3>2, <3>4
    <3>5b. f \o u \in Texts
      BY ONLY <3>5a, LengthOfTwo
    <3> PICK h : h = f \o u
      OBVIOUS
    <3>5c. h \in Texts /\ t \in Texts /\ r \in Texts
      BY <3>5a, <3>5b
    <3>5d. (h \o t) \o r = h \o (t \o r)
      BY ONLY <3>5c, Associative
    <3>6a. (f \o u) \o (t \o r) = ((f \o u) \o t) \o r
      BY ONLY <3>5d, h = f \o u
    <3>7. ((f \o u) \o t) \o r = g
      BY ONLY <3>6, <3>6a
    <3>8. FlattenSeq(s.items) = (f \o u) \o t
      BY <1>4, <1>5
    <3>9. FlattenSeq(s.items) \o r = g
      BY ONLY <3>7, <3>8
    <3> QED
      BY ONLY <3>9, r = Means(ex.ps1)[n + 1], g = Meaning(ex.ps1)
  <2>5. \A k \in n + 1 .. l : s.buf[k] = ex.ps1[k]
    <3>1. ex.start \in Nat /\ ex.start <= n
      BY <1>1
    <3>2. \A k \in n + 1 .. l : k \in ex.start .. l
      BY ONLY <3>1, l \in Nat, n \in Nat
    <3>3. s.buf = ex.buf
      OBVIOUS
    <3> QED
      BY ONLY <2>1, <3>2, <3>3
  <2>8. /\ DOMAIN s = Fields /\ s.level = 0 /\ IsPrompt(s.ps1)
        /\ n \in Nat /\ n <= Len(s.ps1)
        /\ Len(s.buf) = Len(s.ps1) + 2 /\ s.buf[Len(s.ps1) + 1] = NUL
        /\ \A k \in n + 1 .. Len(s.ps1) : s.buf[k] = s.ps1[k]
        /\ FlattenSeq(s.items) \in Texts
        /\ FlattenSeq(s.items) \o Means(s.ps1)[n + 1] = Meaning(s.ps1)
    BY <1>2, <1>5, <2>1, <2>3, <2>4, <2>5
  <2> QED
    BY ONLY <2>8, Resumes
<1>8. n # 0
  BY <1>1
<1> QED
  BY <1>2, <1>5, <1>6, <1>7, <1>8, ResumesAt

-----------------------------------------------------------------------------
(* One lemma for each case of the switch: what the prompt means stays      *)
(* what it meant.  First the backslash.                                    *)

(* A character behind its backslash, as the meaning of PS1 reads it        *)
LEMMA EscapeFacts ==
    ASSUME PromptInv, MeansInv, Expanding, ex.backslash, ex.ps1 # <<>>
    PROVE  /\ Q = ex.cur - 1 /\ Q + 1 = ex.cur /\ Q + 2 = ex.cur + 1 /\ Q \in Nat \ {0}
           /\ Escape(ex.ps1, Q) /\ ex.ps1[Q + 1] = Here
           /\ IsSlash(ex.ps1[Q]) /\ ex.buf[Q] = ex.ps1[Q]
<1>0. ex.level = 0
  BY ScanFacts
<1> PICK l : l = Len(ex.ps1)
  OBVIOUS
<1>1. /\ l \in Nat /\ ex.cur \in 1 .. l /\ ex.start \in 1 .. ex.cur /\ Q \in ex.start .. ex.cur
      /\ \A k \in ex.start .. l : ex.buf[k] = ex.ps1[k]
      /\ Here = ex.ps1[ex.cur] /\ Placed(ex, ex.cur, Q)
  BY StandFacts
<1>2. Q # ex.cur /\ IsSlash(ex.ps1[Q]) /\ Q = ex.cur - 1
  BY <1>0, <1>1 DEF Placed
<1>3. Q \in ex.start .. l /\ ~(Q > l) /\ Q # l /\ Q \in Nat \ {0}
      /\ Q + 1 = ex.cur /\ Q + 2 = ex.cur + 1
  BY ONLY <1>1, <1>2
<1>4. Escape(ex.ps1, Q)
  BY <1>2, <1>3 DEF Escape, IsSlash
<1> QED
  BY <1>1, <1>2, <1>3, <1>4

LEMMA GoResets ==
    ASSUME NEW s, DOMAIN s = Fields, NEW n \in Nat, At(Reset(s, n), n + 1), Go(Reset(s, n))
    PROVE  MeansInv'
<1> PICK r : r = Reset(s, n)
  OBVIOUS
<1>1. DOMAIN r = Fields /\ r.cur = n
  BY ResetFacts
<1>2. DOMAIN r = Fields /\ r.cur \in Nat /\ At(r, r.cur + 1) /\ Go(r)
  BY <1>1
<1> QED
  BY ONLY <1>2, GoStands

LEMMA BackslashMeans ==
    ASSUME PromptInv, MeansInv, Backslash
    PROVE  MeansInv'
<1>1. /\ Expanding /\ IsSlash(Here)
      /\ Go(IF ex.backslash THEN Reset(Piece(ex, ex.count + 1), ex.cur)
            ELSE [ex EXCEPT !.backslash = TRUE])
  BY DEF Backslash, IsSlash
<1>2. /\ DOMAIN ex = Fields /\ Scanning(ex) /\ Len(ex.buf) \in Nat
      /\ ex.cur \in Nat /\ ex.start \in Nat \ {0} /\ ex.count \in Nat
      /\ ex.backslash \/ Here \notin Digits => ex.level = 0
  BY <1>1, ScanFacts
<1>3. At(ex, ex.cur)
  BY <1>1 DEF MeansInv, Expanding
<1>4. CASE ex.backslash
  <2> PICK s : s = Piece(ex, ex.count + 1)
    OBVIOUS
  <2>1. /\ DOMAIN s = Fields /\ s.level = 0 /\ s.ps1 = ex.ps1 /\ s.buf = ex.buf
        /\ s.items = Item(ex.items, SubSeq(ex.buf, ex.start, Q))
    <3>1. ex.start + (ex.count + 1) - 1 = Q
      BY <1>2 DEF Q
    <3>2. s.items = Item(ex.items, SubSeq(ex.buf, ex.start, ex.start + (ex.count + 1) - 1))
      BY <1>2 DEF Piece, Fields
    <3>3. DOMAIN s = Fields /\ s.level = 0 /\ s.ps1 = ex.ps1 /\ s.buf = ex.buf
      BY <1>2, <1>4, PieceFacts DEF Fields
    <3> QED
      BY <3>1, <3>2, <3>3
  <2>2. ex.ps1 # <<>> =>
            MeaningFrom(ex.ps1, Means(ex.ps1), Q) = <<ex.buf[Q]>> \o Means(ex.ps1)[ex.cur + 1]
    <3> SUFFICES ASSUME ex.ps1 # <<>>
                 PROVE  MeaningFrom(ex.ps1, Means(ex.ps1), Q)
                          = <<ex.buf[Q]>> \o Means(ex.ps1)[ex.cur + 1]
      OBVIOUS
    <3>1. /\ Q + 2 = ex.cur + 1 /\ Escape(ex.ps1, Q) /\ ex.ps1[Q + 1] = Here
          /\ IsSlash(ex.ps1[Q]) /\ ex.buf[Q] = ex.ps1[Q]
      BY <1>1, <1>4, EscapeFacts
    <3>2. MeaningFrom(ex.ps1, Means(ex.ps1), Q) = <<ex.ps1[Q + 1]>> \o Means(ex.ps1)[Q + 2]
      BY <1>1, <3>1, MeaningBackslash
    <3>3. ex.ps1[Q + 1] = ex.buf[Q]
      BY <1>1, <3>1 DEF IsSlash
    <3> QED
      BY <3>1, <3>2, <3>3
  <2>3. ex.buf \in Texts /\ Q \in Nat /\ Q <= Q
    <3>1. ex.buf \in Texts
      BY <1>3 DEF At
    <3> QED
      BY <1>2, <3>1 DEF Q
  <2>4. ex.backslash \/ ex.level # 0
    BY <1>4
  <2>5. At(Reset(s, ex.cur), ex.cur + 1)
    BY ONLY PromptInv, MeansInv, <1>1, <2>1, <2>2, <2>3, <2>4, HandsOver
  <2>6. Go(Reset(s, ex.cur))
    BY <1>1, <1>4
  <2>7. DOMAIN s = Fields /\ ex.cur \in Nat
    BY <1>2, <2>1
  <2> QED
    BY ONLY <2>5, <2>6, <2>7, GoResets
<1>5. CASE ~ex.backslash
  <2> PICK s : s = [ex EXCEPT !.backslash = TRUE]
    OBVIOUS
  <2>1. /\ DOMAIN s = Fields /\ s.level = ex.level /\ s.ps1 = ex.ps1 /\ s.buf = ex.buf
        /\ s.items = ex.items /\ s.cur = ex.cur /\ s.start = ex.start /\ s.count = ex.count
        /\ s.backslash
    BY <1>2 DEF Fields
  <2>2. ex.level = 0
    BY <1>1, <1>2 DEF IsSlash, Digits
  <2>3. ex.ps1 # <<>> => Standing(s, ex.cur + 1)
    <3> SUFFICES ASSUME ex.ps1 # <<>> PROVE Standing(s, ex.cur + 1)
      OBVIOUS
    <3> PICK l : l = Len(ex.ps1)
      OBVIOUS
    <3>1. /\ l \in Nat /\ ex.cur \in 1 .. l /\ ex.start \in 1 .. ex.cur /\ ex.count \in Nat
          /\ Len(ex.buf) = l + 2 /\ ex.buf[l + 1] = NUL
          /\ \A k \in ex.start .. l : ex.buf[k] = ex.ps1[k]
          /\ Here = ex.ps1[ex.cur] /\ Placed(ex, ex.cur, Q) /\ Meant(ex, Q)
          /\ Q \in ex.start .. ex.cur
      BY <1>1, StandFacts
    <3>2. Copied(s, ex.cur + 1)
      BY <2>1, <3>1 DEF Copied
    <3>3. Q = ex.cur
      BY <1>5, <2>2, <3>1 DEF Placed
    <3>4. Placed(s, ex.cur + 1, Q)
      BY <1>1, <2>1, <2>2, <3>1, <3>3 DEF Placed
    <3>5. Meant(s, Q)
      BY <2>1, <3>1 DEF Meant
    <3>6. Q = s.start + s.count
      BY <2>1 DEF Q
    <3> QED
      BY <3>2, <3>4, <3>5, <3>6 DEF Standing
  <2>4. ex.ps1 = <<>> => BehindNul(s, ex.cur + 1)
    <3> SUFFICES ASSUME ex.ps1 = <<>>, ~NulFirst(ex.items)
                 PROVE  BehindNul(s, ex.cur + 1)
      BY <2>1 DEF BehindNul
    <3>1. /\ ex.items = <<>> /\ ex.start = 1 /\ ex.buf[1] = NUL
          /\ ex.cur = 1 => ex.count = 0 
          /\ ex.cur # 1 => ex.count # 0
      BY <1>3 DEF At, BehindNul
    <3>2. ex.cur # 1
      BY <1>1, <3>1 DEF Here, IsSlash, NUL
    <3>3. ex.cur + 1 # 1 /\ s.items = <<>> /\ s.start = 1 /\ s.buf[1] = NUL /\ s.count # 0
      BY ONLY <1>2, <2>1, <3>1, <3>2 DEF Scanning
    <3> QED
      BY ONLY <3>3 DEF BehindNul
  <2>5. At(s, s.cur + 1)
    BY <1>3, <2>1, <2>2, <2>3, <2>4 DEF At
  <2>6. Go(s)
    BY <1>1, <1>5
  <2> QED
    BY ONLY <1>2, <2>1, <2>5, <2>6, GoStands
<1> QED
  BY <1>4, <1>5

-----------------------------------------------------------------------------
(* The characters and texts that replace an escape *)

LEMMA SignIs ==
    ASSUME NEW c, <<c>> \in Texts
    PROVE  c \in Signs
<1> PICK u : u = <<c>>
  OBVIOUS
<1>1. u \in Seq(Signs) /\ Len(u) = 1 /\ u[1] = c
  BY DEF Texts
<1> QED
  BY <1>1, ElementOfSeq

LEMMA TextUpdated ==
    ASSUME NEW b \in Texts, NEW n \in 1 .. Len(b), NEW c \in Signs
    PROVE  /\ [b EXCEPT ![n] = c] \in Texts /\ Len([b EXCEPT ![n] = c]) = Len(b)
           /\ [b EXCEPT ![n] = c][n] = c
           /\ \A k \in 1 .. Len(b) : k # n => [b EXCEPT ![n] = c][k] = b[k]
BY ExceptSeq DEF Texts

LEMMA ReplaceMeans ==
    ASSUME PromptInv, MeansInv, Replace
    PROVE  MeansInv'
<1>1. /\ Expanding /\ ex.backslash /\ IsReplaced(Here)
      /\ Go(Reset(Piece([Counted EXCEPT !.buf[ex.cur - 1] = Code(Here)], Counted.count), ex.cur))
  BY DEF Replace
<1>2. /\ DOMAIN ex = Fields /\ Scanning(ex) /\ Len(ex.buf) \in Nat
      /\ ex.cur \in Nat /\ ex.start \in Nat \ {0} /\ ex.count \in Nat /\ ex.level = 0
  BY <1>1, ScanFacts
<1>3. Q \in Nat /\ Q < ex.cur /\ ex.start <= Q /\ ex.cur < Len(ex.buf)
  BY <1>1, BehindFacts
<1>4. ex.buf \in Texts
  BY <1>1 DEF MeansInv, Expanding, At
<1> PICK c : c = Code(Here)
  OBVIOUS
<1>5. c \in Signs
  BY <1>1, OneSign, SignIs
<1> PICK at : at = ex.cur - 1
  OBVIOUS
<1>6. at \in 1 .. Len(ex.buf) /\ at \in Nat /\ Q <= at
  BY <1>2, <1>3
<1> PICK b : b = [ex.buf EXCEPT ![at] = c]
  OBVIOUS
<1>7. /\ b \in Texts /\ Len(b) = Len(ex.buf) /\ b[at] = c
      /\ \A k \in 1 .. Len(b) : k # at => b[k] = ex.buf[k]
  BY <1>4, <1>5, <1>6, TextUpdated
<1> PICK d : d = [Counted EXCEPT !.buf[ex.cur - 1] = Code(Here)]
  OBVIOUS
<1>8. /\ DOMAIN d = Fields /\ d.buf = b /\ d.level = 0 /\ d.ps1 = ex.ps1
      /\ d.items = ex.items /\ d.start = ex.start /\ Counted.count = ex.count + 1
  BY <1>2 DEF Counted, Fields
<1> PICK s : s = Piece(d, Counted.count)
  OBVIOUS
<1>9. /\ DOMAIN s = Fields /\ s.level = 0 /\ s.ps1 = ex.ps1 /\ s.buf = b
      /\ s.items = Item(ex.items, SubSeq(b, ex.start, Q))
  <2>1. ex.start + (ex.count + 1) - 1 = Q
    BY <1>2 DEF Q
  <2>2. s.items = Item(ex.items, SubSeq(b, ex.start, ex.start + (ex.count + 1) - 1))
    BY <1>8 DEF Piece, Fields
  <2>3. DOMAIN s = Fields /\ s.level = 0 /\ s.ps1 = ex.ps1 /\ s.buf = b
    BY <1>8, PieceFacts DEF Fields
  <2> QED
    BY <2>1, <2>2, <2>3
<1>10. ex.ps1 # <<>> =>
          /\ at = Q
          /\ MeaningFrom(ex.ps1, Means(ex.ps1), Q) = <<b[Q]>> \o Means(ex.ps1)[ex.cur + 1]
  <2> SUFFICES ASSUME ex.ps1 # <<>>
               PROVE  /\ at = Q
                      /\ MeaningFrom(ex.ps1, Means(ex.ps1), Q)
                           = <<b[Q]>> \o Means(ex.ps1)[ex.cur + 1]
    OBVIOUS
  <2>1. /\ Q = ex.cur - 1 /\ Q + 2 = ex.cur + 1 /\ Escape(ex.ps1, Q) /\ ex.ps1[Q + 1] = Here
    BY <1>1, EscapeFacts
  <2>2. MeaningFrom(ex.ps1, Means(ex.ps1), Q) = <<Code(Here)>> \o Means(ex.ps1)[Q + 2]
    BY <1>1, <2>1, MeaningReplaced
  <2>3. at = Q /\ Code(Here) = b[Q]
    BY <1>7, <2>1
  <2> QED
    BY <2>1, <2>2, <2>3
<1>11. At(Reset(s, ex.cur), ex.cur + 1)
  <2>1. ex.backslash \/ ex.level # 0
    BY <1>1
  <2> QED
    BY ONLY PromptInv, MeansInv, <1>1, <1>6, <1>7, <1>9, <1>10, <2>1, HandsOver
<1>12. Go(Reset(s, ex.cur))
  BY <1>1
<1>13. DOMAIN s = Fields /\ ex.cur \in Nat
  BY <1>2, <1>9
<1> QED
  BY ONLY <1>11, <1>12, <1>13, GoResets

(* What was counted and a text are handed over.                            *)
LEMMA TextBehindPiece ==
    ASSUME DOMAIN ex = Fields, ex.start \in Nat, ex.count \in Nat, NEW t
    PROVE  /\ DOMAIN Text(Piece(Counted, ex.count), t) = Fields
           /\ Text(Piece(Counted, ex.count), t).level = ex.level
           /\ Text(Piece(Counted, ex.count), t).ps1 = ex.ps1
           /\ Text(Piece(Counted, ex.count), t).buf = ex.buf
           /\ Text(Piece(Counted, ex.count), t).items
                = Item(Item(ex.items, SubSeq(ex.buf, ex.start, Q - 1)), t)
<1> PICK d : d = Piece(Counted, ex.count)
  OBVIOUS
<1> PICK s : s = Text(d, t)
  OBVIOUS
<1>1. /\ DOMAIN Counted = Fields /\ Counted.buf = ex.buf /\ Counted.level = ex.level
      /\ Counted.ps1 = ex.ps1 /\ Counted.items = ex.items /\ Counted.start = ex.start
  BY DEF Counted, Fields
<1>2. d.items = Item(ex.items, SubSeq(ex.buf, ex.start, Q - 1))
  <2>1. d.items = Item(Counted.items,
                       SubSeq(Counted.buf, Counted.start, Counted.start + ex.count - 1))
    BY <1>1 DEF Piece, Fields
  <2>2. Counted.start + ex.count - 1 = Q - 1
    BY ONLY <1>1, ex.start \in Nat, ex.count \in Nat DEF Q
  <2> QED
    BY ONLY <1>1, <2>1, <2>2
<1>3. DOMAIN d = Fields /\ d.level = ex.level /\ d.ps1 = ex.ps1 /\ d.buf = ex.buf
  BY <1>1, PieceFacts DEF Fields
<1>4. DOMAIN s = Fields /\ s.level = ex.level /\ s.ps1 = ex.ps1 /\ s.buf = ex.buf
  BY <1>3, TextFacts DEF Fields
<1>5. s.items = Item(d.items, t)
  BY <1>3 DEF Text, Fields
<1> QED
  BY <1>2, <1>4, <1>5

LEMMA InsertMeans ==
    ASSUME PromptInv, MeansInv, Insert
    PROVE  MeansInv'
<1>1. /\ Expanding /\ ex.backslash /\ IsInserted(Here)
      /\ Go(Reset(Text(Piece(Counted, ex.count), Inserted(Here)), ex.cur))
  BY DEF Insert
<1>2. /\ DOMAIN ex = Fields /\ Scanning(ex) /\ Len(ex.buf) \in Nat
      /\ ex.cur \in Nat /\ ex.start \in Nat \ {0} /\ ex.count \in Nat /\ ex.level = 0
  BY <1>1, ScanFacts
<1> PICK t : t = Inserted(Here)
  OBVIOUS
<1>3. t \in Texts
  BY <1>1, InsertedType
<1> PICK s : s = Text(Piece(Counted, ex.count), t)
  OBVIOUS
<1>4. /\ DOMAIN s = Fields /\ s.level = 0 /\ s.ps1 = ex.ps1 /\ s.buf = ex.buf
      /\ s.items = Item(Item(ex.items, SubSeq(ex.buf, ex.start, Q - 1)), t)
  BY <1>2, TextBehindPiece
<1>5. ex.ps1 # <<>> =>
          /\ ex.cur <= Len(ex.ps1)
          /\ MeaningFrom(ex.ps1, Means(ex.ps1), Q) = t \o Means(ex.ps1)[ex.cur + 1]
  <2> SUFFICES ASSUME ex.ps1 # <<>>
               PROVE  /\ ex.cur <= Len(ex.ps1)
                      /\ MeaningFrom(ex.ps1, Means(ex.ps1), Q) = t \o Means(ex.ps1)[ex.cur + 1]
    OBVIOUS
  <2>1. Q + 2 = ex.cur + 1 /\ Escape(ex.ps1, Q) /\ ex.ps1[Q + 1] = Here
    BY <1>1, EscapeFacts
  <2>2. MeaningFrom(ex.ps1, Means(ex.ps1), Q) = Inserted(Here) \o Means(ex.ps1)[Q + 2]
    BY <1>1, <2>1, MeaningInserted
  <2>3. ex.cur <= Len(ex.ps1)
    BY <1>1, StandFacts
  <2> QED
    BY <2>1, <2>2, <2>3
<1>6. At(Reset(s, ex.cur), ex.cur + 1)
  <2>1. ex.cur \in Nat /\ ex.cur <= ex.cur
    BY <1>2
  <2> QED
    BY ONLY PromptInv, MeansInv, <1>1, <1>3, <1>4, <1>5, <2>1, HandsOverText
<1>7. Go(Reset(s, ex.cur))
  BY <1>1
<1>8. DOMAIN s = Fields /\ ex.cur \in Nat
  BY <1>2, <1>4
<1> QED
  BY ONLY <1>6, <1>7, <1>8, GoResets

LEMMA EndMeans ==
    ASSUME NEW p \in Seq(STRING)
    PROVE  /\ Means(p)[Len(p) + 1] = <<>> /\ Len(p) \in Nat
           /\ p = <<>> => Meaning(p) = <<>>
<1>0. Len(p) \in Nat
  BY LenProperties
<1> PICK n : n = Len(p) + 1
  OBVIOUS
<1>1. n \in 1 .. Len(p) + 1 /\ n > Len(p)
  BY <1>0
<1>2. Means(p)[n] = MeaningFrom(p, Means(p), n)
  BY ONLY <1>1, p \in Seq(STRING), MeansAt
<1>3. MeaningFrom(p, Means(p), n) = <<>>
  BY ONLY <1>1, MeaningEnd
<1>4. p = <<>> => n = 1
  BY EmptySeq
<1>5. Meaning(p) = Means(p)[1]
  BY MeansAre
<1> QED
  BY <1>0, <1>2, <1>3, <1>4, <1>5

LEMMA NoPasswdEntryMeans ==
    ASSUME PromptInv, MeansInv, NoPasswdEntry
    PROVE  MeansInv'
<1> PICK p : p = ex.ps1
  OBVIOUS
<1>1. Expanding /\ ex.backslash /\ Here \in OfUser
  BY DEF NoPasswdEntry
<1>2. ex'.do = "fault" /\ ex'.ps1 = p
  BY DEF NoPasswdEntry, Idle
<1>3. p \in Seq(STRING) /\ Len(p) \in Nat
  BY <1>1, LenProperties DEF MeansInv, At, Expanding, IsPrompt
<1>4. p = <<>> => Meaning(p) = <<>>
  BY ONLY <1>3, EndMeans
<1>5. p # <<>> => AsksForUser(p)
  <2> SUFFICES ASSUME p # <<>> PROVE AsksForUser(p)
    OBVIOUS
  <2> PICK n : n = Q
    OBVIOUS
  <2>1. n \in Nat \ {0} /\ Escape(p, n) /\ p[n + 1] \in OfUser
    BY <1>1, EscapeFacts
  <2>2. n \in DOMAIN p /\ n < Len(p) /\ p[n] = "\\"
    BY ONLY <1>3, <2>1, LenProperties DEF Escape
  <2> QED
    BY ONLY <2>1, <2>2 DEF AsksForUser
<1>6. PromptMeansPs1'
  <2>1. Meaning(p) = <<>> \/ AsksForUser(p)
    BY ONLY <1>4, <1>5
  <2> QED
    BY ONLY <1>2, <2>1 DEF PromptMeansPs1
<1> QED
  BY ONLY <1>2, <1>6 DEF MeansInv

-----------------------------------------------------------------------------
(* Octal codes *)

(* Where a code of up to three digits begins                               *)
CodeAt == ex.cur - ex.level - 1

LEMMA CodeFacts ==
    ASSUME PromptInv, MeansInv, Expanding, Here \in Digits, ex.level > 0 \/ ex.backslash
    PROVE  /\ CodeAt \in 1 .. Len(ex.buf) /\ Q <= CodeAt /\ ex.level \in 0 .. 2
           /\ CodeAt + 1 \in Nat \ {0} /\ ex.cur \in Int /\ ex.cur <= Len(ex.buf)
           /\ \A i \in CodeAt + 1 .. ex.cur : ex.buf[i] \in Digits
           /\ SubSeq(ex.buf, CodeAt + 1, ex.cur) \in Seq(Digits)
<1>1. /\ Scanning(ex) /\ Len(ex.buf) \in Nat
      /\ ex.cur \in Nat /\ ex.start \in Nat \ {0} /\ ex.count \in Nat
  BY ScanFacts
<1>2. /\ ex.level \in 0 .. 2 /\ ex.cur <= Len(ex.buf) - 1
      /\ ex.backslash => ex.level = 0 /\ ex.start + ex.count <= ex.cur - 1
      /\ ex.level > 0 => ex.start + ex.count <= ex.cur - ex.level - 1
  BY <1>1 DEF Scanning
<1>3. CodeAt \in 1 .. Len(ex.buf) /\ Q <= CodeAt
  <2>1. ex.level > 0 => ex.start + ex.count <= ex.cur - ex.level - 1
    BY <1>2
  <2>2. ex.level = 0 => ex.start + ex.count <= ex.cur - ex.level - 1
    <3>1. ex.level = 0 => ex.start + ex.count <= ex.cur - 1
      BY <1>2
    <3> QED
      BY ONLY <1>1, <3>1
  <2>3. ex.level \in Nat /\ (ex.level > 0 \/ ex.level = 0)
    BY ONLY <1>2
  <2>4. ex.start + ex.count <= ex.cur - ex.level - 1
    BY ONLY <2>1, <2>2, <2>3
  <2> PICK c \in Nat, l \in Nat, st \in Nat \ {0}, n \in Nat, e \in Nat :
        c = ex.cur /\ l = ex.level /\ st = ex.start /\ n = ex.count /\ e = Len(ex.buf)
    BY ONLY <1>1, <2>3
  <2>5. st + n <= c - l - 1 /\ c <= e - 1 => c - l - 1 \in 1 .. e
    BY ONLY c \in Nat, l \in Nat, st \in Nat \ {0}, n \in Nat, e \in Nat
  <2>6. ex.cur <= Len(ex.buf) - 1
    BY <1>2
  <2>7. ex.cur - ex.level - 1 \in 1 .. Len(ex.buf)
    BY ONLY <2>4, <2>5, <2>6, c = ex.cur, l = ex.level, st = ex.start, n = ex.count, e = Len(ex.buf)
  <2> QED
    BY ONLY <2>4, <2>7 DEF CodeAt, Q
<1>4. \A i \in CodeAt + 1 .. ex.cur : ex.buf[i] \in Digits
  <2>1. ex.level # 0 => \A i \in ex.cur - ex.level .. ex.cur : ex.buf[i] \in Digits
    BY DEF MeansInv, Expanding, At
  <2>2. CASE ex.level = 0
    <3>1. \A i \in CodeAt + 1 .. ex.cur : i = ex.cur
      BY <1>1, <2>2 DEF CodeAt
    <3> QED
      BY <3>1 DEF Here
  <2>3. CASE ex.level # 0
    <3>1. CodeAt + 1 = ex.cur - ex.level
      BY <1>1, <1>2 DEF CodeAt
    <3> QED
      BY <2>1, <2>3, <3>1
  <2> QED
    BY <2>2, <2>3
<1>5. SubSeq(ex.buf, CodeAt + 1, ex.cur) \in Seq(Digits)
  <2> PICK b : b = ex.buf
    OBVIOUS
  <2> PICK m : m = CodeAt + 1
    OBVIOUS
  <2>1. \A i \in m .. ex.cur : b[i] \in Digits
    BY <1>4
  <2>2. m \in Int /\ ex.cur \in Int
    BY <1>1, <1>3
  <2>3. SubSeq(b, m, ex.cur) \in Seq(Digits)
    BY ONLY <2>1, <2>2, SubSeqProperties
  <2> QED
    BY <2>3
<1> QED
  BY <1>1, <1>2, <1>3, <1>4, <1>5

(* The digits that were counted are those that the meaning of PS1 counts.  *)
LEMMA NumberFacts ==
    ASSUME PromptInv, MeansInv, Expanding, Here \in Digits, ex.level > 0 \/ ex.backslash,
           ex.ps1 # <<>>
    PROVE  /\ CodeAt = Q /\ Escape(ex.ps1, Q) /\ ex.ps1[Q + 1] \in Digits
           /\ Q + (ex.level + 1) = ex.cur
           /\ CodeEnds => Number(ex.ps1, Q) = ex.level + 1
           /\ SubSeq(ex.buf, CodeAt + 1, ex.cur) = SubSeq(ex.ps1, Q + 1, ex.cur)
<1> PICK p : p = ex.ps1
  OBVIOUS
<1> PICK l : l = Len(p)
  OBVIOUS
<1>1. /\ l \in Nat /\ ex.cur \in 1 .. l /\ ex.start \in 1 .. ex.cur /\ Q \in ex.start .. ex.cur
      /\ \A i \in ex.start .. l : ex.buf[i] = p[i]
      /\ Following = IF ex.cur < l THEN p[ex.cur + 1] ELSE NUL
      /\ Placed(ex, ex.cur, Q) /\ IsPrompt(p)
  BY StandFacts
<1>2. /\ ex.level \in 0 .. 2 /\ \A i \in CodeAt + 1 .. ex.cur : ex.buf[i] \in Digits
  BY CodeFacts
<1>3. ex.backslash => ex.level = 0
  BY ScanFacts
<1>4. Q # ex.cur /\ IsSlash(p[Q]) /\ Q = ex.cur - ex.level - 1
  <2>1. Q # ex.cur
    BY <1>1, <1>2 DEF Placed
  <2>2. CASE ex.level = 0
    BY <1>1, <2>1, <2>2 DEF Placed
  <2>3. CASE ex.level # 0
    BY <1>1, <2>1, <2>3 DEF Placed
  <2> QED
    BY <2>2, <2>3
<1>5. CodeAt = Q
  BY <1>4 DEF CodeAt
<1> PICK k : k = ex.level + 1
  OBVIOUS
<1> PICK q : q = Q
  OBVIOUS
<1>6. /\ q \in Nat \ {0} /\ k \in 1 .. 3 /\ q + k = ex.cur /\ q + 1 <= l /\ ~(q > l) /\ q # l
      /\ ex.start <= q
  BY ONLY <1>1, <1>2, <1>4, k = ex.level + 1, q = Q
<1>7. Escape(p, q)
  BY <1>4, <1>6 DEF Escape, IsSlash
<1>8. \A i \in q + 1 .. q + k : p[i] = ex.buf[i] /\ p[i] \in Digits
  BY <1>1, <1>2, <1>5, <1>6
<1>9. q + 1 \in q + 1 .. q + k
  BY <1>6
<1>10. p \in Seq(STRING)
  BY <1>1 DEF IsPrompt
<1>11. CodeEnds => Number(p, q) = k
  <2> SUFFICES ASSUME CodeEnds PROVE Number(p, q) = k
    OBVIOUS
  <2>1. k = 3 \/ q + k = l \/ p[q + k + 1] \notin Digits
    BY <1>1, <1>6 DEF CodeEnds
  <2>2. q + k <= Len(p)
    BY <1>1, <1>6
  <2>3. \A i \in q + 1 .. q + k : p[i] \in Digits
    BY <1>8
  <2>4. IsNumber(p, q, k)
    BY <1>6, <1>10, <2>1, <2>2, <2>3, NumberMeans
  <2>5. q + 1 <= Len(p) /\ p[q + 1] \in Digits
    BY <1>6, <1>8, <1>9
  <2> QED
    BY <1>6, <1>10, <2>4, <2>5, NumberIs
<1>12. SubSeq(ex.buf, q + 1, ex.cur) = SubSeq(p, q + 1, ex.cur)
  <2> PICK b : b = ex.buf
    OBVIOUS
  <2> PICK m : m = q + 1
    OBVIOUS
  <2>1. \A i \in m .. ex.cur : b[i] = p[i]
    BY <1>6, <1>8
  <2>2. m \in Nat \ {0} /\ ex.cur \in Int /\ ex.cur <= Len(p)
    BY <1>1, <1>6
  <2>3. SubSeq(b, m, ex.cur) = SubSeq(p, m, ex.cur)
    BY ONLY <1>10, <2>1, <2>2, SubSeqSame
  <2> QED
    BY <2>3
<1>13. p[q + 1] \in Digits
  BY <1>8, <1>9
<1> QED
  BY <1>5, <1>6, <1>7, <1>11, <1>12, <1>13

LEMMA OctalMeans ==
    ASSUME PromptInv, MeansInv, Octal
    PROVE  MeansInv'
<1> PICK code : code = Char(OctalValue(SubSeq(ex.buf, CodeAt + 1, ex.cur)))
  OBVIOUS
<1>1. /\ Expanding /\ Here \in Digits /\ (ex.level > 0 \/ ex.backslash)
      /\ Go(IF CodeEnds
            THEN Reset(Piece([ex EXCEPT !.level = 0, !.buf[CodeAt] = code], ex.count + 1), ex.cur)
            ELSE [ex EXCEPT !.level = @ + 1, !.backslash = FALSE])
  BY DEF Octal, CodeAt
<1>2. /\ DOMAIN ex = Fields /\ Scanning(ex) /\ Len(ex.buf) \in Nat
      /\ ex.cur \in Nat /\ ex.start \in Nat \ {0} /\ ex.count \in Nat
  BY <1>1, ScanFacts
<1>3. /\ CodeAt \in 1 .. Len(ex.buf) /\ Q <= CodeAt /\ ex.level \in 0 .. 2
      /\ \A i \in CodeAt + 1 .. ex.cur : ex.buf[i] \in Digits
      /\ SubSeq(ex.buf, CodeAt + 1, ex.cur) \in Seq(Digits)
  BY <1>1, CodeFacts
<1>4. At(ex, ex.cur) /\ ex.buf \in Texts
  BY <1>1 DEF MeansInv, Expanding, At
<1>5. CASE CodeEnds
  <2>1. code \in Signs
    BY <1>3, OneSign
  <2> PICK at : at = CodeAt
    OBVIOUS
  <2>2. at \in 1 .. Len(ex.buf) /\ at \in Nat /\ Q <= at
    BY <1>3
  <2> PICK b : b = [ex.buf EXCEPT ![at] = code]
    OBVIOUS
  <2>3. /\ b \in Texts /\ Len(b) = Len(ex.buf) /\ b[at] = code
        /\ \A k \in 1 .. Len(b) : k # at => b[k] = ex.buf[k]
    BY <1>4, <2>1, <2>2, TextUpdated
  <2> PICK d : d = [ex EXCEPT !.level = 0, !.buf[CodeAt] = code]
    OBVIOUS
  <2>4. /\ DOMAIN d = Fields /\ d.buf = b /\ d.level = 0 /\ d.ps1 = ex.ps1
        /\ d.items = ex.items /\ d.start = ex.start
    BY <1>2 DEF Fields
  <2> PICK s : s = Piece(d, ex.count + 1)
    OBVIOUS
  <2>5. /\ DOMAIN s = Fields /\ s.level = 0 /\ s.ps1 = ex.ps1 /\ s.buf = b
        /\ s.items = Item(ex.items, SubSeq(b, ex.start, Q))
    <3>1. ex.start + (ex.count + 1) - 1 = Q
      BY <1>2 DEF Q
    <3>2. s.items = Item(ex.items, SubSeq(b, ex.start, ex.start + (ex.count + 1) - 1))
      BY <2>4 DEF Piece, Fields
    <3>3. DOMAIN s = Fields /\ s.level = 0 /\ s.ps1 = ex.ps1 /\ s.buf = b
      BY ONLY <2>4, PieceFacts, s = Piece(d, ex.count + 1) DEF Fields
    <3> QED
      BY <3>1, <3>2, <3>3
  <2>6. ex.ps1 # <<>> =>
            /\ at = Q
            /\ MeaningFrom(ex.ps1, Means(ex.ps1), Q) = <<b[Q]>> \o Means(ex.ps1)[ex.cur + 1]
    <3> SUFFICES ASSUME ex.ps1 # <<>>
                 PROVE  /\ at = Q
                        /\ MeaningFrom(ex.ps1, Means(ex.ps1), Q)
                             = <<b[Q]>> \o Means(ex.ps1)[ex.cur + 1]
      OBVIOUS
    <3>1. /\ CodeAt = Q /\ Escape(ex.ps1, Q) /\ ex.ps1[Q + 1] \in Digits
          /\ Q + (ex.level + 1) = ex.cur /\ Number(ex.ps1, Q) = ex.level + 1
          /\ SubSeq(ex.buf, CodeAt + 1, ex.cur) = SubSeq(ex.ps1, Q + 1, ex.cur)
      BY <1>1, <1>5, NumberFacts
    <3>2. MeaningFrom(ex.ps1, Means(ex.ps1), Q)
            = <<Char(OctalValue(SubSeq(ex.ps1, Q + 1, Q + Number(ex.ps1, Q))))>>
              \o Means(ex.ps1)[Q + Number(ex.ps1, Q) + 1]
      BY <3>1, MeaningDigits
    <3>3. Q + Number(ex.ps1, Q) = ex.cur
      BY <3>1
    <3>4. code = Char(OctalValue(SubSeq(ex.ps1, Q + 1, ex.cur)))
      BY <3>1
    <3>5. at = Q /\ b[Q] = code
      BY <2>3, <3>1
    <3> QED
      BY ONLY <3>2, <3>3, <3>4, <3>5
  <2>7. At(Reset(s, ex.cur), ex.cur + 1)
    <3>1. ex.backslash \/ ex.level # 0
      BY <1>1
    <3> QED
      BY ONLY PromptInv, MeansInv, <1>1, <2>2, <2>3, <2>5, <2>6, <3>1, HandsOver
  <2>8. Go(Reset(s, ex.cur))
    BY <1>1, <1>5
  <2>9. DOMAIN s = Fields /\ ex.cur \in Nat
    BY <1>2, <2>5
  <2> QED
    BY ONLY <2>7, <2>8, <2>9, GoResets
<1>6. CASE ~CodeEnds
  <2> PICK s : s = [ex EXCEPT !.level = @ + 1, !.backslash = FALSE]
    OBVIOUS
  <2>1. /\ DOMAIN s = Fields /\ s.level = ex.level + 1 /\ s.ps1 = ex.ps1 /\ s.buf = ex.buf
        /\ s.items = ex.items /\ s.cur = ex.cur /\ s.start = ex.start /\ s.count = ex.count
        /\ ~s.backslash
    BY <1>2 DEF Fields
  <2>2. ex.level + 1 # 3 /\ Following \in Digits
    BY <1>6 DEF CodeEnds
  <2>3. \A i \in ex.cur + 1 - s.level .. ex.cur + 1 : s.buf[i] \in Digits
    <3> SUFFICES ASSUME NEW i \in ex.cur + 1 - s.level .. ex.cur + 1 PROVE ex.buf[i] \in Digits
      BY <2>1
    <3>1. i = ex.cur + 1 \/ i \in CodeAt + 1 .. ex.cur
      BY <1>2, <1>3, <2>1 DEF CodeAt
    <3> QED
      BY <1>3, <2>2, <3>1 DEF Following
  <2>4. ex.ps1 # <<>> => Standing(s, ex.cur + 1)
    <3> SUFFICES ASSUME ex.ps1 # <<>> PROVE Standing(s, ex.cur + 1)
      OBVIOUS
    <3> PICK l : l = Len(ex.ps1)
      OBVIOUS
    <3>1. /\ l \in Nat /\ ex.cur \in 1 .. l /\ ex.start \in 1 .. ex.cur /\ ex.count \in Nat
          /\ Len(ex.buf) = l + 2 /\ ex.buf[l + 1] = NUL
          /\ \A k \in ex.start .. l : ex.buf[k] = ex.ps1[k]
          /\ Placed(ex, ex.cur, Q) /\ Meant(ex, Q) /\ Q \in ex.start .. ex.cur
          /\ Following = IF ex.cur < l THEN ex.ps1[ex.cur + 1] ELSE NUL
      BY <1>1, StandFacts
    <3>2. Copied(s, ex.cur + 1)
      BY <2>1, <3>1 DEF Copied
    <3>3. CodeAt = Q /\ Escape(ex.ps1, Q)
      BY <1>1, NumberFacts
    <3>4. ex.cur < l
      BY <2>2, <3>1 DEF NUL, Digits
    <3>5. Q # ex.cur + 1 /\ Q <= ex.cur + 1 /\ s.level \in 1 .. 2 /\ s.level # 0
          /\ Q = ex.cur + 1 - s.level - 1 /\ ex.cur + 1 <= l
      BY ONLY SMTT(20), <1>2, <1>3, <2>1, <2>2, <3>1, <3>3, <3>4 DEF CodeAt
    <3>6. IsSlash(ex.ps1[Q])
      BY <3>3 DEF Escape, IsSlash
    <3>7. \A i \in Q + 1 .. ex.cur + 1 : ex.ps1[i] \in Digits
      <4> SUFFICES ASSUME NEW i \in Q + 1 .. ex.cur + 1 PROVE ex.ps1[i] \in Digits
        OBVIOUS
      <4>1. /\ i \in ex.start .. l
            /\ i \in ex.cur + 1 - s.level .. ex.cur + 1
        BY ONLY SMTT(20), <3>1, <3>4, <3>5
      <4> QED
        BY <2>1, <2>3, <3>1, <4>1
    <3>8. Placed(s, ex.cur + 1, Q)
      <4> PICK c : c = ex.cur + 1
        OBVIOUS
      <4>1. /\ c \in Int /\ Q # c /\ Q <= c /\ s.level \in 1 .. 2 /\ s.level # 0
            /\ Q = c - s.level - 1 /\ c <= Len(s.ps1) /\ IsSlash(s.ps1[Q]) /\ ~s.backslash
        BY ONLY <1>2, <2>1, <3>5, <3>6, l = Len(ex.ps1), c = ex.cur + 1
      <4>2. \A i \in Q + 1 .. c : s.ps1[i] \in Digits
        BY ONLY <2>1, <3>7, c = ex.cur + 1
      <4>3. Placed(s, c, Q)
        BY ONLY <4>1, <4>2 DEF Placed
      <4> QED
        BY ONLY <4>3, c = ex.cur + 1
    <3>9. Meant(s, Q)
      BY <2>1, <3>1 DEF Meant
    <3>10. Q = s.start + s.count
      BY <2>1 DEF Q
    <3> QED
      BY <3>2, <3>8, <3>9, <3>10 DEF Standing
  <2>5. ex.ps1 = <<>> => BehindNul(s, ex.cur + 1)
    <3> SUFFICES ASSUME ex.ps1 = <<>>, ~NulFirst(ex.items)
                 PROVE  BehindNul(s, ex.cur + 1)
      BY <2>1 DEF BehindNul
    <3>1. /\ ex.items = <<>> /\ ex.start = 1 /\ ex.buf[1] = NUL
          /\ ex.cur # 1 => ex.count # 0
      BY <1>4 DEF At, BehindNul
    <3>2. ex.cur # 1 /\ ex.cur \in Nat \ {0}
      <4>1. ex.cur \in Nat \ {0}
        BY ONLY <1>2 DEF Scanning
      <4>2. ex.cur # 1
        BY ONLY <1>1, <3>1 DEF Here, Digits, NUL
      <4> QED
        BY <4>1, <4>2
    <3>3. ex.cur + 1 # 1 /\ s.items = <<>> /\ s.start = 1 /\ s.buf[1] = NUL /\ s.count # 0
      BY ONLY <2>1, <3>1, <3>2
    <3> QED
      BY ONLY <3>3 DEF BehindNul
  <2>6. At(s, s.cur + 1)
    <3>1. IsPrompt(s.ps1) /\ s.buf \in Texts /\ s.items \in Seq(Texts) /\ s.cur = ex.cur
      BY ONLY <1>4, <2>1 DEF At
    <3> PICK c : c = ex.cur + 1
      OBVIOUS
    <3>2. \A i \in c - s.level .. c : s.buf[i] \in Digits
      BY ONLY <1>2, <1>3, <2>1, <2>3, c = ex.cur + 1
    <3>3. s.ps1 # <<>> => Standing(s, c)
      BY ONLY <2>1, <2>4, c = ex.cur + 1
    <3>4. s.ps1 = <<>> => BehindNul(s, c)
      BY ONLY <2>1, <2>5, c = ex.cur + 1
    <3>5. At(s, c)
      BY ONLY <3>1, <3>2, <3>3, <3>4 DEF At
    <3> QED
      BY ONLY <3>1, <3>5, c = ex.cur + 1
  <2>7. Go(s)
    BY <1>1, <1>6
  <2> QED
    BY ONLY <1>2, <2>1, <2>6, <2>7, GoStands
<1> QED
  BY <1>5, <1>6

-----------------------------------------------------------------------------
(* Everything that is not an escape *)

(* A character that stays moves from what is meant to what was counted.    *)
LEMMA OneMore ==
    ASSUME NEW p \in Seq(STRING), NEW f \in Texts, NEW m \in Nat \ {0}, NEW q \in Nat,
           m <= q, q <= Len(p), NEW r \in Texts
    PROVE  (f \o SubSeq(p, m, q)) \o r = (f \o SubSeq(p, m, q - 1)) \o (<<p[q]>> \o r)
<1>0. Len(p) \in Nat
  BY LenProperties
<1> PICK a : a = SubSeq(p, m, q - 1)
  OBVIOUS
<1> PICK x : x = <<p[q]>>
  OBVIOUS
<1>1. SubSeq(p, m, q) = a \o x
  BY SubSeqGrows
<1>2. a \in Texts
  <2>1. q - 1 \in Int /\ q - 1 <= Len(p)
    BY <1>0
  <2> QED
    BY <2>1, SubSeqType, TextsAre
<1>3. x \in Texts
  <2>1. q \in 1 .. Len(p)
    BY <1>0
  <2>2. p[q] \in STRING
    BY <2>1, ElementOfSeq
  <2> QED
    BY <2>2, SingleText, TextsAre
<1>4. f \in Texts /\ a \in Texts /\ x \in Texts /\ r \in Texts
  BY <1>2, <1>3
<1>5. f \o a \in Texts
  BY ONLY <1>4, LengthOfTwo
<1> PICK h : h = f \o a
  OBVIOUS
<1>6. h \in Texts /\ x \in Texts /\ r \in Texts
  BY <1>4, <1>5
<1>7. (h \o x) \o r = h \o (x \o r)
  BY ONLY <1>6, Associative
<1>8. (f \o a) \o x = f \o (a \o x)
  BY ONLY <1>4, Associative
<1>9. (f \o (a \o x)) \o r = (f \o a) \o (x \o r)
  BY ONLY <1>7, <1>8, h = f \o a
<1> QED
  BY ONLY <1>1, <1>9, a = SubSeq(p, m, q - 1), x = <<p[q]>>

LEMMA KeptIs ==
    ASSUME NEW a \in Signs, NEW x \in Signs, IsSlash(a)
    PROVE  Kept(x) = <<a>> \o <<x>>
<1> PICK u, v : u = <<a>> /\ v = <<x>>
  OBVIOUS
<1> PICK w : w = Kept(x)
  OBVIOUS
<1>1. u \in Texts /\ Len(u) = 1 /\ u[1] = a /\ v \in Texts /\ Len(v) = 1 /\ v[1] = x
  BY TextsAre
<1>2. w = <<a, x>>
  BY DEF Kept, IsSlash
<1>3. w \in Seq(Signs) /\ Len(w) = 2 /\ w[1] = a /\ w[2] = x
  BY ONLY <1>2, a \in Signs, x \in Signs
<1> PICK z : z = u \o v
  OBVIOUS
<1>4. /\ z \in Seq(Signs) /\ Len(z) = 2
      /\ \A i \in 1 .. 2 : z[i] = IF i <= 1 THEN u[i] ELSE v[i - 1]
  BY <1>1, TwoTexts DEF Texts
<1>5. z[1] = a /\ z[2] = x
  <2>1. 1 \in 1 .. 2 /\ 2 \in 1 .. 2 /\ 2 - 1 = 1
    OBVIOUS
  <2> QED
    BY <1>1, <1>4, <2>1
<1>6. \A i \in 1 .. Len(w) : i = 1 \/ i = 2
  BY <1>3
<1>7. \A i \in 1 .. Len(w) : w[i] = z[i]
  BY ONLY <1>3, <1>5, <1>6
<1>8. w = z
  BY ONLY <1>3, <1>4, <1>7, SeqEqual
<1> QED
  BY <1>8

LEMMA OrdinaryMeans ==
    ASSUME PromptInv, MeansInv, Ordinary
    PROVE  MeansInv'
<1>1. /\ Expanding /\ ~IsSlash(Here) /\ ~(ex.level > 0 /\ Here \in Digits)
      /\ \/ ~ex.backslash /\ Go(Counted)
         \/ /\ ex.backslash /\ ~IsReplaced(Here) /\ ~IsInserted(Here) /\ Here \notin Digits
            /\ ~(Here = "D" /\ Following = "{")
            /\ Go([Counted EXCEPT !.count = @ + 1, !.backslash = FALSE])
  BY DEF Ordinary, IsSlash
<1>2. /\ DOMAIN ex = Fields /\ Scanning(ex) /\ Len(ex.buf) \in Nat
      /\ ex.cur \in Nat \ {0} /\ ex.start \in Nat \ {0} /\ ex.count \in Nat /\ ex.level = 0
  <2>1. /\ DOMAIN ex = Fields /\ Scanning(ex) /\ Len(ex.buf) \in Nat
        /\ ex.cur \in Nat /\ ex.start \in Nat \ {0} /\ ex.count \in Nat
    BY <1>1, ScanFacts
  <2>2. ex.level = 0 /\ ex.cur # 0
    <3>1. /\ ex.level \in 0 .. 2 /\ ex.cur # 0
          /\ ex.level > 0 => ex.buf[ex.cur] \in Digits
      BY ONLY <2>1 DEF Scanning
    <3>2. ~(ex.level > 0)
      BY ONLY <1>1, <3>1 DEF Here
    <3> QED
      BY ONLY <3>1, <3>2
  <2> QED
    BY <2>1, <2>2
<1>3. At(ex, ex.cur) /\ ex.items \in Seq(Texts)
  BY <1>1 DEF MeansInv, Expanding, At
<1> PICK f : f = FlattenSeq(ex.items)
  OBVIOUS
<1>4. f \in Texts
  BY <1>3, ItemIs, TextsAre
<1> PICK p : p = ex.ps1
  OBVIOUS
<1> PICK l : l = Len(p)
  OBVIOUS
<1>5. p # <<>> =>
        /\ l \in Nat /\ ex.cur \in 1 .. l /\ ex.start \in 1 .. ex.cur /\ ex.count \in Nat
        /\ Len(ex.buf) = l + 2 /\ ex.buf[l + 1] = NUL
        /\ \A k \in ex.start .. l : ex.buf[k] = p[k]
        /\ Placed(ex, ex.cur, Q) /\ Meant(ex, Q) /\ Q \in ex.start .. ex.cur
        /\ Here = p[ex.cur] /\ p \in Seq(STRING)
        /\ Following = IF ex.cur < l THEN p[ex.cur + 1] ELSE NUL
  BY <1>1, StandFacts DEF IsPrompt
<1>6. CASE ~ex.backslash /\ Go(Counted)
  <2>1. /\ DOMAIN Counted = Fields /\ Counted.level = 0 /\ Counted.ps1 = p
        /\ Counted.buf = ex.buf /\ Counted.items = ex.items /\ Counted.cur = ex.cur
        /\ Counted.start = ex.start /\ Counted.count = ex.count + 1 /\ ~Counted.backslash
    BY <1>2, <1>6 DEF Counted, Fields
  <2>2. p # <<>> => Standing(Counted, ex.cur + 1)
    <3> SUFFICES ASSUME p # <<>> PROVE Standing(Counted, ex.cur + 1)
      OBVIOUS
    <3>1. Copied(Counted, ex.cur + 1)
      BY ONLY <1>5, <2>1, p # <<>>, l = Len(p) DEF Copied
    <3>2. Q = ex.cur
      BY ONLY <1>2, <1>5, <1>6, p # <<>> DEF Placed
    <3> PICK c \in Nat : c = ex.cur + 1
      BY <1>2
    <3>3. Counted.start + Counted.count = c
      BY ONLY <1>2, <2>1, <3>2, c = ex.cur + 1 DEF Q
    <3>4. Placed(Counted, c, c)
      BY ONLY <2>1, c \in Nat DEF Placed
    <3> PICK q : q = ex.cur
      OBVIOUS
    <3>5. MeaningFrom(p, Means(p), q) = <<p[q]>> \o Means(p)[q + 1]
      <4>1. p[q] # "\\"
        BY ONLY <1>1, <1>5, p # <<>>, q = ex.cur DEF IsSlash
      <4>2. ~(q > Len(p))
        BY ONLY <1>5, p # <<>>, q = ex.cur, l = Len(p)
      <4> QED
        BY ONLY <4>1, <4>2, MeaningPlain
    <3>6. q \in 1 .. Len(p) + 1 /\ q + 1 \in 1 .. Len(p) + 1 /\ p \in Seq(STRING)
          /\ q \in Nat /\ ex.start <= q /\ q <= Len(p) /\ ex.start \in Nat \ {0}
      BY ONLY <1>2, <1>5, p # <<>>, q = ex.cur, l = Len(p)
    <3>7. Means(p)[q] = <<p[q]>> \o Means(p)[q + 1]
      BY ONLY <3>5, <3>6, MeansAt
    <3> PICK r : r = Means(p)[q + 1]
      OBVIOUS
    <3>8. r \in Texts
      BY <3>6, MeansAt
    <3>9. (f \o SubSeq(p, ex.start, q)) \o r = (f \o SubSeq(p, ex.start, q - 1)) \o (<<p[q]>> \o r)
      BY ONLY ZenonT(30), <1>4, <3>6, <3>8, OneMore
    <3>10. (f \o SubSeq(p, ex.start, q - 1)) \o Means(p)[q] = Meaning(p)
      BY ONLY <1>5, <3>2, q = ex.cur, p # <<>>, p = ex.ps1, f = FlattenSeq(ex.items) DEF Meant
    <3>11. (f \o SubSeq(p, ex.start, q)) \o Means(p)[q + 1] = Meaning(p)
      BY ONLY <3>7, <3>9, <3>10, r = Means(p)[q + 1]
    <3>12. c = q + 1 /\ c - 1 = q
      BY ONLY <3>6, q = ex.cur, c = ex.cur + 1
    <3>13. Meant(Counted, c)
      BY ONLY <2>1, <3>11, <3>12, f = FlattenSeq(ex.items) DEF Meant
    <3>14. Standing(Counted, c)
      BY ONLY <3>1, <3>3, <3>4, <3>13, c = ex.cur + 1 DEF Standing
    <3> QED
      BY ONLY <3>14, c = ex.cur + 1
  <2>3. p = <<>> => BehindNul(Counted, ex.cur + 1)
    <3> SUFFICES ASSUME p = <<>>, ~NulFirst(ex.items)
                 PROVE  BehindNul(Counted, ex.cur + 1)
      BY <2>1 DEF BehindNul
    <3>1. ex.items = <<>> /\ ex.start = 1 /\ ex.buf[1] = NUL
      BY <1>3 DEF At, BehindNul
    <3>2. /\ ex.cur + 1 # 1 /\ Counted.items = <<>> /\ Counted.start = 1
          /\ Counted.buf[1] = NUL /\ Counted.count # 0
      BY ONLY <1>2, <2>1, <3>1
    <3> QED
      BY ONLY <3>2 DEF BehindNul
  <2> PICK s : s = Counted
    OBVIOUS
  <2>4. At(s, s.cur + 1)
    <3>1. IsPrompt(s.ps1) /\ s.buf \in Texts /\ s.items \in Seq(Texts) /\ s.cur = ex.cur
          /\ s.level = 0 /\ s.ps1 = p
      BY ONLY <1>3, <2>1, p = ex.ps1, s = Counted DEF At
    <3>2. At(s, ex.cur + 1)
      BY ONLY <2>2, <2>3, <3>1, s = Counted DEF At
    <3> QED
      BY ONLY <3>1, <3>2
  <2>5. DOMAIN s = Fields /\ s.cur \in Nat /\ Go(s)
    BY ONLY <1>2, <1>6, <2>1, s = Counted
  <2> QED
    BY ONLY <2>4, <2>5, GoStands
<1> PICK s : s = [Counted EXCEPT !.count = @ + 1, !.backslash = FALSE]
  OBVIOUS
<1>7. CASE /\ ex.backslash /\ ~IsReplaced(Here) /\ ~IsInserted(Here) /\ Here \notin Digits
           /\ ~(Here = "D" /\ Following = "{")
           /\ Go(s)
  <2>1. /\ DOMAIN s = Fields /\ s.level = 0 /\ s.ps1 = p
        /\ s.buf = ex.buf /\ s.items = ex.items /\ s.cur = ex.cur
        /\ s.start = ex.start /\ s.count = ex.count + 2 /\ ~s.backslash
    BY <1>2 DEF Counted, Fields
  <2>2. p # <<>> => Standing(s, ex.cur + 1)
    <3> SUFFICES ASSUME p # <<>> PROVE Standing(s, ex.cur + 1)
      OBVIOUS
    <3>1. Copied(s, ex.cur + 1)
      BY ONLY SMTT(20), <1>5, <2>1, p # <<>>, l = Len(p) DEF Copied
    <3> PICK q : q = Q
      OBVIOUS
    <3>2. /\ q = ex.cur - 1 /\ q + 1 = ex.cur /\ q + 2 = ex.cur + 1 /\ q \in Nat \ {0}
          /\ Escape(p, q) /\ p[q + 1] = Here /\ IsSlash(p[q])
      BY <1>1, <1>7, EscapeFacts
    <3> PICK c \in Nat : c = ex.cur + 1
      BY <1>2
    <3>3. s.start + s.count = c
      BY ONLY <1>2, <2>1, <3>2, q = Q, c = ex.cur + 1 DEF Q
    <3>4. Placed(s, c, c)
      BY ONLY <2>1, c \in Nat DEF Placed
    <3>5. MeaningFrom(p, Means(p), q) = Kept(p[q + 1]) \o Means(p)[q + 2]
      <4>1. ~Opens(p, q)
        <5>1. q + 2 = ex.cur + 1 /\ q + 1 = ex.cur /\ l = Len(p)
          BY <3>2
        <5> QED
          BY ONLY <1>5, <1>7, <3>2, <5>1, p # <<>> DEF Opens
      <4> QED
        BY ONLY <1>1, <1>7, <3>2, <4>1, MeaningOther
    <3>6. /\ q \in 1 .. Len(p) + 1 /\ q + 2 \in 1 .. Len(p) + 1 /\ p \in Seq(STRING)
          /\ q \in Nat /\ q + 1 \in Nat /\ ex.start <= q /\ q <= Len(p) /\ ex.start \in Nat \ {0}
          /\ ex.start <= q + 1 /\ q + 1 <= Len(p) /\ q \in 1 .. Len(p) /\ q + 1 \in 1 .. Len(p)
      BY ONLY SMTT(20), <1>2, <1>5, <3>2, q = Q, p # <<>>, l = Len(p)
    <3> PICK r : r = Means(p)[q + 2]
      OBVIOUS
    <3>7. r \in Texts
      BY ONLY <3>6, r = Means(p)[q + 2], MeansAt
    <3>8. p[q] \in Signs /\ p[q + 1] \in Signs /\ <<p[q]>> \in Texts /\ <<p[q + 1]>> \in Texts
      <4>1. p[q] \in STRING /\ p[q + 1] \in STRING
        BY ONLY <3>6, ElementOfSeq
      <4>2. p[q] \in Signs /\ p[q + 1] \in Signs
        BY ONLY <4>1 DEF Signs
      <4> QED
        BY <4>2, TextsAre
    <3> PICK a, x : a = <<p[q]>> /\ x = <<p[q + 1]>>
      OBVIOUS
    <3>9. Kept(p[q + 1]) = a \o x
      BY ONLY <3>2, <3>8, a = <<p[q]>> /\ x = <<p[q + 1]>>, KeptIs
    <3>10. (a \o x) \o r = a \o (x \o r) /\ x \o r \in Texts
      <4>1. a \in Texts /\ x \in Texts /\ r \in Texts
        BY <3>7, <3>8
      <4>2. (a \o x) \o r = a \o (x \o r)
        BY ONLY <4>1, Associative
      <4>3. x \o r \in Texts
        BY ONLY <4>1, LengthOfTwo
      <4> QED
        BY <4>2, <4>3
    <3>11. Means(p)[q] = a \o (x \o r)
      <4>1. Means(p)[q] = MeaningFrom(p, Means(p), q)
        BY ONLY <3>6, MeansAt
      <4> QED
        BY ONLY <3>5, <3>9, <3>10, <4>1, r = Means(p)[q + 2]
    <3> PICK t : t = x \o r
      OBVIOUS
    <3>12. t \in Texts
      BY <3>10
    <3>13. (f \o SubSeq(p, ex.start, q)) \o t = (f \o SubSeq(p, ex.start, q - 1)) \o (<<p[q]>> \o t)
      <4>1. /\ p \in Seq(STRING) /\ f \in Texts /\ ex.start \in Nat \ {0} /\ q \in Nat
            /\ ex.start <= q /\ q <= Len(p) /\ t \in Texts
        BY ONLY <1>4, <3>6, <3>12
      <4> QED
        BY ONLY <4>1, OneMore
    <3> PICK n : n = q + 1
      OBVIOUS
    <3>14. n \in Nat /\ ex.start <= n /\ n <= Len(p) /\ n - 1 = q
      BY ONLY <3>6, n = q + 1
    <3>15. (f \o SubSeq(p, ex.start, n)) \o r = (f \o SubSeq(p, ex.start, n - 1)) \o (<<p[n]>> \o r)
      <4>1. /\ p \in Seq(STRING) /\ f \in Texts /\ ex.start \in Nat \ {0} /\ n \in Nat
            /\ ex.start <= n /\ n <= Len(p) /\ r \in Texts
        BY ONLY <1>4, <3>6, <3>7, <3>14
      <4> QED
        BY ONLY ZenonT(30), <4>1, OneMore
    <3>16. (f \o SubSeq(p, ex.start, q - 1)) \o Means(p)[q] = Meaning(p)
      BY ONLY <1>5, q = Q, p # <<>>, p = ex.ps1, f = FlattenSeq(ex.items) DEF Meant
    <3>17. (f \o SubSeq(p, ex.start, q)) \o t = Meaning(p)
      BY ONLY <3>11, <3>13, <3>16, t = x \o r, a = <<p[q]>> /\ x = <<p[q + 1]>>
    <3>18. (f \o SubSeq(p, ex.start, n)) \o r = Meaning(p)
      BY ONLY <3>14, <3>15, <3>17, t = x \o r, a = <<p[q]>> /\ x = <<p[q + 1]>>, n = q + 1
    <3>19. c = q + 2 /\ c - 1 = n
      BY ONLY <3>2, n = q + 1, c = ex.cur + 1
    <3>20. Meant(s, c)
      BY ONLY <2>1, <3>18, <3>19, r = Means(p)[q + 2], f = FlattenSeq(ex.items) DEF Meant
    <3>21. Standing(s, c)
      BY ONLY <3>1, <3>3, <3>4, <3>20, c = ex.cur + 1 DEF Standing
    <3> QED
      BY ONLY <3>21, c = ex.cur + 1
  <2>3. p = <<>> => BehindNul(s, ex.cur + 1)
    <3> SUFFICES ASSUME p = <<>>, ~NulFirst(ex.items)
                 PROVE  BehindNul(s, ex.cur + 1)
      BY <2>1 DEF BehindNul
    <3>1. ex.items = <<>> /\ ex.start = 1 /\ ex.buf[1] = NUL
      BY <1>3 DEF At, BehindNul
    <3>2. /\ ex.cur + 1 # 1 /\ s.items = <<>> /\ s.start = 1
          /\ s.buf[1] = NUL /\ s.count # 0
      BY ONLY <1>2, <2>1, <3>1
    <3> QED
      BY ONLY <3>2 DEF BehindNul
  <2>4. At(s, s.cur + 1)
    <3>1. IsPrompt(s.ps1) /\ s.buf \in Texts /\ s.items \in Seq(Texts) /\ s.cur = ex.cur
          /\ s.level = 0 /\ s.ps1 = p
      BY ONLY <1>3, <2>1, p = ex.ps1 DEF At
    <3>2. At(s, ex.cur + 1)
      BY ONLY <2>2, <2>3, <3>1 DEF At
    <3> QED
      BY ONLY <3>1, <3>2
  <2>5. DOMAIN s = Fields /\ s.cur \in Nat /\ Go(s)
    BY ONLY <1>2, <1>7, <2>1
  <2> QED
    BY ONLY <2>4, <2>5, GoStands
<1> QED
  BY <1>1, <1>6, <1>7

-----------------------------------------------------------------------------
(* \D{format} *)

(* What the rest of the copy says                                          *)
LEMMA RestIs ==
    ASSUME NEW p, IsPrompt(p), NEW b, Len(b) = Len(p) + 2, b[Len(p) + 1] = NUL,
           NEW n \in Nat \ {0}, n <= Len(p) + 1, \A k \in n .. Len(p) : b[k] = p[k]
    PROVE  StringAt(b, n) = SubSeq(p, n, Len(p))
<1> PICK l : l = Len(p)
  OBVIOUS
<1>1. p \in Seq(STRING) /\ l \in Nat /\ \A k \in 1 .. l : p[k] # NUL
  BY LenProperties DEF IsPrompt
<1> DEFINE nuls == {k \in n .. Len(b) : b[k] = NUL}
<1>2. nuls \subseteq Nat /\ l + 1 \in nuls
  BY <1>1
<1>3. \A k \in nuls : k >= l + 1
  <2> SUFFICES ASSUME NEW k \in nuls, ~(k >= l + 1) PROVE FALSE
    BY <1>1, <1>2
  <2>1. k \in n .. l /\ k \in 1 .. l /\ b[k] = NUL
    BY <1>1
  <2> QED
    BY <1>1, <2>1
<1>4. StringAt(b, n) = SubSeq(b, n, Min(nuls) - 1)
  BY DEF StringAt
<1> HIDE DEF nuls
<1>5. Min(nuls) \in nuls /\ \A k \in nuls : Min(nuls) <= k
  BY <1>2, MinIsLeast
<1> PICK m : m = Min(nuls)
  OBVIOUS
<1>6. m = l + 1 /\ m - 1 = l
  <2>1. m >= l + 1 /\ m <= l + 1 /\ m \in Nat
    BY <1>2, <1>3, <1>5
  <2> QED
    BY ONLY <1>1, <2>1
<1>7. SubSeq(b, n, l) = SubSeq(p, n, l)
  <2>1. \A k \in n .. l : b[k] = p[k]
    OBVIOUS
  <2>2. l \in Int /\ l <= Len(p) /\ n \in Nat \ {0}
    BY <1>1
  <2> QED
    BY ONLY <1>1, <2>1, <2>2, SubSeqSame
<1> QED
  BY <1>4, <1>6, <1>7

(* A text is as long as the part of it before a character only if it does  *)
(* not have that character.                                                *)
LEMMA ShorterUpTo ==
    ASSUME NEW C, NEW t \in Seq(C), NEW c
    PROVE  /\ UpToFirst(c, t) \in Seq(C) /\ Len(UpToFirst(c, t)) \in Nat /\ Len(t) \in Nat
           /\ UpToFirst(c, t) # t => Len(UpToFirst(c, t)) < Len(t)
BY UpToFirstFacts, UpToFirstType, LenProperties

(* FormatTime goes on behind the } or at the end of the prompt.            *)
RestOf(p, q) == SubSeq(p, q + 3, Len(p))
EndOf(rest, format, n) == IF format = rest THEN n + Len(rest) ELSE n + 1 + Len(format)

LEMMA FormatEnd ==
    ASSUME NEW p, IsPrompt(p), NEW q \in Nat \ {0}, Opens(p, q)
    PROVE  /\ EndOf(RestOf(p, q), Format(p, q), q + 2) \in Nat
           /\ q + 1 <= EndOf(RestOf(p, q), Format(p, q), q + 2)
           /\ EndOf(RestOf(p, q), Format(p, q), q + 2) <= Len(p)
           /\ EndOf(RestOf(p, q), Format(p, q), q + 2) + 1
                = Min({q + 4 + Len(Format(p, q)), Len(p) + 1})
<1>0. p \in Seq(STRING) /\ Len(p) \in Nat /\ q + 1 < Len(p)
  BY LenProperties DEF IsPrompt, Opens
<1> PICK l : l = Len(p)
  OBVIOUS
<1>1. p \in Seq(STRING) /\ l \in Nat /\ q + 3 <= l + 1
  BY ONLY <1>0, q \in Nat \ {0}, l = Len(p)
<1> PICK m : m = Min({q + 4 + Len(Format(p, q)), Len(p) + 1})
  OBVIOUS
<1> PICK format : format = Format(p, q)
  OBVIOUS
<1> PICK rest : rest = RestOf(p, q)
  OBVIOUS
<1>3. m = IF q + 3 + Len(format) > l THEN l + 1 ELSE q + 4 + Len(format)
  <2>1. m = IF q + 3 + Len(Format(p, q)) > Len(p) THEN Len(p) + 1
            ELSE q + 4 + Len(Format(p, q))
    BY <1>0, FormatNext
  <2> QED
    BY ONLY <2>1, l = Len(p), format = Format(p, q)
<1>4. rest \in Seq(STRING) /\ Len(rest) = l - q - 2
  <2> PICK n : n = q + 3
    OBVIOUS
  <2>1. \A i \in n .. l : p[i] \in STRING
    BY ONLY <1>1, q \in Nat \ {0}, n = q + 3, l = Len(p), ElementOfSeq
  <2>2. n \in Int /\ l \in Int /\ n <= l + 1 /\ l - n + 1 = l - q - 2
    BY ONLY <1>1, q \in Nat \ {0}, n = q + 3
  <2> PICK u : u = SubSeq(p, n, l)
    OBVIOUS
  <2>3. u \in Seq(STRING) /\ Len(u) = IF n <= l THEN l - n + 1 ELSE 0
    BY ONLY <2>1, <2>2, u = SubSeq(p, n, l), SubSeqProperties
  <2>4. Len(u) = l - q - 2
    BY ONLY <2>2, <2>3
  <2>5. rest = u
    BY DEF RestOf
  <2> QED
    BY <2>3, <2>4, <2>5
<1>5. Len(format) \in Nat /\ (format # rest => Len(format) < Len(rest))
  <2>1. format = UpToFirst("}", rest)
    BY DEF Format, RestOf
  <2> QED
    BY ONLY <1>4, <2>1, ShorterUpTo
<1> PICK end : end = EndOf(rest, format, q + 2)
  OBVIOUS
<1>6. end \in Nat /\ q + 1 <= end /\ end <= l /\ end + 1 = m
  <2>0. /\ format = rest => end = q + 2 + Len(rest)
        /\ format # rest => end = q + 2 + 1 + Len(format)
    BY DEF EndOf
  <2>1. CASE format = rest
    BY ONLY <1>1, <1>3, <1>4, <2>0, <2>1, q \in Nat \ {0}
  <2>2. CASE format # rest
    BY ONLY <1>1, <1>3, <1>4, <1>5, <2>0, <2>2, q \in Nat \ {0}
  <2> QED
    BY <2>1, <2>2
<1> QED
  BY <1>6

(* The format that ps_expander reads is the one that PS1 gives.            *)
LEMMA FormatFacts ==
    ASSUME PromptInv, MeansInv, Expanding, ex.backslash, Here = "D", Following = "{",
           ex.ps1 # <<>>
    PROVE  /\ Opens(ex.ps1, Q) /\ Escape(ex.ps1, Q) /\ Q \in Nat \ {0} /\ Q + 2 = ex.cur + 1
           /\ IsSlash(ex.ps1[Q]) /\ ex.ps1[Q + 1] = "D" /\ ex.ps1[Q + 2] = "{"
           /\ StringAt(ex.buf, ex.cur + 2) = RestOf(ex.ps1, Q)
           /\ UpToFirst("}", StringAt(ex.buf, ex.cur + 2)) = Format(ex.ps1, Q)
<1> PICK p : p = ex.ps1
  OBVIOUS
<1> PICK l : l = Len(p)
  OBVIOUS
<1> PICK b : b = ex.buf
  OBVIOUS
<1>1. /\ IsPrompt(p) /\ l \in Nat /\ ex.cur \in 1 .. l /\ ex.start \in 1 .. ex.cur
      /\ Len(b) = l + 2 /\ b[l + 1] = NUL /\ \A k \in ex.start .. l : b[k] = p[k]
      /\ Following = IF ex.cur < l THEN p[ex.cur + 1] ELSE NUL
  BY StandFacts
<1>2. /\ Q = ex.cur - 1 /\ Q + 1 = ex.cur /\ Q + 2 = ex.cur + 1 /\ Q \in Nat \ {0}
      /\ Escape(p, Q) /\ p[Q + 1] = Here /\ IsSlash(p[Q])
  BY EscapeFacts
<1>3. ex.cur < l
  BY <1>1 DEF NUL
<1>4. p[ex.cur + 1] = "{"
  BY <1>1, <1>3
<1>5. Opens(p, Q) /\ p[Q + 1] = "D" /\ p[Q + 2] = "{"
  <2>1. Q + 1 < Len(p)
    BY <1>2, <1>3
  <2> QED
    BY <1>2, <1>4, <2>1 DEF Opens
<1> PICK n : n = ex.cur + 2
  OBVIOUS
<1>6. n \in Nat \ {0} /\ n <= Len(p) + 1 /\ n = Q + 3 /\ \A k \in n .. Len(p) : b[k] = p[k]
  <2>0. ex.cur \in Nat
    BY ONLY <1>1
  <2> PICK c \in Nat : c = ex.cur
    BY ONLY <2>0
  <2>1. c \in 1 .. l /\ l \in Nat /\ c < l /\ n = c + 2 /\ Q = c - 1 /\ ex.start \in 1 .. c
    BY <1>1, <1>2, <1>3
  <2>2. n \in Nat \ {0} /\ n <= l + 1 /\ n = Q + 3
    BY ONLY <2>1
  <2>3. \A k \in n .. l : k \in ex.start .. l
    BY ONLY <2>1
  <2> QED
    BY <1>1, <2>2, <2>3
<1>7. StringAt(b, n) = SubSeq(p, n, Len(p))
  <2>1. Len(b) = Len(p) + 2 /\ b[Len(p) + 1] = NUL /\ IsPrompt(p)
    BY <1>1
  <2> QED
    BY ONLY <1>6, <2>1, RestIs
<1>8. StringAt(b, n) = RestOf(p, Q)
  BY <1>6, <1>7 DEF RestOf
<1>9. UpToFirst("}", StringAt(b, n)) = Format(p, Q)
  BY <1>8 DEF RestOf, Format
<1> QED
  BY <1>2, <1>5, <1>8, <1>9

LEMMA ThreeText ==
    ASSUME NEW C, NEW x \in C, NEW y \in C, NEW z \in C
    PROVE  /\ <<x, y, z>> \in Seq(C) /\ Len(<<x, y, z>>) = 3
           /\ <<x, y, z>>[1] = x /\ <<x, y, z>>[2] = y /\ <<x, y, z>>[3] = z
OBVIOUS

(* A format with nothing to show stands in PS1.                            *)
LEMMA ExhaustedByFormat ==
    ASSUME NEW p \in Seq(STRING), NEW q \in Nat \ {0}, Opens(p, q), IsSlash(p[q]),
           Format(p, q) # <<>>,
           \A i \in 1 .. Len(Format(p, q)) : Format(p, q)[i] \in Blanked
    PROVE  \E n, k \in DOMAIN p :
             /\ n + 3 <= k /\ SubSeq(p, n, n + 2) = <<"\\", "D", "{">>
             /\ ToSet(SubSeq(p, n + 3, k)) \subseteq Blanked
<1> PICK l : l = Len(p)
  OBVIOUS
<1>1. l \in Nat /\ DOMAIN p = 1 .. l /\ p[q + 1] = "D" /\ p[q + 2] = "{" /\ q + 1 < l
  BY LenProperties DEF Opens
<1> PICK f : f = Format(p, q)
  OBVIOUS
<1>2. /\ f \in Seq(STRING) /\ Len(f) \in Nat /\ Len(f) <= l - q - 2
      /\ \A i \in 1 .. Len(f) : f[i] = p[q + 2 + i] /\ f[i] \in Blanked
  BY FormatIs
<1>3. Len(f) # 0
  BY <1>2, EmptySeq
<1> PICK k : k = q + 2 + Len(f)
  OBVIOUS
<1>4. q \in 1 .. l /\ k \in 1 .. l /\ q + 3 <= k /\ k \in Nat /\ q + 3 \in Nat \ {0} /\ k <= Len(p)
  <2> PICK g \in Nat : g = Len(f)
    BY <1>2
  <2>1. l \in Nat /\ g <= l - q - 2 /\ g # 0 /\ k = q + 2 + g /\ q \in Nat \ {0}
    BY <1>1, <1>2, <1>3
  <2>2. q \in 1 .. l /\ k \in 1 .. l /\ q + 3 <= k /\ k \in Nat /\ q + 3 \in Nat \ {0}
    BY ONLY <2>1
  <2>3. k <= l
    BY ONLY <2>1
  <2> QED
    BY ONLY <2>2, <2>3, l = Len(p)
<1>5. ToSet(SubSeq(p, q + 3, k)) \subseteq Blanked
  <2> PICK m : m = q + 3
    OBVIOUS
  <2>1. ToSet(SubSeq(p, m, k)) = {p[i] : i \in m .. k}
    <3>1. p \in Seq(STRING) /\ m \in Nat \ {0} /\ k \in Nat /\ k <= Len(p)
      BY <1>4
    <3> QED
      BY ONLY <3>1, SetOfSub
  <2>2. ASSUME NEW i \in m .. k PROVE p[i] \in Blanked
    <3> PICK j \in 1 .. Len(f) : i = q + 2 + j
      <4>1. i - q - 2 \in 1 .. Len(f) /\ i = q + 2 + (i - q - 2)
        BY ONLY <1>2, q \in Nat \ {0}, m = q + 3, k = q + 2 + Len(f), i \in m .. k
      <4> QED
        BY <4>1
    <3> QED
      BY <1>2
  <2> QED
    BY <2>1, <2>2
<1>6. SubSeq(p, q, q + 2) = <<"\\", "D", "{">>
  <2> PICK c : c = "\\"
    OBVIOUS
  <2> PICK n : n = q + 2
    OBVIOUS
  <2> PICK u : u = SubSeq(p, q, n)
    OBVIOUS
  <2> PICK v : v = <<c, "D", "{">>
    OBVIOUS
  <2>1. p[q] = c
    BY DEF IsSlash
  <2>2. /\ \A i \in q .. n : p[i] \in STRING
        /\ q \in Int /\ n \in Int /\ q <= n /\ n - q + 1 = 3
    <3>1. q \in Int /\ n \in Int /\ q <= n /\ n - q + 1 = 3 /\ \A i \in q .. n : i \in 1 .. Len(p)
      <4>1. l \in Nat /\ q + 1 < l /\ q \in Nat \ {0}
        BY <1>1
      <4>2. q \in Int /\ n \in Int /\ q <= n /\ n - q + 1 = 3
        BY ONLY <4>1, n = q + 2
      <4>3. \A i \in q .. n : i \in 1 .. l
        BY ONLY <4>1, n = q + 2
      <4> QED
        BY ONLY <4>2, <4>3, l = Len(p)
    <3> QED
      BY ONLY <3>1, p \in Seq(STRING), ElementOfSeq
  <2>3. /\ u \in Seq(STRING) /\ Len(u) = IF q <= n THEN n - q + 1 ELSE 0
        /\ \A i \in 1 .. n - q + 1 : u[i] = p[q + i - 1]
    BY ONLY <2>2, u = SubSeq(p, q, n), SubSeqProperties
  <2>4. Len(u) = 3 /\ \A i \in 1 .. 3 : u[i] = p[q + i - 1]
    BY ONLY <2>2, <2>3
  <2>5. q + 1 - 1 = q /\ q + 2 - 1 = q + 1 /\ q + 3 - 1 = q + 2
        /\ 1 \in 1 .. 3 /\ 2 \in 1 .. 3 /\ 3 \in 1 .. 3
    BY ONLY q \in Nat \ {0}
  <2>6. u[1] = c /\ u[2] = "D" /\ u[3] = "{"
    BY ONLY <1>1, <2>1, <2>4, <2>5
  <2>7. v \in Seq({c, "D", "{"}) /\ Len(v) = 3 /\ v[1] = c /\ v[2] = "D" /\ v[3] = "{"
    <3>1. {c, "D", "{"} # {} /\ c \in {c, "D", "{"} /\ "D" \in {c, "D", "{"} /\ "{" \in {c, "D", "{"}
      OBVIOUS
    <3> QED
      BY ONLY <3>1, v = <<c, "D", "{">>, ThreeText
  <2>8. \A i \in 1 .. Len(u) : i = 1 \/ i = 2 \/ i = 3
    BY ONLY <2>4
  <2>9. \A i \in 1 .. Len(u) : u[i] = v[i]
    BY ONLY <2>6, <2>7, <2>8
  <2> PICK C, D : C = STRING /\ D = {c, "D", "{"}
    OBVIOUS
  <2>10. u \in Seq(C) /\ v \in Seq(D) /\ Len(u) = Len(v)
    BY <2>3, <2>4, <2>7
  <2>11. u = v
    BY ONLY <2>9, <2>10, SeqEqual
  <2> QED
    BY <2>11
<1> QED
  BY ONLY <1>1, <1>4, <1>5, <1>6

LEMMA FormatTimeMeans ==
    ASSUME PromptInv, MeansInv, FormatTime
    PROVE  MeansInv'
<1> PICK rest : rest = StringAt(ex.buf, ex.cur + 2)
  OBVIOUS
<1> PICK format : format = UpToFirst("}", rest)
  OBVIOUS
<1> PICK end : end = IF format = rest THEN ex.cur + 1 + Len(rest)
                     ELSE ex.cur + 2 + Len(format)
  OBVIOUS
<1> PICK t : t = TimeOf(format)
  OBVIOUS
<1>1. /\ Expanding /\ ex.backslash /\ Here = "D" /\ Following = "{"
      /\ IF t = <<>> THEN ex' = [Idle EXCEPT !.do = "exhausted", !.ps1 = ex.ps1]
         ELSE Go(Reset(Text(Piece(Counted, ex.count), t), end))
  BY DEF FormatTime, TimeOf
<1>2. /\ DOMAIN ex = Fields /\ Scanning(ex) /\ Len(ex.buf) \in Nat
      /\ ex.cur \in Nat /\ ex.start \in Nat \ {0} /\ ex.count \in Nat /\ ex.level = 0
  BY <1>1, ScanFacts
<1>3. ex.buf \in Texts /\ IsPrompt(ex.ps1)
  BY <1>1 DEF MeansInv, Expanding, At
<1>4. rest \in Texts /\ Len(rest) \in Nat
  <2>1. /\ ex.buf[ex.cur + 1] = "{" /\ ex.buf[Len(ex.buf)] = NUL
        /\ ex.cur \in 1 .. Len(ex.buf) - 1
    BY ONLY <1>1, <1>2 DEF Following, Scanning, IsCopy
  <2>2. ex.cur + 1 # Len(ex.buf)
    BY ONLY <2>1 DEF NUL
  <2> PICK n : n = ex.cur + 2
    OBVIOUS
  <2>3. n \in 1 .. Len(ex.buf)
    <3> PICK l \in Nat : l = Len(ex.buf)
      BY ONLY <1>2
    <3> PICK c \in Nat : c = ex.cur
      BY ONLY <1>2
    <3>1. c \in 1 .. l - 1 /\ c + 1 # l /\ n = c + 2
      BY <2>1, <2>2
    <3>2. n \in 1 .. l
      BY ONLY <3>1, l \in Nat
    <3> QED
      BY ONLY <3>2, l = Len(ex.buf)
  <2> PICK b : b = ex.buf
    OBVIOUS
  <2>4. b \in Seq(Signs) /\ n \in 1 .. Len(b) /\ b[Len(b)] = NUL
    BY <1>3, <2>1, <2>3 DEF Texts
  <2>5. StringAt(b, n) \in Seq(Signs) /\ Len(StringAt(b, n)) \in Nat
    BY ONLY <2>4, StringAtFacts
  <2> QED
    BY <2>5 DEF Texts
<1>5. format \in Texts /\ Len(format) \in Nat
  BY ONLY <1>4, format = UpToFirst("}", rest), ShorterUpTo DEF Texts
<1>6. end \in Nat /\ ex.cur <= end /\ end = EndOf(rest, format, ex.cur + 1)
  <2>1. format = rest => end = ex.cur + 1 + Len(rest)
    OBVIOUS
  <2>2. format # rest => end = ex.cur + 2 + Len(format)
    OBVIOUS
  <2>3. EndOf(rest, format, ex.cur + 1) = IF format = rest THEN ex.cur + 1 + Len(rest)
                                          ELSE ex.cur + 1 + 1 + Len(format)
    BY DEF EndOf
  <2> PICK e : e = EndOf(rest, format, ex.cur + 1)
    OBVIOUS
  <2>4. CASE format = rest
    BY ONLY <1>2, <1>4, <2>1, <2>3, <2>4, e = EndOf(rest, format, ex.cur + 1)
  <2>5. CASE format # rest
    BY ONLY <1>2, <1>5, <2>2, <2>3, <2>5, e = EndOf(rest, format, ex.cur + 1)
  <2> QED
    BY <2>4, <2>5
<1>7. t \in Texts /\ (t = <<>> => format # <<>> /\ \A n \in 1 .. Len(format) : format[n] \in Blanked)
  BY ONLY <1>5, t = TimeOf(format), TimeType DEF TimeOf
<1>8. ex.ps1 # <<>> =>
          /\ Opens(ex.ps1, Q) /\ Escape(ex.ps1, Q) /\ Q \in Nat \ {0} /\ Q + 2 = ex.cur + 1
          /\ IsSlash(ex.ps1[Q]) /\ rest = RestOf(ex.ps1, Q) /\ format = Format(ex.ps1, Q)
  BY <1>1, FormatFacts
<1>9. CASE t = <<>>
  <2>1. ex'.do = "exhausted" /\ ex'.ps1 = ex.ps1
    BY <1>1, <1>9, IdleFacts DEF Fields
  <2>2. ex.ps1 # <<>> =>
          \E n, k \in DOMAIN ex.ps1 :
             /\ n + 3 <= k /\ SubSeq(ex.ps1, n, n + 2) = <<"\\", "D", "{">>
             /\ ToSet(SubSeq(ex.ps1, n + 3, k)) \subseteq Blanked
    <3> SUFFICES ASSUME ex.ps1 # <<>>
                 PROVE  \E n, k \in DOMAIN ex.ps1 :
                          /\ n + 3 <= k /\ SubSeq(ex.ps1, n, n + 2) = <<"\\", "D", "{">>
                          /\ ToSet(SubSeq(ex.ps1, n + 3, k)) \subseteq Blanked
      OBVIOUS
    <3> PICK p, q : p = ex.ps1 /\ q = Q
      OBVIOUS
    <3>1. /\ p \in Seq(STRING) /\ q \in Nat \ {0} /\ Opens(p, q) /\ IsSlash(p[q])
          /\ Format(p, q) # <<>>
          /\ \A i \in 1 .. Len(Format(p, q)) : Format(p, q)[i] \in Blanked
      BY <1>3, <1>7, <1>8, <1>9 DEF IsPrompt
    <3>2. \E n, k \in DOMAIN p :
             /\ n + 3 <= k /\ SubSeq(p, n, n + 2) = <<"\\", "D", "{">>
             /\ ToSet(SubSeq(p, n + 3, k)) \subseteq Blanked
      BY ONLY <3>1, ExhaustedByFormat
    <3> QED
      BY ONLY <3>2, p = ex.ps1 /\ q = Q
  <2>3. PromptMeansPs1'
    BY ONLY <2>1, <2>2 DEF PromptMeansPs1
  <2> QED
    BY ONLY <2>1, <2>3 DEF MeansInv
<1>10. CASE t # <<>>
  <2> PICK s : s = Text(Piece(Counted, ex.count), t)
    OBVIOUS
  <2>1. /\ DOMAIN s = Fields /\ s.level = 0 /\ s.ps1 = ex.ps1 /\ s.buf = ex.buf
        /\ s.items = Item(Item(ex.items, SubSeq(ex.buf, ex.start, Q - 1)), t)
    <3>1. DOMAIN ex = Fields /\ ex.start \in Nat /\ ex.count \in Nat /\ ex.level = 0
      BY <1>2
    <3> QED
      BY ONLY <3>1, TextBehindPiece, s = Text(Piece(Counted, ex.count), t)
  <2>2. ex.ps1 # <<>> =>
            /\ end <= Len(ex.ps1)
            /\ MeaningFrom(ex.ps1, Means(ex.ps1), Q) = t \o Means(ex.ps1)[end + 1]
    <3> SUFFICES ASSUME ex.ps1 # <<>>
                 PROVE  /\ end <= Len(ex.ps1)
                        /\ MeaningFrom(ex.ps1, Means(ex.ps1), Q) = t \o Means(ex.ps1)[end + 1]
      OBVIOUS
    <3> PICK p, q : p = ex.ps1 /\ q = Q
      OBVIOUS
    <3>1. IsPrompt(p) /\ q \in Nat \ {0} /\ Opens(p, q) /\ Escape(p, q)
      BY <1>3, <1>8
    <3>2. /\ EndOf(RestOf(p, q), Format(p, q), q + 2) <= Len(p)
          /\ EndOf(RestOf(p, q), Format(p, q), q + 2) + 1
                = Min({q + 4 + Len(Format(p, q)), Len(p) + 1})
      BY ONLY <3>1, FormatEnd
    <3>3. end = EndOf(RestOf(p, q), Format(p, q), q + 2)
      BY <1>6, <1>8
    <3>4. MeaningFrom(p, Means(p), q)
            = TimeOf(Format(p, q)) \o Means(p)[Min({q + 4 + Len(Format(p, q)), Len(p) + 1})]
      BY ONLY <3>1, MeaningFormat
    <3>5. t = TimeOf(Format(p, q))
      BY <1>8
    <3> QED
      BY ONLY <3>2, <3>3, <3>4, <3>5, p = ex.ps1 /\ q = Q
  <2>3. At(Reset(s, end), end + 1)
    BY ONLY PromptInv, MeansInv, <1>1, <1>6, <1>7, <2>1, <2>2, HandsOverText
  <2>4. Go(Reset(s, end))
    BY <1>1, <1>10
  <2>5. DOMAIN s = Fields /\ end \in Nat
    BY <1>6, <2>1
  <2> QED
    BY ONLY <2>3, <2>4, <2>5, GoResets
<1> QED
  BY <1>9, <1>10

-----------------------------------------------------------------------------
(* The rest of the copy, and the result *)

LEMMA NoneFlattened == FlattenSeq(<<>>) = <<>>
BY EmptySeq DEF FlattenSeq

(* What is handed over last: the rest of PS1, which stands for itself.     *)
LEMMA RestMeans ==
    ASSUME PromptInv, MeansInv, ex.do = "rest", ex.ps1 # <<>>
    PROVE  /\ StringAt(ex.buf, ex.start) \in Texts
           /\ FlattenSeq(Item(ex.items, StringAt(ex.buf, ex.start))) = Meaning(ex.ps1)
<1> PICK p : p = ex.ps1
  OBVIOUS
<1> PICK l : l = Len(p)
  OBVIOUS
<1>1. /\ IsPrompt(p) /\ ex.items \in Seq(Texts) /\ p \in Seq(STRING) /\ l \in Nat
      /\ Standing(ex, l + 1)
  BY EndMeans DEF MeansInv, At, IsPrompt
<1> PICK c \in Nat : c = l + 1
  BY <1>1
<1> PICK q : q = ex.start + ex.count
  OBVIOUS
<1>2. /\ Len(ex.buf) = l + 2 /\ ex.buf[l + 1] = NUL
      /\ \A k \in ex.start .. l : ex.buf[k] = p[k]
      /\ ex.start \in 1 .. l + 1 /\ ex.count \in Nat
      /\ Placed(ex, c, q) /\ Meant(ex, q)
  BY <1>1 DEF Standing, Copied
<1>3. p # <<>> /\ l # 0
  BY <1>1, EmptySeq
<1> PICK rest : rest = SubSeq(p, ex.start, l)
  OBVIOUS
<1>4. StringAt(ex.buf, ex.start) = rest
  <2> PICK b, n : b = ex.buf /\ n = ex.start
    OBVIOUS
  <2>1. /\ IsPrompt(p) /\ Len(b) = Len(p) + 2 /\ b[Len(p) + 1] = NUL
        /\ n \in Nat \ {0} /\ n <= Len(p) + 1 /\ \A k \in n .. Len(p) : b[k] = p[k]
    BY ONLY <1>1, <1>2, b = ex.buf /\ n = ex.start, l = Len(p)
  <2>2. StringAt(b, n) = SubSeq(p, n, Len(p))
    BY ONLY <2>1, RestIs
  <2> QED
    BY <2>2
<1>5. rest \in Texts
  <2>1. p \in Seq(STRING) /\ ex.start \in Nat \ {0} /\ l \in Int /\ l <= Len(p)
    BY ONLY <1>1, <1>2, l = Len(p)
  <2>2. SubSeq(p, ex.start, l) \in Seq(STRING)
    BY ONLY <2>1, SubSeqType
  <2> QED
    BY <2>2, TextsAre
<1> PICK f : f = FlattenSeq(ex.items)
  OBVIOUS
<1>6. f \in Texts /\ FlattenSeq(Item(ex.items, rest)) = f \o rest /\ f \o rest \in Texts
  <2>1. FlattenSeq(ex.items) \in Texts
        /\ FlattenSeq(Item(ex.items, rest)) = FlattenSeq(ex.items) \o rest
        /\ FlattenSeq(Item(ex.items, rest)) \in Texts
    BY ONLY <1>1, <1>5, ItemIs
  <2> QED
    BY <2>1
<1>7. Means(p)[c] = <<>>
  BY <1>1, EndMeans
<1>8. (f \o SubSeq(p, ex.start, q - 1)) \o Means(p)[q] = Meaning(p)
  BY ONLY <1>2, p = ex.ps1, f = FlattenSeq(ex.items) DEF Meant
<1>9. (f \o rest) \o <<>> = Meaning(p)
  <2>1. CASE q = c
    <3>1. q - 1 = l
      BY ONLY <1>1, <2>1, c = l + 1
    <3> QED
      BY ONLY <1>7, <1>8, <2>1, <3>1, rest = SubSeq(p, ex.start, l)
  <2>2. CASE q # c
    <3>1. ex.level = 0
      BY ONLY <1>1, <1>2, c = l + 1, l = Len(p), p = ex.ps1, c \in Nat DEF Placed
    <3>2. q = c - 1
      BY ONLY <1>2, <2>2, <3>1 DEF Placed
    <3>3. q = l /\ q \in Nat /\ ex.start <= q /\ q <= Len(p) /\ q \in 1 .. Len(p) + 1
          /\ ~(q > Len(p)) /\ q = Len(p) /\ q + 1 = c
      BY ONLY <1>1, <1>2, <1>3, <3>2, c = l + 1, l = Len(p), q = ex.start + ex.count
    <3>4. Means(p)[q] = MeaningFrom(p, Means(p), q)
      BY ONLY <1>1, <3>3, MeansAt
    <3>5. MeaningFrom(p, Means(p), q) = <<p[q]>> \o Means(p)[q + 1]
      BY ONLY <3>3, MeaningPlain
    <3>6. Means(p)[q] = <<p[q]>> \o <<>>
      BY ONLY <1>7, <3>3, <3>4, <3>5
    <3> PICK r : r = <<>>
      OBVIOUS
    <3>7. /\ p \in Seq(STRING) /\ f \in Texts /\ ex.start \in Nat \ {0} /\ q \in Nat
          /\ ex.start <= q /\ q <= Len(p) /\ r \in Texts
      <4>1. r \in Texts
        BY TextsAre
      <4>2. ex.start \in Nat \ {0}
        BY ONLY <1>1, <1>2
      <4> QED
        BY ONLY <1>1, <1>6, <3>3, <4>1, <4>2
    <3>8. (f \o SubSeq(p, ex.start, q)) \o r = (f \o SubSeq(p, ex.start, q - 1)) \o (<<p[q]>> \o r)
      BY ONLY <3>7, OneMore
    <3> QED
      BY ONLY <1>8, <3>3, <3>6, <3>8, r = <<>>, rest = SubSeq(p, ex.start, l)
  <2> QED
    BY <2>1, <2>2
<1>10. (f \o rest) \o <<>> = f \o rest
  <2> PICK u : u = f \o rest
    OBVIOUS
  <2>1. u \in Seq(Signs)
    BY <1>6 DEF Texts
  <2>2. u \o <<>> = u
    BY ONLY <2>1, ConcatEmptySeq
  <2> QED
    BY <2>2
<1> QED
  BY <1>4, <1>5, <1>6, <1>9, <1>10

LEMMA YieldMeans ==
    ASSUME PromptInv, MeansInv, Yield
    PROVE  MeansInv'
<1> PICK t : t = StringAt(ex.buf, ex.start)
  OBVIOUS
<1> PICK items : items = Item(ex.items, t)
  OBVIOUS
<1> PICK p : p = ex.ps1
  OBVIOUS
<1>1. /\ ex.do = "rest"
      /\ ex' = [Idle EXCEPT !.do = IF items = <<>> THEN "fault" ELSE "shown",
                            !.ps1 = ex.ps1, !.items = items]
  BY DEF Yield
<1>2. /\ ex'.do = IF items = <<>> THEN "fault" ELSE "shown"
      /\ ex'.ps1 = p /\ ex'.items = items
  BY <1>1 DEF Idle
<1>3. At(ex, ex.cur) /\ IsPrompt(p) /\ ex.buf \in Seq(Signs) /\ ex.items \in Seq(Texts)
      /\ p \in Seq(STRING)
  BY <1>1 DEF MeansInv, At, Texts, IsPrompt
<1>4. t \in Texts
  <2> PICK b, n : b = ex.buf /\ n = ex.start
    OBVIOUS
  <2>1. b \in Seq(Signs) /\ n \in 1 .. Len(b) /\ b[Len(b)] = NUL
    BY <1>1, <1>3 DEF PromptInv, IsCopy
  <2>2. StringAt(b, n) \in Seq(Signs)
    BY ONLY <2>1, StringAtFacts
  <2> QED
    BY <2>2 DEF Texts
<1>5. items \in Seq(Texts)
  BY <1>3, <1>4, ItemIs
<1>6. CASE p # <<>>
  <2>1. FlattenSeq(items) = Meaning(p)
    BY <1>1, <1>6, RestMeans
  <2>2. items = <<>> => Meaning(p) = <<>>
    BY <2>1, NoneFlattened
  <2>3. UpToFirst(NUL, FlattenSeq(items)) = UpToFirst(NUL, Meaning(p))
    BY <2>1
  <2>4. PromptMeansPs1'
    BY ONLY <1>2, <2>2, <2>3 DEF PromptMeansPs1, Shown
  <2> QED
    BY ONLY <1>2, <2>4 DEF MeansInv
<1>7. CASE p = <<>>
  <2>1. Meaning(p) = <<>>
    BY <1>3, <1>7, EndMeans
  <2>2. UpToFirst(NUL, Meaning(p)) = <<>>
    <3> PICK u : u = Meaning(p)
      OBVIOUS
    <3>1. u \in Seq(Signs) /\ u = <<>>
      BY <2>1, EmptySeq
    <3>2. UpToFirst(NUL, u) = <<>>
      BY ONLY <3>1, UpToFirstType
    <3> QED
      BY <3>2
  <2>3. NulFirst(items) \/ items = <<>>
    <3>1. BehindNul(ex, ex.cur)
      BY <1>3, <1>7 DEF At
    <3>2. CASE NulFirst(ex.items)
      BY <1>3, <1>4, <3>2, ItemFirst
    <3>3. CASE ex.items = <<>> /\ ex.start = 1 /\ ex.buf[1] = NUL
      <4> PICK b : b = ex.buf
        OBVIOUS
      <4>1. b \in Seq(Signs) /\ b[1] = NUL /\ Len(b) \in Nat /\ 1 \in 1 .. Len(b)
        BY <1>1, <1>3, <3>3 DEF PromptInv, IsCopy
      <4> DEFINE nuls == {k \in 1 .. Len(b) : b[k] = NUL}
      <4>2. StringAt(b, 1) = SubSeq(b, 1, Min(nuls) - 1)
        BY DEF StringAt
      <4>3. nuls \subseteq Nat /\ 1 \in nuls /\ \A k \in nuls : k >= 1
        BY <4>1
      <4> HIDE DEF nuls
      <4>4. Min(nuls) \in nuls /\ \A k \in nuls : Min(nuls) <= k
        BY ONLY <4>3, MinIsLeast
      <4> PICK m : m = Min(nuls)
        OBVIOUS
      <4>5. m - 1 = 0
        <5>1. m <= 1 /\ m >= 1 /\ m \in Nat
          BY <4>3, <4>4
        <5> QED
          BY ONLY <5>1
      <4> PICK n, one : n = m - 1 /\ one = 1
        OBVIOUS
      <4>6. n \in Int /\ one \in Int /\ n < one
        BY <4>5
      <4>7. SubSeq(b, one, n) = <<>>
        BY ONLY <4>6, SubSeqEmpty
      <4>8. t = <<>>
        BY <3>3, <4>2, <4>7
      <4> QED
        BY <3>3, <4>8 DEF Item
    <3> QED
      BY <3>1, <3>2, <3>3 DEF BehindNul
  <2>4. NulFirst(items) => UpToFirst(NUL, FlattenSeq(items)) = <<>>
    <3> SUFFICES ASSUME NulFirst(items) PROVE UpToFirst(NUL, FlattenSeq(items)) = <<>>
      OBVIOUS
    <3>1. items \in Seq(Seq(Signs)) /\ items # <<>> /\ items[1] # <<>> /\ items[1][1] = NUL
      BY <1>5 DEF NulFirst, Texts
    <3>2. Len(items) > 0
      <4>1. Len(items) \in Nat /\ Len(items) # 0
        BY <3>1, EmptySeq, LenProperties
      <4> QED
        BY <4>1
    <3> PICK u : u = FlattenSeq(items)
      OBVIOUS
    <3>3. u \in Seq(Signs) /\ u[1] = NUL
      BY <3>1, <3>2, FlattenOne
    <3>4. UpToFirst(NUL, u) = <<>>
      BY ONLY <3>3, UpToFirstType
    <3> QED
      BY <3>4
  <2>5. items # <<>> => UpToFirst(NUL, FlattenSeq(items)) = UpToFirst(NUL, Meaning(p))
    BY <2>2, <2>3, <2>4
  <2>6. PromptMeansPs1'
    BY ONLY <1>2, <2>1, <2>5 DEF PromptMeansPs1, Shown
  <2> QED
    BY ONLY <1>2, <2>6 DEF MeansInv
<1> QED
  BY <1>6, <1>7

-----------------------------------------------------------------------------
(* The copy that ps_expander begins with, and its steps together           *)

LEMMA PromptsArePrompts ==
    ASSUME NEW p \in Prompts \cup Stray
    PROVE  IsPrompt(p)
<1>1. p \in Seq(STRING) /\ NUL \notin ToSet(p)
  BY PromptsAssumption
<1>2. DOMAIN p = 1 .. Len(p)
  BY <1>1, LenProperties
<1>3. \A k \in 1 .. Len(p) : p[k] # NUL
  BY <1>1, <1>2 DEF ToSet
<1> QED
  BY <1>1, <1>3 DEF IsPrompt

(* The copy that ps_expander starts with                                   *)
LEMMA FirstCopy ==
    ASSUME NEW p, IsPrompt(p), NEW stray \in Texts, p # <<>> => stray = <<>>
    PROVE  /\ p \o <<NUL>> \o stray \o <<NUL>> \in Texts
           /\ p # <<>> => Len(p \o <<NUL>> \o stray \o <<NUL>>) = Len(p) + 2
           /\ (p \o <<NUL>> \o stray \o <<NUL>>)[Len(p) + 1] = NUL
           /\ \A k \in 1 .. Len(p) : (p \o <<NUL>> \o stray \o <<NUL>>)[k] = p[k]
<1> PICK z : z = <<NUL>>
  OBVIOUS
<1>1. z \in Texts /\ Len(z) = 1 /\ z[1] = NUL
  <2>1. NUL \in Signs
    BY DEF Signs
  <2> QED
    BY <2>1, TextsAre
<1>2. p \in Texts /\ Len(p) \in Nat
  BY TextsAre, LenProperties DEF IsPrompt
<1> PICK l \in Nat : l = Len(p)
  BY <1>2
<1> PICK u : u = p \o z
  OBVIOUS
<1>3. /\ u \in Texts /\ Len(u) = l + 1
      /\ \A i \in 1 .. l + 1 : u[i] = IF i <= l THEN p[i] ELSE z[i - l]
  <2>1. /\ p \o z \in Texts /\ Len(p \o z) = Len(p) + Len(z)
        /\ \A i \in 1 .. Len(p) + Len(z) : (p \o z)[i] = IF i <= Len(p) THEN p[i] ELSE z[i - Len(p)]
    BY <1>1, <1>2, TwoTexts
  <2> QED
    BY ONLY <1>1, <2>1, l = Len(p), u = p \o z
<1>4. u[l + 1] = NUL /\ \A k \in 1 .. l : u[k] = p[k]
  <2>1. l + 1 \in 1 .. l + 1 /\ ~(l + 1 <= l) /\ (l + 1) - l = 1
    BY ONLY l \in Nat
  <2>2. \A k \in 1 .. l : k \in 1 .. l + 1 /\ k <= l
    BY ONLY l \in Nat
  <2> QED
    BY ONLY <1>1, <1>3, <2>1, <2>2
<1> PICK v : v = u \o stray
  OBVIOUS
<1>5. /\ v \in Texts /\ Len(v) = l + 1 + Len(stray) /\ Len(stray) \in Nat
      /\ \A i \in 1 .. l + 1 : v[i] = u[i]
  <2>1. /\ u \o stray \in Texts /\ Len(u \o stray) = Len(u) + Len(stray) /\ Len(stray) \in Nat
        /\ \A i \in 1 .. Len(u) + Len(stray) :
             (u \o stray)[i] = IF i <= Len(u) THEN u[i] ELSE stray[i - Len(u)]
    BY <1>3, TwoTexts
  <2> PICK g \in Nat : g = Len(stray)
    BY <2>1
  <2>2. \A i \in 1 .. l + 1 : i \in 1 .. l + 1 + g /\ i <= l + 1
    BY ONLY l \in Nat, g \in Nat
  <2> QED
    BY ONLY <1>3, <2>1, <2>2, g = Len(stray), v = u \o stray
<1> PICK w : w = v \o z
  OBVIOUS
<1>6. /\ w \in Texts /\ Len(w) = l + 2 + Len(stray)
      /\ \A i \in 1 .. l + 1 : w[i] = v[i]
  <2>1. /\ v \o z \in Texts /\ Len(v \o z) = Len(v) + Len(z)
        /\ \A i \in 1 .. Len(v) + Len(z) :
             (v \o z)[i] = IF i <= Len(v) THEN v[i] ELSE z[i - Len(v)]
    <3>1. v \in Texts /\ z \in Texts
      BY <1>1, <1>5
    <3> QED
      BY ONLY <3>1, TwoTexts
  <2> PICK g \in Nat : g = Len(stray)
    BY <1>5
  <2>2. \A i \in 1 .. l + 1 : i \in 1 .. l + 1 + g + 1 /\ i <= l + 1 + g
    BY ONLY l \in Nat, g \in Nat
  <2>3. l + 1 + g + 1 = l + 2 + g
    BY ONLY l \in Nat, g \in Nat
  <2> QED
    BY ONLY <1>1, <1>5, <2>1, <2>2, <2>3, g = Len(stray), w = v \o z
<1>7. p # <<>> => Len(w) = l + 2
  <2>1. p # <<>> => Len(stray) = 0
    BY EmptySeq
  <2> QED
    BY ONLY <1>6, <2>1, l \in Nat
<1>8. w[l + 1] = NUL /\ \A k \in 1 .. l : w[k] = p[k]
  <2>1. l + 1 \in 1 .. l + 1 /\ \A k \in 1 .. l : k \in 1 .. l + 1
    BY ONLY l \in Nat
  <2> QED
    BY ONLY <1>4, <1>5, <1>6, <2>1
<1>9. w = p \o <<NUL>> \o stray \o <<NUL>>
  OBVIOUS
<1> QED
  BY ONLY <1>6, <1>7, <1>8, <1>9, l = Len(p)

LEMMA BeginMeans ==
    ASSUME MeansInv, NEW p \in Prompts, Begin(p)
    PROVE  MeansInv'
<1>1. PICK stray \in IF p = <<>> THEN Stray ELSE {<<>>} :
        ex' = [Idle EXCEPT !.do = "expand", !.ps1 = p, !.cur = 1, !.start = 1,
                           !.buf = p \o <<NUL>> \o stray \o <<NUL>>]
  BY DEF Begin
<1>2. IsPrompt(p) /\ stray \in Texts /\ (p # <<>> => stray = <<>>)
  <2>1. IsPrompt(p)
    BY PromptsArePrompts
  <2>2. CASE p = <<>>
    BY <1>1, <2>1, <2>2, PromptsArePrompts, TextsAre DEF IsPrompt
  <2>3. CASE p # <<>>
    BY <1>1, <2>1, <2>3, TextsAre
  <2> QED
    BY <2>2, <2>3
<1> PICK b : b = p \o <<NUL>> \o stray \o <<NUL>>
  OBVIOUS
<1>3. /\ b \in Texts /\ b[Len(p) + 1] = NUL /\ \A k \in 1 .. Len(p) : b[k] = p[k]
      /\ p # <<>> => Len(b) = Len(p) + 2
  BY ONLY <1>2, b = p \o <<NUL>> \o stray \o <<NUL>>, FirstCopy
<1> PICK s : s = ex'
  OBVIOUS
<1>4. /\ s.do = "expand" /\ s.ps1 = p /\ s.cur = 1 /\ s.start = 1 /\ s.count = 0
      /\ s.buf = b /\ ~s.backslash /\ s.level = 0 /\ s.items = <<>>
  BY <1>1 DEF Idle
<1>5. p \in Seq(STRING) /\ Len(p) \in Nat
  BY <1>2, LenProperties DEF IsPrompt
<1>6. p # <<>> => Standing(s, 1)
  <2> SUFFICES ASSUME p # <<>> PROVE Standing(s, 1)
    OBVIOUS
  <2>1. Copied(s, 1)
    BY <1>3, <1>4, <1>5 DEF Copied
  <2>2. Placed(s, 1, 1)
    BY ONLY <1>4 DEF Placed
  <2>3. Meant(s, 1)
    <3> PICK z, one : z = 1 - 1 /\ one = 1
      OBVIOUS
    <3>1. z \in Int /\ one \in Int /\ z < one
      OBVIOUS
    <3>2. SubSeq(p, one, z) = <<>>
      BY ONLY <3>1, SubSeqEmpty
    <3> PICK r : r = Means(p)[1]
      OBVIOUS
    <3>3. Meaning(p) = r /\ r \in Texts
      <4>1. 1 \in 1 .. Len(p) + 1
        BY <1>5
      <4> QED
        BY <1>5, <4>1, MeansAre, MeansAt
    <3>4. <<>> \o <<>> = <<>>
      <4> PICK e : e = <<>>
        OBVIOUS
      <4>1. e \in Seq(Signs)
        BY EmptySeq
      <4>2. e \o <<>> = e
        BY ONLY <4>1, ConcatEmptySeq
      <4> QED
        BY <4>2
    <3>5. <<>> \o r = r
      BY <3>3, ConcatEmptySeq DEF Texts
    <3>6. (FlattenSeq(s.items) \o SubSeq(s.ps1, s.start, 1 - 1)) \o Means(s.ps1)[1] = Meaning(s.ps1)
      BY <1>4, <3>2, <3>3, <3>4, <3>5, NoneFlattened
    <3> QED
      BY ONLY <3>6 DEF Meant
  <2>4. s.start + s.count = 1
    BY <1>4
  <2> QED
    BY ONLY <2>1, <2>2, <2>3, <2>4 DEF Standing
<1>7. p = <<>> => BehindNul(s, 1)
  <2> SUFFICES ASSUME p = <<>> PROVE BehindNul(s, 1)
    OBVIOUS
  <2>1. Len(p) + 1 = 1
    BY EmptySeq
  <2> QED
    BY <1>3, <1>4, <2>1 DEF BehindNul
<1>8. At(s, s.cur)
  <2>1. s.items \in Seq(Texts)
    BY <1>4, EmptySeq
  <2> QED
    BY ONLY <1>2, <1>3, <1>4, <1>6, <1>7, <2>1 DEF At
<1>9. p # <<>> => 1 # Len(p) + 1
  BY <1>5, EmptySeq
<1>10. At(ex', ex'.cur) /\ ex'.do = "expand" /\ ex'.ps1 = p /\ ex'.cur = 1
  BY <1>4, <1>8
<1>11. PromptMeansPs1'
  BY ONLY <1>10 DEF PromptMeansPs1
<1> QED
  BY ONLY <1>9, <1>10, <1>11 DEF MeansInv

LEMMA ExpandMeans ==
    ASSUME PromptInv, MeansInv, Expand
    PROVE  MeansInv'
BY BackslashMeans, ReplaceMeans, InsertMeans, NoPasswdEntryMeans, FormatTimeMeans,
   OctalMeans, OrdinaryMeans, YieldMeans DEF Expand
=============================================================================
