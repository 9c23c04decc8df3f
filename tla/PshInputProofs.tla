--------------------------- MODULE PshInputProofs ---------------------------
(***************************************************************************)
(* Proofs about PshInput, for every value of PS1, every first size of the  *)
(* buffer of psh_fgets, every line and all aliases.                        *)
(***************************************************************************)
EXTENDS PshInput, PshPromptProofs, FiniteSetTheorems

(* Between two lines psh_fgets has no buffer; while it reads, the buffer   *)
(* holds what was read, unless realloc moved the block, which it does only *)
(* after the first Chunk characters.                                       *)
BufferIsFresh == got = <<>> /\ read = 0 /\ room = Chunk /\ stale = FALSE

BufferHoldsLine ==
    /\ typed \in Lines
    /\ read \in 0 .. Len(typed) /\ room \in Nat /\ stale \in BOOLEAN
    /\ room >= Chunk /\ read < room
    /\ stale => read >= Chunk
    /\ ~stale => got = SubSeq(typed, 1, read)

ReadInv ==
    /\ stage \in {"prompt", "history", "alias", "command"} => BufferIsFresh
    /\ stage = "read" => BufferHoldsLine
    /\ LineIsWhole

LEMMA LinesAreSeqs == ASSUME NEW t \in Lines PROVE t \in Seq(STRING) /\ Len(t) \in Nat
BY LinesAssumption, LenProperties

(* One more character: the buffer grows in time, and only then can it go   *)
(* stale.                                                                  *)
LEMMA GetCharKeeps ==
    ASSUME ReadInv, GetChar
    PROVE  ReadInv'
<1>1. stage = "read" /\ BufferHoldsLine /\ read < Len(typed) /\ UNCHANGED typed
  BY DEF ReadInv, GetChar
<1>2. typed \in Seq(STRING) /\ Len(typed) \in Nat /\ Chunk \in Nat \ {0}
  BY <1>1, LinesAreSeqs, ChunkAssumption DEF BufferHoldsLine
<1>3. stage' \in {"read", "fault"}
  BY DEF GetChar
<1>4. /\ read' \in 0 .. Len(typed) /\ room' \in Nat /\ stale' \in BOOLEAN
      /\ room' >= Chunk /\ read' < room'
      /\ stale' => read' >= Chunk
  <2>1. /\ read \in Nat /\ read < Len(typed) /\ room \in Nat
        /\ room >= Chunk /\ read < room /\ stale \in BOOLEAN
        /\ stale => read >= Chunk
    BY <1>1, <1>2 DEF BufferHoldsLine
  <2>2. read' = read + 1
    BY DEF GetChar
  <2>3. CASE Full
    <3>1. room' = 2 * room /\ stale' \in {stale, TRUE} /\ read + 1 = room
      BY <2>3 DEF GetChar, Full
    <3>2. stale' \in BOOLEAN
      BY <2>1, <3>1, Zenon
    <3> QED
      BY <1>2, <2>1, <2>2, <3>1, <3>2
  <2>4. CASE ~Full
    <3>1. room' = room /\ stale' = stale
      BY <2>4 DEF GetChar
    <3>2. read + 1 # room
      BY <2>4 DEF Full
    <3> QED
      BY <1>2, <2>1, <2>2, <3>1, <3>2
  <2> QED
    BY <2>3, <2>4
<1>5. ~stale' => got' = SubSeq(typed, 1, read')
  <2> SUFFICES ASSUME ~stale' PROVE got' = SubSeq(typed, 1, read')
    OBVIOUS
  <2>1. ~stale
    BY <1>1 DEF GetChar, BufferHoldsLine
  <2>2. got' = Append(SubSeq(typed, 1, read), typed[read + 1]) /\ read' = read + 1
    BY <1>1, <2>1 DEF GetChar, BufferHoldsLine
  <2>3. read \in Nat /\ read + 1 \in 1 .. Len(typed)
    BY <1>1, <1>2 DEF BufferHoldsLine
  <2>4. SubSeq(typed, 1, read + 1) = SubSeq(typed, 1, read) \o <<typed[read + 1]>>
    <3>1. SubSeq(typed, 1, read + 1)
            = SubSeq(typed, 1, (read + 1) - 1) \o <<typed[read + 1]>>
      BY <1>2, <2>3, SubSeqRecursiveSecond
    <3>2. (read + 1) - 1 = read
      BY <2>3
    <3> QED
      BY <3>1, <3>2
  <2>5. \A i \in 1 .. read : typed[i] \in STRING
    BY <1>2, <2>3, ElementOfSeq
  <2>6. SubSeq(typed, 1, read) \in Seq(STRING)
    BY <2>3, <2>5, SubSeqProperties
  <2>7. typed[read + 1] \in STRING
    BY <1>2, <2>3, ElementOfSeq
  <2> QED
    BY <2>2, <2>4, <2>6, <2>7, AppendIsConcat
<1>6. stage' = "read" => BufferHoldsLine'
  BY <1>1, <1>4, <1>5 DEF BufferHoldsLine
<1> QED
  BY <1>3, <1>6 DEF ReadInv, LineIsWhole

(* The line is received as the buffer holds it; a line that leaves a stale *)
(* buffer has at least Chunk characters.                                   *)
LEMMA EndOfLineKeeps ==
    ASSUME ReadInv, EndOfLine
    PROVE  ReadInv'
<1>1. stage = "read" /\ BufferHoldsLine /\ read = Len(typed)
  BY DEF ReadInv, EndOfLine
<1>2. typed \in Seq(STRING)
  BY <1>1, LinesAreSeqs DEF BufferHoldsLine
<1>3. CASE ~stale /\ Received(got)
  <2>1. got = typed
    BY <1>1, <1>2, <1>3, SubSeqFull DEF BufferHoldsLine
  <2>2. stage' \in {"prompt", "history"} /\ BufferIsFresh'
    BY <1>3 DEF Received, BufferIsFresh
  <2>3. stage' = "history" => line' = typed'
    BY <1>3, <2>1 DEF Received
  <2> QED
    BY <2>2, <2>3 DEF ReadInv, LineIsWhole
<1>4. CASE stale /\ \E junk \in Heap : Received(got \o junk)
  <2>1. stage' \in {"prompt", "history"} /\ BufferIsFresh'
    BY <1>4 DEF Received, BufferIsFresh
  <2>2. stage' = "history" => typed' = typed
    BY <1>4 DEF Received
  <2>3. Len(typed) >= Chunk
    BY <1>1, <1>4 DEF BufferHoldsLine
  <2> QED
    BY <2>1, <2>2, <2>3 DEF ReadInv, LineIsWhole
<1>5. CASE stage' = "fault"
  BY <1>5 DEF ReadInv, LineIsWhole
<1> QED
  BY <1>3, <1>4, <1>5 DEF EndOfLine

LEMMA ReadStep ==
    ASSUME ReadInv, [Next]_vars
    PROVE  ReadInv'
<1>1. CASE UNCHANGED lineVars
  BY <1>1 DEF lineVars, ReadInv, BufferIsFresh, BufferHoldsLine, LineIsWhole
<1>2. CASE AskForLine
  <2>1. stage = "prompt" /\ stage' = "read" /\ typed' \in Lines
    BY <1>2 DEF AskForLine, BeginRead
  <2>2. BufferIsFresh /\ UNCHANGED <<got, read, room, stale>>
    BY <1>2, <2>1 DEF ReadInv, AskForLine, BeginRead
  <2>3. typed' \in Seq(STRING) /\ Len(typed') \in Nat
    BY <2>1, LinesAreSeqs
  <2>4. SubSeq(typed', 1, 0) = <<>>
    BY SubSeqEmpty
  <2>5. read' = 0 /\ room' = Chunk /\ got' = <<>> /\ stale' = FALSE
    BY <2>2 DEF BufferIsFresh
  <2>6. BufferHoldsLine'
    <3>1. stale' \in BOOLEAN /\ ~stale' /\ got' = SubSeq(typed', 1, read')
      BY <2>4, <2>5, Zenon
    <3> QED
      BY <2>1, <2>3, <2>5, <3>1, ChunkAssumption DEF BufferHoldsLine
  <2> QED
    BY <2>1, <2>6 DEF ReadInv, LineIsWhole
<1>3. CASE GetChar
  BY <1>3, GetCharKeeps
<1>4. CASE EndOfLine
  BY <1>4, EndOfLineKeeps
<1>5. CASE EndOfInput
  BY <1>5 DEF EndOfInput, ReadInv, LineIsWhole
<1>6. CASE History
  BY <1>6 DEF History, NoLine, ReadInv, BufferIsFresh, LineIsWhole
<1>7. CASE ExpandAlias
  BY <1>7 DEF ExpandAlias, ReadInv, BufferIsFresh, LineIsWhole
<1>8. CASE Command
  BY <1>8 DEF Command, Alias, Unalias, OtherCommand, Runs, NoLine,
              ReadInv, BufferIsFresh, LineIsWhole
<1> QED
  BY <1>1, <1>2, <1>3, <1>4, <1>5, <1>6, <1>7, <1>8
     DEF Next, vars, NewPrompt, ExpandPrompt, LineStep, ReadLine

LEMMA ReadInvariant == Spec => []ReadInv
<1>1. Init => ReadInv
  BY DEF Init, LineInit, ReadInv, BufferIsFresh, LineIsWhole
<1>2. ReadInv /\ [Next]_vars => ReadInv'
  BY ReadStep
<1> QED
  BY <1>1, <1>2, PTL DEF Spec

(* psh_fgets never writes behind the block it believes to fill, whatever   *)
(* the first size of the buffer and however long the line.                 *)
THEOREM ReadStaysInside == Spec => []ReadFits
<1>1. ReadInv => ReadFits
  BY DEF ReadInv, BufferHoldsLine, ReadFits
<1> QED
  BY <1>1, ReadInvariant, PTL

(* Every line shorter than the first buffer is received as it was typed.   *)
THEOREM ShortLinesAreWhole == Spec => []LineIsWhole
<1>1. ReadInv => LineIsWhole
  BY DEF ReadInv
<1> QED
  BY <1>1, ReadInvariant, PTL

-----------------------------------------------------------------------------
(* Types *)

LEMMA DefinedType ==
    ASSUME NEW d \in Definitions, aliases \in [AliasNames -> AliasTexts \cup {NotAlias}]
    PROVE  Defined(d) \in [AliasNames -> AliasTexts \cup {NotAlias}]
<1>1. d \in Seq([name : AliasNames, text : AliasTexts])
  BY AliasAssumption
<1>2. Len(d) \in Nat /\ DOMAIN d = 1 .. Len(d)
  BY <1>1, LenProperties
<1>3. ASSUME NEW n \in AliasNames, Given(d, n) # {}
      PROVE  d[Max(Given(d, n))].text \in AliasTexts
  <2> DEFINE G == Given(d, n)
  <2>1. G \subseteq 1 .. Len(d)
    BY <1>2 DEF Given
  <2> HIDE DEF G
  <2>2. G \subseteq Nat /\ \A k \in G : k <= Len(d)
    BY <1>2, <2>1
  <2>3. G # {}
    BY <1>3 DEF G
  <2>4. Max(G) \in G
    BY <1>2, <2>2, <2>3, MaxIsGreatest
  <2>5. d[Max(G)] \in [name : AliasNames, text : AliasTexts]
    BY <1>1, <2>1, <2>4, ElementOfSeq
  <2> QED
    BY <2>5 DEF G
<1> QED
  BY <1>3 DEF Defined

TypeInv == PromptInv /\ ReadInv /\ TypeOK

LineTypes ==
    /\ typed \in Lines \cup {<<>>} /\ read \in 0 .. Len(typed)
    /\ room \in Nat /\ stale \in BOOLEAN

LEMMA PromptInvStep ==
    ASSUME PromptInv, [Next]_vars
    PROVE  PromptInv'
<1>1. CASE UNCHANGED ex
  BY <1>1 DEF PromptInv, Scanning
<1>2. CASE ex' = Idle
  BY <1>2, IdleFacts DEF PromptInv
<1> QED
  BY <1>1, <1>2, BeginKeeps, ExpandKeeps
     DEF Next, vars, NewPrompt, ExpandPrompt, AskForLine, LineStep

LEMMA LineTypesStep ==
    ASSUME LineTypes, ReadInv, [Next]_vars
    PROVE  LineTypes'
<1> USE ChunkAssumption
<1>0. Len(<<>>) = 0 /\ Len(typed) \in Nat
  BY LinesAreSeqs DEF LineTypes
<1>1. CASE UNCHANGED <<typed, read, room, stale>>
  BY <1>1 DEF LineTypes
<1>2. CASE AskForLine
  <2>1. typed' \in Lines /\ Len(typed') \in Nat
    BY <1>2, LinesAreSeqs DEF AskForLine, BeginRead
  <2>2. read' = 0 /\ UNCHANGED <<room, stale>>
    BY <1>2 DEF BeginRead, AskForLine, ReadInv, BufferIsFresh
  <2> QED
    BY <2>1, <2>2 DEF LineTypes
<1>3. CASE GetChar
  <2>1. stage = "read" /\ read < Len(typed) /\ read' = read + 1 /\ UNCHANGED typed
    BY <1>3 DEF GetChar
  <2>2. read' \in 0 .. Len(typed')
    BY <1>0, <2>1 DEF LineTypes
  <2>3. (room' = 2 * room \/ room' = room) /\ stale' \in {stale, TRUE}
    BY <1>3 DEF GetChar
  <2>4. room' \in Nat
    BY <2>3 DEF LineTypes
  <2>5. stale' \in BOOLEAN
    BY <2>3, Zenon DEF LineTypes
  <2> QED
    BY <2>1, <2>2, <2>4, <2>5 DEF LineTypes
<1>4. CASE read' = 0 /\ room' = Chunk /\ stale' = FALSE /\ typed' \in {typed, <<>>}
  <2>1. typed' \in Lines \cup {<<>>} /\ Len(typed') \in Nat
    BY <1>0, <1>4 DEF LineTypes
  <2>2. read' \in 0 .. Len(typed') /\ room' \in Nat
    BY <1>4, <2>1
  <2>3. stale' \in BOOLEAN
    BY <1>4, Zenon
  <2> QED
    BY <2>1, <2>2, <2>3 DEF LineTypes
<1>5. CASE EndOfLine
  <2>1. ASSUME NEW t, Received(t)
        PROVE  read' = 0 /\ room' = Chunk /\ stale' = FALSE /\ typed' \in {typed, <<>>}
    BY <2>1 DEF Received
  <2>2. UNCHANGED <<typed, read, room, stale>>
        \/ (read' = 0 /\ room' = Chunk /\ stale' = FALSE /\ typed' \in {typed, <<>>})
    BY <1>5, <2>1 DEF EndOfLine
  <2> QED
    BY <1>1, <1>4, <2>2
<1>6. CASE EndOfInput \/ History \/ Command
  <2>1. NoLine \/ UNCHANGED <<typed, read, room, stale>>
    BY <1>6 DEF EndOfInput, History, Command, Alias, Unalias, OtherCommand, Runs
  <2>2. NoLine => read' = 0 /\ room' = Chunk /\ stale' = FALSE /\ typed' \in {typed, <<>>}
    BY DEF NoLine
  <2> QED
    BY <1>1, <1>4, <2>1, <2>2
<1>7. CASE ExpandAlias
  BY <1>1, <1>7 DEF ExpandAlias
<1> QED
  BY <1>1, <1>2, <1>3, <1>5, <1>6, <1>7
     DEF Next, vars, lineVars, NewPrompt, ExpandPrompt, LineStep, ReadLine

LEMMA TypeStep ==
    ASSUME TypeInv, [Next]_vars
    PROVE  TypeInv'
<1>1. PromptInv' /\ ReadInv'
  BY PromptInvStep, ReadStep DEF TypeInv
<1>2. LineTypes'
  BY LineTypesStep DEF TypeInv, TypeOK, LineTypes
<1>3. (ex.do # "idle" => stage = "prompt")'
  <2>1. ex.do # "idle" => stage = "prompt"
    BY DEF TypeInv, TypeOK
  <2>2. CASE UNCHANGED lineVars
    <3>1. NewPrompt \/ ExpandPrompt \/ UNCHANGED ex => stage = "prompt" \/ ex'.do = ex.do
      BY <2>1 DEF NewPrompt, ExpandPrompt, Expand, Backslash, Replace, Insert, NoPasswdEntry,
                  FormatTime, Octal, Ordinary, Yield, Expanding
    <3> QED
      BY <2>1, <2>2, <3>1, IdleFacts DEF Next, vars, lineVars, AskForLine, LineStep
  <2>3. CASE AskForLine
    BY <2>3, IdleFacts DEF AskForLine
  <2>4. CASE LineStep
    <3>1. stage # "prompt" /\ UNCHANGED ex
      BY <2>4 DEF LineStep, ReadLine, GetChar, EndOfLine, EndOfInput, History,
                  ExpandAlias, Command, Alias, Unalias, OtherCommand, Runs
    <3> QED
      BY <2>1, <3>1
  <2> QED
    BY <2>2, <2>3, <2>4 DEF Next, vars, NewPrompt, ExpandPrompt
<1>4. stage' \in Stages
  BY DEF TypeInv, TypeOK, Next, vars, lineVars, NewPrompt, ExpandPrompt, AskForLine,
         LineStep, BeginRead, ReadLine, GetChar, EndOfLine, Received, EndOfInput, History,
         ExpandAlias, Command, Alias, Unalias, OtherCommand, Runs, Stages
<1>5. aliases' \in [AliasNames -> AliasTexts \cup {NotAlias}]
  <2>1. aliases \in [AliasNames -> AliasTexts \cup {NotAlias}]
    BY DEF TypeInv, TypeOK
  <2>2. CASE Alias
    BY <2>1, <2>2, DefinedType DEF Alias
  <2>3. CASE Unalias
    BY <2>1, <2>3 DEF Unalias
  <2>4. CASE UNCHANGED aliases
    BY <2>1, <2>4
  <2> QED
    BY <2>2, <2>3, <2>4
       DEF Next, vars, lineVars, NewPrompt, ExpandPrompt, AskForLine, LineStep, BeginRead,
           ReadLine, GetChar, EndOfLine, EndOfInput, NoLine, History, ExpandAlias, Command,
           OtherCommand
<1>6. StaysInCopy'
  BY <1>1 DEF PromptInv, Scanning, StaysInCopy
<1>7. (ex.do \in {"idle", "expand", "rest", "shown", "fault", "exhausted"})'
  BY <1>1 DEF PromptInv
<1> QED
  BY <1>1, <1>2, <1>3, <1>4, <1>5, <1>6, <1>7 DEF TypeInv, TypeOK, LineTypes

LEMMA InitTypes == Init => TypeInv
<1>1. Init => PromptInv /\ StaysInCopy
  BY IdleFacts DEF Init, PromptInv, StaysInCopy
<1>2. Init => ReadInv
  BY DEF Init, LineInit, ReadInv, BufferIsFresh, LineIsWhole
<1>3. Init => LineTypes /\ ex.do = "idle"
  <2> SUFFICES ASSUME Init PROVE LineTypes /\ ex.do = "idle"
    OBVIOUS
  <2>1. typed = <<>> /\ read = 0 /\ room = Chunk /\ stale = FALSE /\ ex = Idle
    BY DEF Init, LineInit
  <2>2. stale \in BOOLEAN
    BY <2>1, Zenon
  <2>3. Len(<<>>) = 0
    OBVIOUS
  <2>4. read \in 0 .. Len(typed)
    BY <2>1, <2>3
  <2> QED
    BY <2>1, <2>2, <2>4, IdleFacts, ChunkAssumption DEF LineTypes
<1> QED
  BY <1>1, <1>2, <1>3 DEF Init, LineInit, TypeInv, TypeOK, LineTypes, Stages

(* Types are kept; among them: for every value of PS1, ps_expander stays   *)
(* inside its copy of it and counts no character twice.                    *)
THEOREM TypeCorrect == Spec => []TypeOK
<1>1. Init => TypeInv
  BY InitTypes
<1>2. TypeInv /\ [Next]_vars => TypeInv'
  BY TypeStep
<1>3. TypeInv => TypeOK
  BY DEF TypeInv
<1> QED
  BY <1>1, <1>2, <1>3, PTL DEF Spec

-----------------------------------------------------------------------------
(* Aliases *)

(* The first word of a text ends where its first blank is, or with it.     *)
LEMMA WordEndIs ==
    ASSUME NEW t \in Seq(STRING), NEW e \in 1 .. Len(t) + 1,
           e <= Len(t) => t[e] \in Blanks, \A k \in 1 .. e - 1 : t[k] \notin Blanks
    PROVE  WordEnd(t) = e
<1> DEFINE T == {Len(t) + 1} \cup {n \in DOMAIN t : t[n] \in Blanks}
<1>1. Len(t) \in Nat /\ DOMAIN t = 1 .. Len(t)
  BY LenProperties
<1>2. T \subseteq Nat /\ T # {} /\ e \in T /\ \A y \in T : e <= y
  BY <1>1
<1>3. WordEnd(t) = Min(T)
  BY DEF WordEnd
<1> HIDE DEF T
<1>4. Min(T) \in T /\ \A y \in T : Min(T) <= y
  BY <1>2, MinIsLeast
<1>5. Min(T) \in Nat /\ Min(T) <= e /\ e <= Min(T) /\ e \in Nat
  BY <1>1, <1>2, <1>4
<1> QED
  BY <1>3, <1>5

LEMMA WordEndFacts ==
    ASSUME NEW t \in Seq(STRING)
    PROVE  /\ WordEnd(t) \in 1 .. Len(t) + 1 /\ Len(t) \in Nat
           /\ WordEnd(t) <= Len(t) => t[WordEnd(t)] \in Blanks
           /\ \A k \in 1 .. WordEnd(t) - 1 : t[k] \notin Blanks
<1> DEFINE T == {Len(t) + 1} \cup {n \in DOMAIN t : t[n] \in Blanks}
<1>1. Len(t) \in Nat /\ DOMAIN t = 1 .. Len(t)
  BY LenProperties
<1>2. T \subseteq Nat /\ T # {}
  BY <1>1
<1>3. WordEnd(t) = Min(T)
  BY DEF WordEnd
<1>4. Min(T) \in T /\ \A y \in T : Min(T) <= y
  <2> HIDE DEF T
  <2> QED
    BY <1>2, MinIsLeast
<1>5. WordEnd(t) \in T /\ \A y \in T : WordEnd(t) <= y
  BY <1>3, <1>4
<1> QED
  BY <1>1, <1>5

LEMMA SplitFacts ==
    ASSUME NEW t \in Seq(STRING)
    PROVE  /\ FirstWord(t) \in Seq(STRING) /\ Others(t) \in Seq(STRING)
           /\ Others(t) = <<>> \/ Others(t)[1] \in Blanks
           /\ FirstWord(t) \o Others(t) = t
<1> DEFINE e == WordEnd(t)
<1>1. /\ e \in 1 .. Len(t) + 1 /\ Len(t) \in Nat
      /\ e <= Len(t) => t[e] \in Blanks
  BY WordEndFacts
<1>2. FirstWord(t) = SubSeq(t, 1, e - 1) /\ Others(t) = SubSeq(t, e, Len(t))
  BY DEF FirstWord, Others
<1> HIDE DEF e
<1>3. \A i \in 1 .. Len(t) : t[i] \in STRING
  BY ElementOfSeq
<1>4. SubSeq(t, 1, e - 1) \in Seq(STRING)
  <2>1. \A i \in 1 .. e - 1 : t[i] \in STRING
    BY <1>1, <1>3
  <2> QED
    BY <1>1, <2>1, SubSeqProperties
<1>5. SubSeq(t, e, Len(t)) \in Seq(STRING)
      /\ (e <= Len(t) => SubSeq(t, e, Len(t))[1] = t[e])
  <2>1. \A i \in e .. Len(t) : t[i] \in STRING
    BY <1>1, <1>3
  <2>2. \A i \in 1 .. Len(t) - e + 1 : SubSeq(t, e, Len(t))[i] = t[e + i - 1]
    BY <1>1, <2>1, SubSeqProperties
  <2>3. e <= Len(t) => 1 \in 1 .. Len(t) - e + 1 /\ e + 1 - 1 = e
    BY <1>1
  <2> QED
    BY <1>1, <2>1, <2>2, <2>3, SubSeqProperties
<1>6. e > Len(t) => SubSeq(t, e, Len(t)) = <<>>
  BY <1>1, SubSeqEmpty
<1>8. e <= Len(t) \/ e > Len(t)
  BY <1>1
<1>9. Others(t) = <<>> \/ Others(t)[1] \in Blanks
  BY <1>1, <1>2, <1>5, <1>6, <1>8
<1>7. SubSeq(t, 1, e - 1) \o SubSeq(t, e, Len(t)) = t
  <2>0. 1 \in 1 .. Len(t) + 1 /\ e - 1 \in 1 - 1 .. Len(t) /\ Len(t) \in e - 1 .. Len(t)
    BY <1>1
  <2>1. SubSeq(t, 1, e - 1) \o SubSeq(t, (e - 1) + 1, Len(t)) = SubSeq(t, 1, Len(t))
    BY ONLY <2>0, t \in Seq(STRING), ConcatAdjacentSubSeq
  <2>2. (e - 1) + 1 = e
    BY <1>1
  <2> QED
    BY <2>1, <2>2, SubSeqFull
<1> QED
  BY <1>2, <1>4, <1>5, <1>7, <1>9

(* A text whose first word is put before what begins with a blank           *)
LEMMA SplitOfConcat ==
    ASSUME NEW a \in Seq(STRING), NEW o \in Seq(STRING), o = <<>> \/ o[1] \in Blanks
    PROVE  FirstWord(a \o o) = FirstWord(a) /\ Others(a \o o) = Others(a) \o o
<1> DEFINE e == WordEnd(a)
           t == a \o o
<1>1. /\ e \in 1 .. Len(a) + 1 /\ Len(a) \in Nat /\ Len(o) \in Nat
      /\ e <= Len(a) => a[e] \in Blanks
      /\ \A k \in 1 .. e - 1 : a[k] \notin Blanks
  BY WordEndFacts
<1>2. /\ t \in Seq(STRING) /\ Len(t) = Len(a) + Len(o)
      /\ \A i \in 1 .. Len(a) + Len(o) : t[i] = IF i <= Len(a) THEN a[i] ELSE o[i - Len(a)]
  BY ConcatProperties
<1>3. o = <<>> => Len(o) = 0
  OBVIOUS
<1>4. FirstWord(a) = SubSeq(a, 1, e - 1) /\ Others(a) = SubSeq(a, e, Len(a))
  BY DEF FirstWord, Others
<1> HIDE DEF e, t
<1>5. WordEnd(t) = e
  <2>1. \A k \in 1 .. e - 1 : t[k] \notin Blanks
    BY <1>1, <1>2
  <2>2. e <= Len(t) => t[e] \in Blanks
    <3> SUFFICES ASSUME e <= Len(t) PROVE t[e] \in Blanks
      OBVIOUS
    <3>1. CASE e <= Len(a)
      BY <1>1, <1>2, <3>1
    <3>2. CASE e = Len(a) + 1
      <4>1. o # <<>>
        BY <1>1, <1>2, <1>3, <3>2
      <4>2. t[e] = o[1]
        BY <1>1, <1>2, <3>2
      <4> QED
        BY <4>1, <4>2
    <3> QED
      BY <1>1, <3>1, <3>2
  <2>3. e \in 1 .. Len(t) + 1
    BY <1>1, <1>2
  <2> QED
    BY <1>2, <2>1, <2>2, <2>3, WordEndIs
<1>6. FirstWord(t) = SubSeq(t, 1, e - 1) /\ Others(t) = SubSeq(t, e, Len(t))
  BY <1>5 DEF FirstWord, Others
<1>7. \A i \in 1 .. Len(a) : a[i] \in STRING
  BY ElementOfSeq
<1>8. \A i \in 1 .. Len(t) : t[i] \in STRING
  BY <1>2, ElementOfSeq
<1>9. SubSeq(t, 1, e - 1) = SubSeq(a, 1, e - 1)
  <2>1. CASE e = 1
    BY <1>1, <2>1, SubSeqEmpty
  <2>2. CASE e > 1
    BY <1>1, <2>2, SubSeqOfConcat1 DEF t
  <2> QED
    BY <1>1, <2>1, <2>2
<1>10. SubSeq(t, e, Len(t)) = SubSeq(a, e, Len(a)) \o o
  <2> DEFINE u == SubSeq(t, e, Len(t))
             v == SubSeq(a, e, Len(a))
  <2>1. /\ u \in Seq(STRING) /\ Len(u) = Len(a) + Len(o) - e + 1
        /\ \A i \in 1 .. Len(a) + Len(o) - e + 1 : u[i] = t[e + i - 1]
    <3>1. \A i \in e .. Len(t) : t[i] \in STRING
      BY <1>1, <1>2, <1>8
    <3>2. e \in Int /\ Len(t) \in Int /\ e <= Len(t) + 1
      BY <1>1, <1>2
    <3>3. /\ u \in Seq(STRING) /\ Len(u) = IF e <= Len(t) THEN Len(t) - e + 1 ELSE 0
          /\ \A i \in 1 .. Len(t) - e + 1 : u[i] = t[e + i - 1]
      BY ONLY <3>1, <3>2, SubSeqProperties
    <3> HIDE DEF u
    <3> QED
      BY <1>1, <1>2, <3>2, <3>3
  <2>2. /\ v \in Seq(STRING) /\ Len(v) = Len(a) - e + 1
        /\ \A i \in 1 .. Len(a) - e + 1 : v[i] = a[e + i - 1]
    <3>1. \A i \in e .. Len(a) : a[i] \in STRING
      BY <1>1, <1>7
    <3> QED
      BY <1>1, <3>1, SubSeqProperties
  <2> HIDE DEF u, v
  <2>3. /\ v \o o \in Seq(STRING) /\ Len(v \o o) = Len(v) + Len(o)
        /\ \A i \in 1 .. Len(v) + Len(o) : (v \o o)[i] = IF i <= Len(v) THEN v[i] ELSE o[i - Len(v)]
    BY <2>2, ConcatProperties
  <2>4. ASSUME NEW i \in 1 .. Len(u) PROVE u[i] = (v \o o)[i]
    <3>1. i \in 1 .. Len(v) + Len(o) /\ i \in Int
      BY <1>1, <2>1, <2>2
    <3>2. u[i] = t[e + i - 1]
      BY <1>1, <2>1
    <3> PICK j \in Int : j = e + i - 1
      BY <1>1, <3>1
    <3>3. CASE i <= Len(v)
      <4>1. (v \o o)[i] = a[j] /\ j \in 1 .. Len(a) /\ j \in 1 .. Len(a) + Len(o)
        BY <1>1, <2>2, <2>3, <3>1, <3>3
      <4>2. t[j] = a[j]
        BY SMTT(20), <1>1, <1>2, <4>1
      <4> QED
        BY <3>2, <4>1, <4>2
    <3>4. CASE i > Len(v)
      <4>1. (v \o o)[i] = o[i - Len(v)]
        BY SMTT(20), <1>1, <2>2, <2>3, <3>1, <3>4
      <4>2. j \in 1 .. Len(a) + Len(o) /\ j > Len(a) /\ j - Len(a) = i - Len(v)
        BY <1>1, <2>2, <3>1, <3>4
      <4>3. t[j] = o[j - Len(a)]
        <5>1. t[j] = IF j <= Len(a) THEN a[j] ELSE o[j - Len(a)]
          BY <1>2, <4>2, Zenon
        <5>2. ~(j <= Len(a))
          BY <1>1, <4>2
        <5> QED
          BY <5>1, <5>2, Zenon
      <4> QED
        BY <3>2, <4>1, <4>2, <4>3
    <3> QED
      BY <1>1, <2>2, <3>1, <3>3, <3>4
  <2>5. Len(u) = Len(v \o o)
    BY <1>1, <2>1, <2>2, <2>3
  <2>6. u = v \o o
    BY ONLY <2>1, <2>3, <2>4, <2>5, SeqEqual
  <2> QED
    BY <2>6 DEF u, v
<1> QED
  BY <1>4, <1>6, <1>9, <1>10 DEF t

LEMMA AliasOfType ==
    ASSUME aliases \in [AliasNames -> AliasTexts \cup {NotAlias}],
           NEW w, AliasOf(w) # NotAlias
    PROVE  w \in AliasNames /\ AliasOf(w) \in Seq(STRING)
BY AliasAssumption DEF AliasOf

LEMMA WordsOfRec ==
    ASSUME NEW l, NEW f, NEW N \in Nat, N = Cardinality(AliasNames),
           f = [k \in 0 .. N |->
                    IF k = 0 THEN FirstWord(l)
                    ELSE IF AliasOf(f[k - 1]) = NotAlias THEN f[k - 1]
                    ELSE FirstWord(AliasOf(f[k - 1]))]
    PROVE  \A k \in 0 .. N :
             WordsOf(l)[k] =
                    IF k = 0 THEN FirstWord(l)
                    ELSE IF AliasOf(WordsOf(l)[k - 1]) = NotAlias THEN WordsOf(l)[k - 1]
                    ELSE FirstWord(AliasOf(WordsOf(l)[k - 1]))
<1> DEFINE
    w[k \in 0 .. Cardinality(AliasNames)] ==
                    IF k = 0 THEN FirstWord(l)
                    ELSE IF AliasOf(w[k - 1]) = NotAlias THEN w[k - 1]
                    ELSE FirstWord(AliasOf(w[k - 1]))
<1>1. w = WordsOf(l)
  BY DEF WordsOf
<1>2. w = [k \in 0 .. Cardinality(AliasNames) |->
                    IF k = 0 THEN FirstWord(l)
                    ELSE IF AliasOf(w[k - 1]) = NotAlias THEN w[k - 1]
                    ELSE FirstWord(AliasOf(w[k - 1]))]
  <2>1. \E g : g = [k \in 0 .. Cardinality(AliasNames) |->
                    IF k = 0 THEN FirstWord(l)
                    ELSE IF AliasOf(g[k - 1]) = NotAlias THEN g[k - 1]
                    ELSE FirstWord(AliasOf(g[k - 1]))]
    OBVIOUS
  <2> QED
    BY <2>1
<1> HIDE DEF w
<1> QED
  BY <1>1, <1>2
(* What the first n replacements of a line have left: w is the chain of    *)
(* first words, and mid[k] what stands between the current first word and  *)
(* the rest that came with the k-th.                                       *)
IsChain(n, w) ==
    \A k \in 0 .. n - 1 : AliasOf(w[k]) # NotAlias /\ w[k + 1] = FirstWord(AliasOf(w[k]))

Chain(n, w, mid) ==
    /\ w[0] = FirstWord(line) /\ w[n] = FirstWord(text)
    /\ IsChain(n, w)
    /\ \A k \in 0 .. n : mid[k] \in Seq(STRING)
    /\ \A k \in 0 .. n - 1 : mid[k] = mid[k + 1] \o Others(AliasOf(w[k]))
    /\ mid[n] = <<>>
    /\ Others(text) = mid[0] \o Others(line)

(* A chain that ends in a word that is no alias has no word twice.         *)
LEMMA ChainIsShort ==
    ASSUME aliases \in [AliasNames -> AliasTexts \cup {NotAlias}],
           NEW n \in Nat, NEW w, IsChain(n, w), AliasOf(w[n]) = NotAlias
    PROVE  n <= Cardinality(AliasNames) /\ Cardinality(AliasNames) \in Nat
<1>1. IsFiniteSet(AliasNames)
  BY AliasAssumption
<1>2. Cardinality(AliasNames) \in Nat
  BY <1>1, FS_CardinalityType
<1> SUFFICES ASSUME ~(n <= Cardinality(AliasNames)) PROVE FALSE
  BY <1>2
<1> DEFINE f == [k \in 0 .. n - 1 |-> w[k]]
<1>3. \A k \in 0 .. n - 1 : AliasOf(w[k]) # NotAlias /\ w[k + 1] = FirstWord(AliasOf(w[k]))
  BY DEF IsChain
<1>4. f \in [0 .. n - 1 -> AliasNames]
  BY <1>3, AliasOfType
<1>5. IsFiniteSet(0 .. n - 1) /\ Cardinality(0 .. n - 1) = n
  <2>1. 0 \in Int /\ n - 1 \in Int
    OBVIOUS
  <2>2. /\ IsFiniteSet(0 .. n - 1)
        /\ Cardinality(0 .. n - 1) = IF 0 > n - 1 THEN 0 ELSE (n - 1) - 0 + 1
    BY ONLY <2>1, FS_Interval
  <2> QED
    BY <2>2
<1>6. PICK x, y \in 0 .. n - 1 : x # y /\ f[x] = f[y]
  <2>1. Cardinality(AliasNames) < Cardinality(0 .. n - 1)
    BY <1>2, <1>5
  <2> HIDE DEF f
  <2> QED
    BY ONLY <1>1, <1>4, <1>5, <2>1, FS_PigeonHole
<1>7. PICK i, j \in 0 .. n - 1 : i < j /\ w[i] = w[j]
  <2>1. w[x] = w[y] /\ x \in Int /\ y \in Int
    BY <1>6
  <2>2. x < y \/ y < x
    BY <1>6
  <2> QED
    BY <2>1, <2>2
<1> DEFINE T == {k \in Nat : j + k <= n => w[i + k] = w[j + k]}
<1>8. 0 \in T
  BY <1>7
<1>9. ASSUME NEW k \in Nat, k \in T PROVE k + 1 \in T
  <2> SUFFICES ASSUME j + (k + 1) <= n PROVE w[i + (k + 1)] = w[j + (k + 1)]
    OBVIOUS
  <2>1. w[i + k] = w[j + k]
    BY <1>9
  <2>2. i + k \in 0 .. n - 1 /\ j + k \in 0 .. n - 1
    BY <1>7
  <2>3. /\ w[(i + k) + 1] = FirstWord(AliasOf(w[i + k]))
        /\ w[(j + k) + 1] = FirstWord(AliasOf(w[j + k]))
    BY <1>3, <2>2
  <2>4. (i + k) + 1 = i + (k + 1) /\ (j + k) + 1 = j + (k + 1)
    OBVIOUS
  <2> QED
    BY <2>1, <2>3, <2>4
<1>10. \A k \in Nat : k \in T
  <2> HIDE DEF T
  <2> QED
    BY <1>8, <1>9, Induction
<1>11. n - j \in Nat /\ j + (n - j) = n /\ i + (n - j) \in 0 .. n - 1
  BY <1>7
<1>12. w[i + (n - j)] = w[n]
  BY <1>10, <1>11
<1> QED
  BY <1>3, <1>11, <1>12

LEMMA Assoc ==
    ASSUME NEW x \in Seq(STRING), NEW y \in Seq(STRING), NEW z \in Seq(STRING)
    PROVE  (x \o y) \o z = x \o (y \o z)
BY ConcatAssociative

(* WordsOf goes through the chain and stays at its end.                    *)
LEMMA WordsAreTheChain ==
    ASSUME NEW n \in Nat, NEW w, IsChain(n, w), AliasOf(w[n]) = NotAlias,
           w[0] = FirstWord(line),
           NEW N \in Nat, N = Cardinality(AliasNames), n <= N
    PROVE  \A k \in 0 .. N : WordsOf(line)[k] = IF k <= n THEN w[k] ELSE w[n]
<1>1. \A k \in 0 .. n - 1 : AliasOf(w[k]) # NotAlias /\ w[k + 1] = FirstWord(AliasOf(w[k]))
  BY DEF IsChain
<1> DEFINE f == [k \in 0 .. N |-> IF k <= n THEN w[k] ELSE w[n]]
           Step(v, k) == IF k = 0 THEN FirstWord(line)
                         ELSE IF AliasOf(v[k - 1]) = NotAlias THEN v[k - 1]
                         ELSE FirstWord(AliasOf(v[k - 1]))
<1>2. ASSUME NEW k \in 0 .. N PROVE f[k] = Step(f, k)
  <2>1. CASE k = 0
    BY <2>1
  <2>2. CASE k > 0 /\ k <= n
    <3>1. k - 1 \in 0 .. n - 1 /\ k - 1 \in 0 .. N /\ (k - 1) + 1 = k /\ k - 1 <= n
      BY <2>2
    <3>2. f[k - 1] = w[k - 1] /\ f[k] = w[k]
      BY <2>2, <3>1
    <3>3. AliasOf(w[k - 1]) # NotAlias /\ w[k] = FirstWord(AliasOf(w[k - 1]))
      BY <1>1, <3>1
    <3> HIDE DEF f
    <3> QED
      BY <2>2, <3>2, <3>3
  <2>3. CASE k > n
    <3>1. k - 1 \in 0 .. N /\ k # 0 /\ (k - 1 <= n => k - 1 = n)
      BY <2>3
    <3>2. f[k - 1] = w[n] /\ f[k] = w[n]
      BY <2>3, <3>1
    <3> HIDE DEF f
    <3> QED
      BY <3>1, <3>2
  <2> QED
    BY <2>1, <2>2, <2>3
<1>3. f = [k \in 0 .. N |-> Step(f, k)]
  <2>1. f = [k \in 0 .. N |-> f[k]]
    OBVIOUS
  <2> HIDE DEF f
  <2> QED
    BY <1>2, <2>1
<1>4. \A k \in 0 .. N : WordsOf(line)[k] = Step(WordsOf(line), k)
  <2>1. f = [k \in 0 .. N |->
               IF k = 0 THEN FirstWord(line)
               ELSE IF AliasOf(f[k - 1]) = NotAlias THEN f[k - 1]
               ELSE FirstWord(AliasOf(f[k - 1]))]
    BY <1>3
  <2> HIDE DEF f
  <2>2. \A k \in 0 .. N :
             WordsOf(line)[k] =
                    IF k = 0 THEN FirstWord(line)
                    ELSE IF AliasOf(WordsOf(line)[k - 1]) = NotAlias THEN WordsOf(line)[k - 1]
                    ELSE FirstWord(AliasOf(WordsOf(line)[k - 1]))
    BY ONLY N \in Nat, N = Cardinality(AliasNames), <2>1, WordsOfRec
  <2> QED
    BY <2>2
<1> DEFINE T == {k \in Nat : k <= N => WordsOf(line)[k] = f[k]}
<1>5. 0 \in T
  BY <1>4
<1>6. ASSUME NEW k \in Nat, k \in T PROVE k + 1 \in T
  <2> SUFFICES ASSUME k + 1 <= N PROVE WordsOf(line)[k + 1] = f[k + 1]
    BY DEF T
  <2>1. k + 1 \in 0 .. N /\ (k + 1) - 1 = k /\ k + 1 # 0 /\ k <= N
    OBVIOUS
  <2>2. WordsOf(line)[k] = f[k]
    BY <1>6, <2>1
  <2>3. /\ WordsOf(line)[k + 1] = Step(WordsOf(line), k + 1)
        /\ f[k + 1] = Step(f, k + 1)
    BY <1>2, <1>4, <2>1
  <2> HIDE DEF f
  <2> QED
    BY <2>1, <2>2, <2>3
<1>7. \A k \in Nat : k \in T
  <2> HIDE DEF T
  <2> QED
    BY <1>5, <1>6, Induction
<1>8. ASSUME NEW k \in 0 .. N PROVE WordsOf(line)[k] = f[k]
  <2>1. k \in Nat /\ k <= N
    OBVIOUS
  <2>2. k \in T
    BY <1>7, <2>1
  <2> HIDE DEF f
  <2> QED
    BY <2>1, <2>2
<1> QED
  BY <1>8

(* What the first word of a chain means: it is replaced by the last one,   *)
(* with the rests of the texts of all words behind it.                     *)
LEMMA ChainSubstitutes ==
    ASSUME aliases \in [AliasNames -> AliasTexts \cup {NotAlias}], line \in Seq(STRING),
           text \in Seq(STRING),
           NEW n \in Nat, NEW w, NEW mid, Chain(n, w, mid), AliasOf(w[n]) = NotAlias
    PROVE  ~Endless(line) /\ text = Substituted(line)
<1> DEFINE N == Cardinality(AliasNames)
           W == WordsOf(line)
<1>1. /\ w[0] = FirstWord(line) /\ w[n] = FirstWord(text)
      /\ \A k \in 0 .. n : mid[k] \in Seq(STRING)
      /\ \A k \in 0 .. n - 1 : mid[k] = mid[k + 1] \o Others(AliasOf(w[k]))
      /\ mid[n] = <<>>
      /\ Others(text) = mid[0] \o Others(line)
      /\ \A k \in 0 .. n - 1 : AliasOf(w[k]) # NotAlias
      /\ IsChain(n, w)
  BY DEF Chain, IsChain
<1>2. n <= N /\ N \in Nat
  BY <1>1, ChainIsShort
<1>3. \A k \in 0 .. N : W[k] = IF k <= n THEN w[k] ELSE w[n]
  <2> HIDE DEF N
  <2>1. N = Cardinality(AliasNames)
    BY DEF N
  <2> QED
    BY <1>1, <1>2, <2>1, WordsAreTheChain
<1>4. W[N] = w[n] /\ W[n] = w[n] /\ \A k \in 0 .. n - 1 : W[k] = w[k]
  <2> HIDE DEF N, W
  <2> QED
    BY <1>2, <1>3
<1>5. ~Endless(line)
  BY <1>4 DEF Endless
<1>6. w[n] \in Seq(STRING)
  BY <1>1, SplitFacts
<1>7. \A k \in 0 .. n - 1 : Others(AliasOf(w[k])) \in Seq(STRING)
  BY <1>1, AliasOfType, SplitFacts
<1> DEFINE Step(f, k) == IF AliasOf(W[k]) = NotAlias THEN W[k]
                         ELSE f[k + 1] \o Others(AliasOf(W[k]))
           g == [k \in 0 .. N |-> IF k <= n THEN w[n] \o mid[k] ELSE w[n]]
<1>8. ASSUME NEW k \in 0 .. N PROVE g[k] = Step(g, k)
  <2>1. CASE k < n
    <3>1. k \in 0 .. n - 1 /\ k + 1 \in 0 .. n /\ k \in 0 .. n /\ k + 1 \in 0 .. N /\ k <= n /\ k + 1 <= n
      BY <1>2, <2>1
    <3>2. g[k] = w[n] \o mid[k] /\ g[k + 1] = w[n] \o mid[k + 1]
      BY <3>1
    <3>3. AliasOf(W[k]) # NotAlias /\ W[k] = w[k]
      BY <1>1, <1>4, <3>1
    <3>4. mid[k] = mid[k + 1] \o Others(AliasOf(w[k])) /\ mid[k + 1] \in Seq(STRING)
      BY <1>1, <3>1
    <3>5. Others(AliasOf(w[k])) \in Seq(STRING)
      BY <1>7, <3>1
    <3> HIDE DEF g, W
    <3>6. w[n] \o mid[k] = (w[n] \o mid[k + 1]) \o Others(AliasOf(w[k]))
      <4>1. (w[n] \o mid[k + 1]) \o Others(AliasOf(w[k]))
              = w[n] \o (mid[k + 1] \o Others(AliasOf(w[k])))
        BY ONLY <1>6, <3>4, <3>5, Assoc
      <4> QED
        BY <3>4, <4>1
    <3> QED
      BY <3>2, <3>3, <3>6
  <2>2. CASE k >= n
    <3>1. g[k] = w[n]
      <4>1. k = n => w[n] \o mid[k] = w[n]
        BY <1>1, <1>6, ConcatEmptySeq
      <4>2. k <= n => k = n
        BY <2>2
      <4> QED
        BY <4>1, <4>2
    <3>2. W[k] = w[n]
      <4> HIDE DEF W
      <4> QED
        BY <1>3, <2>2
    <3> HIDE DEF g, W
    <3> QED
      BY <3>1, <3>2
  <2> QED
    BY <1>2, <2>1, <2>2
<1> DEFINE means[k \in 0 .. Cardinality(AliasNames)] ==
               IF AliasOf(W[k]) = NotAlias THEN W[k]
               ELSE means[k + 1] \o Others(AliasOf(W[k]))
<1>9. Substituted(line) = means[0] \o Others(line)
  BY DEF Substituted
<1>10. \A k \in 0 .. N : means[k] = Step(means, k)
  <2>1. g = [k \in 0 .. N |-> Step(g, k)]
    <3>1. g = [k \in 0 .. N |-> g[k]]
      OBVIOUS
    <3> HIDE DEF g
    <3> QED
      BY <1>8, <3>1
  <2>2. \E h : h = [k \in 0 .. Cardinality(AliasNames) |->
               IF AliasOf(W[k]) = NotAlias THEN W[k]
               ELSE h[k + 1] \o Others(AliasOf(W[k]))]
    <3> HIDE DEF g, W
    <3> QED
      BY <2>1
  <2>3. means = [k \in 0 .. Cardinality(AliasNames) |->
               IF AliasOf(W[k]) = NotAlias THEN W[k]
               ELSE means[k + 1] \o Others(AliasOf(W[k]))]
    <3> HIDE DEF W
    <3> QED
      BY <2>2 DEF means
  <2> HIDE DEF means, W
  <2> QED
    BY <2>3
<1> HIDE DEF means
<1> DEFINE T == {k \in Nat : k <= n => means[n - k] = g[n - k]}
<1>11. 0 \in T
  <2>1. n \in 0 .. N /\ n - 0 = n /\ AliasOf(W[n]) = NotAlias
    BY <1>2, <1>4
  <2>2. means[n] = Step(means, n) /\ g[n] = Step(g, n)
    BY <1>8, <1>10, <2>1
  <2> HIDE DEF g, W
  <2> QED
    BY <2>1, <2>2
<1>12. ASSUME NEW k \in Nat, k \in T PROVE k + 1 \in T
  <2> SUFFICES ASSUME k + 1 <= n PROVE means[n - (k + 1)] = g[n - (k + 1)]
    BY DEF T
  <2>1. n - (k + 1) \in 0 .. N /\ (n - (k + 1)) + 1 = n - k
    BY <1>2
  <2>2. means[n - k] = g[n - k]
    BY <1>12
  <2>3. /\ means[n - (k + 1)] = Step(means, n - (k + 1))
        /\ g[n - (k + 1)] = Step(g, n - (k + 1))
    BY <1>8, <1>10, <2>1
  <2> HIDE DEF g, W
  <2> QED
    BY <2>1, <2>2, <2>3
<1>13. \A k \in Nat : k \in T
  <2> HIDE DEF T
  <2> QED
    BY <1>11, <1>12, Induction
<1>14. means[0] = w[n] \o mid[0]
  <2>1. n - n = 0 /\ 0 \in 0 .. N /\ 0 <= n
    BY <1>2
  <2>2. means[0] = g[0]
    <3>1. n \in T
      <4> HIDE DEF T
      <4> QED
        BY <1>13
    <3> HIDE DEF g
    <3>2. means[n - n] = g[n - n]
      BY <3>1
    <3> QED
      BY <2>1, <3>2
  <2> QED
    BY <2>1, <2>2
<1>15. text = (w[n] \o mid[0]) \o Others(line)
  <2>1. text = w[n] \o (mid[0] \o Others(line))
    BY <1>1, SplitFacts
  <2>2. mid[0] \in Seq(STRING) /\ Others(line) \in Seq(STRING)
    BY <1>1, SplitFacts
  <2> QED
    BY <1>6, <2>1, <2>2, Assoc
<1> QED
  BY <1>5, <1>9, <1>14, <1>15

TextsAreText ==
    /\ typed \in Seq(STRING) /\ got \in Seq(STRING)
    /\ line \in Seq(STRING) /\ text \in Seq(STRING)

(* While aliases are replaced, and when the parser has the text, it is     *)
(* where a chain of replacements of the line has come to.                  *)
AliasInv ==
    /\ TextsAreText
    /\ stage \in {"alias", "command"} => \E n \in Nat : \E w, mid : Chain(n, w, mid)
    /\ stage = "command" => IsExpanded(text)

LEMMA AliasInvMeans ==
    ASSUME TypeInv, AliasInv
    PROVE  ParserGetsTheLine
<1> SUFFICES ASSUME stage = "command" PROVE ~Endless(line) /\ text = Substituted(line)
  BY DEF ParserGetsTheLine
<1>1. PICK n \in Nat : \E w, mid : Chain(n, w, mid)
  BY DEF AliasInv
<1>2. PICK w, mid : Chain(n, w, mid)
  BY <1>1
<1>3. AliasOf(w[n]) = NotAlias
  BY <1>2 DEF AliasInv, IsExpanded, Chain
<1>4. aliases \in [AliasNames -> AliasTexts \cup {NotAlias}]
  BY DEF TypeInv, TypeOK
<1>5. line \in Seq(STRING) /\ text \in Seq(STRING)
  BY DEF AliasInv, TextsAreText
<1> QED
  BY <1>2, <1>3, <1>4, <1>5, ChainSubstitutes

LEMMA GetCharText ==
    ASSUME TypeInv, TextsAreText, GetChar
    PROVE  TextsAreText'
<1>1. read < Len(typed) /\ UNCHANGED <<typed, line, text>>
      /\ (got' = got \/ got' = Append(got, typed[read + 1]))
  BY DEF GetChar
<1>2. read \in Nat /\ Len(typed) \in Nat
  BY LenProperties DEF TypeInv, TypeOK, TextsAreText
<1>3. typed[read + 1] \in STRING
  <2>1. read + 1 \in 1 .. Len(typed)
    BY <1>1, <1>2
  <2> QED
    BY <2>1, ElementOfSeq DEF TextsAreText
<1> QED
  BY ZenonT(30), <1>1, <1>3, AppendProperties DEF TextsAreText

LEMMA EndOfLineText ==
    ASSUME TextsAreText, EndOfLine
    PROVE  TextsAreText'
<1>1. <<>> \in Seq(STRING)
  BY EmptySeq
<1>2. ASSUME NEW t \in Seq(STRING), Received(t) PROVE TextsAreText'
  BY <1>1, <1>2 DEF Received, EndOfLine, TextsAreText
<1>3. ASSUME NEW junk \in Heap PROVE got \o junk \in Seq(STRING)
  BY LinesAssumption, ConcatProperties DEF TextsAreText
<1> QED
  BY <1>2, <1>3 DEF EndOfLine, TextsAreText

LEMMA TextStep ==
    ASSUME TypeInv, TextsAreText, [Next]_vars
    PROVE  TextsAreText'
<1> USE LinesAssumption
<1>0. <<>> \in Seq(STRING)
  BY EmptySeq
<1>1. CASE UNCHANGED lineVars
  BY <1>1 DEF lineVars, TextsAreText
<1>2. CASE AskForLine
  BY <1>2 DEF AskForLine, BeginRead, TextsAreText
<1>3. CASE GetChar
  BY <1>3, GetCharText
<1>4. CASE EndOfLine
  BY <1>4, EndOfLineText
<1>5. CASE EndOfInput \/ Command
  BY <1>0, <1>5 DEF EndOfInput, Command, Alias, Unalias, OtherCommand, Runs, NoLine, TextsAreText
<1>6. CASE History
  BY <1>0, <1>6 DEF History, NoLine, TextsAreText
<1>7. CASE ExpandAlias
  <2>1. text' = text \/ (~IsExpanded(text) /\ text' = Replaced(text))
    BY <1>7 DEF ExpandAlias
  <2>2. ASSUME ~IsExpanded(text) PROVE Replaced(text) \in Seq(STRING)
    <3>1. aliases \in [AliasNames -> AliasTexts \cup {NotAlias}]
      BY DEF TypeInv, TypeOK
    <3>2. AliasOf(FirstWord(text)) \in Seq(STRING)
      BY <2>2, <3>1, AliasOfType DEF IsExpanded
    <3>3. Others(text) \in Seq(STRING)
      BY SplitFacts DEF TextsAreText
    <3> QED
      BY <3>2, <3>3, ConcatProperties DEF Replaced
  <2> QED
    BY <1>7, <2>1, <2>2 DEF ExpandAlias, TextsAreText
<1> QED
  BY <1>1, <1>2, <1>3, <1>4, <1>5, <1>6, <1>7
     DEF Next, vars, NewPrompt, ExpandPrompt, LineStep, ReadLine

(* One replacement makes the chain one word longer.                        *)
LEMMA ReplaceChain ==
    ASSUME TypeInv, TextsAreText, ExpandAlias, text' = Replaced(text), ~IsExpanded(text),
           NEW n \in Nat, NEW w, NEW mid, Chain(n, w, mid)
    PROVE  \E v, m : Chain(n + 1, v, m)'
<1>1. /\ w[0] = FirstWord(line) /\ w[n] = FirstWord(text)
      /\ \A k \in 0 .. n : mid[k] \in Seq(STRING)
      /\ \A k \in 0 .. n - 1 : mid[k] = mid[k + 1] \o Others(AliasOf(w[k]))
      /\ mid[n] = <<>>
      /\ Others(text) = mid[0] \o Others(line)
      /\ \A k \in 0 .. n - 1 : AliasOf(w[k]) # NotAlias /\ w[k + 1] = FirstWord(AliasOf(w[k]))
  BY DEF Chain, IsChain
<1>2. aliases \in [AliasNames -> AliasTexts \cup {NotAlias}]
  BY DEF TypeInv, TypeOK
<1> DEFINE a == AliasOf(w[n])
           o == Others(a)
           v == [k \in 0 .. n + 1 |-> IF k <= n THEN w[k] ELSE FirstWord(a)]
           m == [k \in 0 .. n + 1 |-> IF k <= n THEN o \o mid[k] ELSE <<>>]
<1>3. a # NotAlias /\ a \in Seq(STRING)
  BY <1>1, <1>2, AliasOfType DEF IsExpanded
<1>4. o \in Seq(STRING) /\ FirstWord(a) \in Seq(STRING)
  BY <1>3, SplitFacts
<1>5. line \in Seq(STRING) /\ text \in Seq(STRING)
  BY DEF TextsAreText
<1>6. Others(text) \in Seq(STRING) /\ (Others(text) = <<>> \/ Others(text)[1] \in Blanks)
      /\ Others(line) \in Seq(STRING)
  BY <1>5, SplitFacts
<1>7. text' = a \o Others(text)
  BY <1>1 DEF Replaced
<1>8. UNCHANGED <<line, aliases>>
  BY DEF ExpandAlias
<1>9. \A x : AliasOf(x)' = AliasOf(x)
  BY <1>8 DEF AliasOf
<1> HIDE DEF a
<1>10. FirstWord(text)' = FirstWord(a) /\ Others(text)' = o \o Others(text)
  <2>1. FirstWord(a \o Others(text)) = FirstWord(a) /\ Others(a \o Others(text)) = o \o Others(text)
    BY <1>3, <1>6, SplitOfConcat
  <2>2. FirstWord(text)' = FirstWord(text') /\ Others(text)' = Others(text')
    BY DEF FirstWord, Others, WordEnd
  <2> QED
    BY <1>7, <2>1, <2>2
<1>11. FirstWord(line)' = FirstWord(line) /\ Others(line)' = Others(line)
  BY <1>8 DEF FirstWord, Others, WordEnd
<1>12. ASSUME NEW k \in 0 .. n
       PROVE  /\ v[k] = w[k] /\ m[k] = o \o mid[k]
              /\ v[n + 1] = FirstWord(a) /\ m[n + 1] = <<>>
  BY DEF v, m
<1> HIDE DEF v, m
<1>13. 0 \in 0 .. n /\ n \in 0 .. n
  OBVIOUS
<1>14. ASSUME NEW k \in 0 .. n
       PROVE  AliasOf(v[k]) # NotAlias /\ v[k + 1] = FirstWord(AliasOf(v[k]))
  <2>1. CASE k = n
    BY <1>3, <1>12, <2>1 DEF a
  <2>2. CASE k # n
    <3>1. k \in 0 .. n - 1 /\ k + 1 \in 0 .. n
      BY <2>2
    <3>2. v[k] = w[k] /\ v[k + 1] = w[k + 1]
      BY <1>12, <3>1
    <3> QED
      BY <1>1, <3>1, <3>2
  <2> QED
    BY <2>1, <2>2
<1>15. ASSUME NEW k \in 0 .. n
       PROVE  m[k] = m[k + 1] \o Others(AliasOf(v[k])) /\ m[k] \in Seq(STRING)
  <2>0. mid[k] \in Seq(STRING)
    BY <1>1
  <2>3. m[k] \in Seq(STRING)
    BY <1>4, <1>12, <2>0, ConcatProperties
  <2>1. CASE k = n
    <3>1. m[k] = o \o <<>> /\ m[k + 1] = <<>> /\ Others(AliasOf(v[k])) = o
      BY <1>1, <1>12, <2>1 DEF a
    <3>2. o \o <<>> = <<>> \o o
      BY <1>4, ConcatEmptySeq
    <3> QED
      BY <2>3, <3>1, <3>2
  <2>2. CASE k # n
    <3>1. k \in 0 .. n - 1 /\ k + 1 \in 0 .. n
      BY <2>2
    <3>2. v[k] = w[k] /\ m[k + 1] = o \o mid[k + 1]
      BY <1>12, <3>1
    <3>3. mid[k] = mid[k + 1] \o Others(AliasOf(w[k])) /\ mid[k + 1] \in Seq(STRING)
      BY <1>1, <3>1
    <3>4. Others(AliasOf(w[k])) \in Seq(STRING)
      BY <1>1, <1>2, <3>1, AliasOfType, SplitFacts
    <3>5. (o \o mid[k + 1]) \o Others(AliasOf(w[k]))
            = o \o (mid[k + 1] \o Others(AliasOf(w[k])))
      BY <1>4, <3>3, <3>4, Assoc
    <3> QED
      BY <1>12, <2>3, <3>2, <3>3, <3>5
  <2> QED
    BY <2>1, <2>2
<1>16. Others(text)' = m[0] \o Others(line)
  <2>1. mid[0] \in Seq(STRING)
    BY <1>1, <1>13
  <2>2. (o \o mid[0]) \o Others(line) = o \o (mid[0] \o Others(line))
    BY <1>4, <1>6, <2>1, Assoc
  <2> QED
    BY <1>1, <1>10, <1>12, <1>13, <2>2
<1>17. \A k \in 0 .. n + 1 : m[k] \in Seq(STRING)
  <2>1. <<>> \in Seq(STRING)
    BY EmptySeq
  <2>2. m[n + 1] \in Seq(STRING)
    BY <1>12, <1>13, <2>1
  <2> SUFFICES ASSUME NEW k \in 0 .. n + 1 PROVE m[k] \in Seq(STRING)
    OBVIOUS
  <2>3. k \in 0 .. n \/ k = n + 1
    OBVIOUS
  <2> QED
    BY <1>15, <2>2, <2>3
<1>18. (n + 1) - 1 = n
  OBVIOUS
<1>19. v[0] = FirstWord(line) /\ v[n + 1] = FirstWord(a) /\ m[n + 1] = <<>>
  BY <1>1, <1>12, <1>13
<1> PICK x, y : x = v /\ y = m
  OBVIOUS
<1>20. Chain(n + 1, x, y)'
  <2>1. (\A k \in 0 .. (n + 1) - 1 :
            /\ AliasOf(x[k]) # NotAlias /\ x[k + 1] = FirstWord(AliasOf(x[k])))'
    <3>1. ASSUME NEW k \in 0 .. n
          PROVE  AliasOf(x[k])' # NotAlias /\ x[k + 1] = FirstWord(AliasOf(x[k]))'
      <4>1. AliasOf(x[k])' = AliasOf(x[k])
        BY <1>9
      <4> QED
        BY <1>14, <4>1 DEF FirstWord, WordEnd
    <3> QED
      BY <1>18, <3>1
  <2>2. (\A k \in 0 .. (n + 1) - 1 : y[k] = y[k + 1] \o Others(AliasOf(x[k])))'
    <3>1. ASSUME NEW k \in 0 .. n PROVE y[k] = y[k + 1] \o Others(AliasOf(x[k]))'
      <4>1. AliasOf(x[k])' = AliasOf(x[k])
        BY <1>9
      <4> QED
        BY <1>15, <4>1 DEF Others, WordEnd
    <3> QED
      BY <1>18, <3>1
  <2> QED
    BY <1>10, <1>11, <1>16, <1>17, <1>19, <2>1, <2>2 DEF Chain, IsChain
<1> QED
  BY <1>20

(* A line begins a chain: its first word, and nothing between it and the   *)
(* rest of the line.                                                       *)
LEMMA HistoryChain ==
    ASSUME TextsAreText', stage' = "alias", History
    PROVE  (\E w, mid : Chain(0, w, mid))'
<1> DEFINE w == [k \in {0} |-> FirstWord(line')]
           m == [k \in {0} |-> <<>>]
<1>1. text' = line'
  BY DEF History
<1>2. FirstWord(text)' = FirstWord(line') /\ Others(text)' = Others(line')
      /\ FirstWord(line)' = FirstWord(line') /\ Others(line)' = Others(line')
  BY <1>1 DEF FirstWord, Others, WordEnd
<1> PICK x, y : x = w /\ y = m
  OBVIOUS
<1>3. x[0] = FirstWord(line') /\ y[0] = <<>>
  OBVIOUS
<1> HIDE DEF w, m
<1>4. line' \in Seq(STRING)
  BY DEF TextsAreText
<1>5. Others(line') \in Seq(STRING)
  BY <1>4, SplitFacts
<1>6. Others(line') = <<>> \o Others(line')
  BY <1>5, ConcatEmptySeq
<1>7. <<>> \in Seq(STRING)
  BY EmptySeq
<1>8. ASSUME NEW k \in 0 .. 0 - 1 PROVE FALSE
  OBVIOUS
<1>9. ASSUME NEW k \in 0 .. 0 PROVE y[k] \in Seq(STRING)
  <2>1. k = 0
    OBVIOUS
  <2> QED
    BY <1>3, <1>7, <2>1
<1>10. Chain(0, x, y)'
  BY <1>2, <1>3, <1>6, <1>8, <1>9 DEF Chain, IsChain
<1> QED
  BY <1>10

(* Nothing but the line, its text and the aliases matters to it.           *)
LEMMA ChainStays ==
    ASSUME UNCHANGED <<line, text, aliases>>, NEW n \in Nat, NEW w, NEW mid, Chain(n, w, mid)
    PROVE  Chain(n, w, mid)'
<1>1. /\ w[0] = FirstWord(line) /\ w[n] = FirstWord(text)
      /\ \A k \in 0 .. n : mid[k] \in Seq(STRING)
      /\ \A k \in 0 .. n - 1 : mid[k] = mid[k + 1] \o Others(AliasOf(w[k]))
      /\ mid[n] = <<>>
      /\ Others(text) = mid[0] \o Others(line)
      /\ \A k \in 0 .. n - 1 : AliasOf(w[k]) # NotAlias /\ w[k + 1] = FirstWord(AliasOf(w[k]))
  BY DEF Chain, IsChain
<1>2. FirstWord(text)' = FirstWord(text) /\ Others(text)' = Others(text)
      /\ FirstWord(line)' = FirstWord(line) /\ Others(line)' = Others(line)
  BY DEF FirstWord, Others, WordEnd
<1>3. \A x : AliasOf(x)' = AliasOf(x)
  BY DEF AliasOf
<1>4. ASSUME NEW k \in 0 .. n - 1
      PROVE  AliasOf(w[k])' # NotAlias /\ w[k + 1] = FirstWord(AliasOf(w[k]))'
  <2>1. AliasOf(w[k])' = AliasOf(w[k])
    BY <1>3
  <2> QED
    BY <1>1, <2>1 DEF FirstWord, WordEnd
<1>5. ASSUME NEW k \in 0 .. n - 1 PROVE mid[k] = mid[k + 1] \o Others(AliasOf(w[k]))'
  <2>1. AliasOf(w[k])' = AliasOf(w[k])
    BY <1>3
  <2> QED
    BY <1>1, <2>1 DEF Others, WordEnd
<1> QED
  BY <1>1, <1>2, <1>4, <1>5 DEF Chain, IsChain

LEMMA AliasStep ==
    ASSUME TypeInv, AliasInv, [Next]_vars
    PROVE  AliasInv'
<1>1. TextsAreText'
  BY TextStep DEF AliasInv
<1>2. CASE UNCHANGED <<stage, line, text, aliases>>
  <2>1. ASSUME NEW n \in Nat, NEW w, NEW mid, Chain(n, w, mid) PROVE Chain(n, w, mid)'
    BY <1>2, <2>1, ChainStays
  <2>2. IsExpanded(text) => IsExpanded(text)'
    BY <1>2 DEF IsExpanded, AliasOf, FirstWord, WordEnd
  <2> QED
    BY <1>1, <1>2, <2>1, <2>2 DEF AliasInv
<1>3. CASE stage' \notin {"alias", "command"}
  BY <1>1, <1>3 DEF AliasInv
<1>4. CASE History /\ stage' = "alias"
  <2>1. (\E w, mid : Chain(0, w, mid))'
    BY <1>1, <1>4, HistoryChain
  <2> QED
    BY <1>1, <1>4, <2>1 DEF AliasInv
<1>5. CASE ExpandAlias
  <2>1. PICK n \in Nat : \E w, mid : Chain(n, w, mid)
    BY <1>5 DEF ExpandAlias, AliasInv
  <2>2. PICK w, mid : Chain(n, w, mid)
    BY <2>1
  <2>3. UNCHANGED <<line, aliases>>
    BY <1>5 DEF ExpandAlias
  <2>4. CASE UNCHANGED text
    <3>1. Chain(n, w, mid)'
      BY <2>2, <2>3, <2>4, ChainStays
    <3>2. stage' = "command" => IsExpanded(text)'
      <4>1. stage' = "command" => IsExpanded(text)
        BY <1>5 DEF ExpandAlias
      <4> QED
        BY <2>3, <2>4, <4>1 DEF IsExpanded, AliasOf, FirstWord, WordEnd
    <3> QED
      BY <1>1, <3>1, <3>2 DEF AliasInv
  <2>5. CASE text' = Replaced(text) /\ ~IsExpanded(text) /\ UNCHANGED stage
    <3>1. \E v, m : Chain(n + 1, v, m)'
      BY <1>5, <2>2, <2>5, ReplaceChain DEF AliasInv
    <3>2. stage' # "command"
      BY <1>5, <2>5 DEF ExpandAlias
    <3> QED
      BY <1>1, <3>1, <3>2 DEF AliasInv
  <2> QED
    BY <1>5, <2>4, <2>5 DEF ExpandAlias
<1>6. CASE AskForLine \/ GetChar \/ EndOfLine \/ EndOfInput \/ Command
  <2>1. stage' \notin {"alias", "command"}
    BY <1>6 DEF AskForLine, BeginRead, GetChar, EndOfLine, Received, EndOfInput,
                Command, Alias, Unalias, OtherCommand, Runs
  <2> QED
    BY <1>3, <2>1
<1>7. CASE History
  BY <1>3, <1>4, <1>7 DEF History
<1> QED
  BY <1>2, <1>5, <1>6, <1>7
     DEF Next, vars, lineVars, NewPrompt, ExpandPrompt, LineStep, ReadLine

(* For every line, every recalled line and all aliases, those that go      *)
(* round in a circle among them: what the parser gets is the line with     *)
(* each word that stands first, and is an alias, replaced by its text      *)
(* (expand_alias, alias.c), and a line whose aliases go round in a circle  *)
(* never comes to it.                                                      *)
THEOREM AliasesAreSubstituted == Spec => []ParserGetsTheLine
<1>1. Init => TypeInv /\ AliasInv
  <2>1. Init => AliasInv
    BY EmptySeq DEF Init, LineInit, AliasInv, TextsAreText
  <2> QED
    BY <2>1, InitTypes
<1>2. (TypeInv /\ AliasInv) /\ [Next]_vars => (TypeInv /\ AliasInv)'
  BY TypeStep, AliasStep
<1>3. TypeInv /\ AliasInv => ParserGetsTheLine
  BY AliasInvMeans
<1> QED
  BY <1>1, <1>2, <1>3, PTL DEF Spec

-----------------------------------------------------------------------------
(* The prompt in the main loop *)

LEMMA MeansStays ==
    ASSUME MeansInv, UNCHANGED ex
    PROVE  MeansInv'
<1>1. ex' = ex
  OBVIOUS
<1>2. At(ex, ex.cur) => At(ex', ex'.cur)
  BY <1>1
<1>3. ex.do \in {"expand", "rest"} =>
        /\ At(ex, ex.cur)
        /\ ex.ps1 # <<>> => (ex.do = "rest" <=> ex.cur = Len(ex.ps1) + 1)
  BY DEF MeansInv
<1>4. ex'.do \in {"expand", "rest"} =>
        /\ At(ex', ex'.cur)
        /\ ex'.ps1 # <<>> => (ex'.do = "rest" <=> ex'.cur = Len(ex'.ps1) + 1)
  BY ONLY <1>1, <1>3
<1>5. PromptMeansPs1'
  <2>1. PromptMeansPs1
    BY DEF MeansInv
  <2> QED
    BY ONLY <1>1, <2>1 DEF PromptMeansPs1, Shown
<1> QED
  BY ONLY <1>4, <1>5 DEF MeansInv

LEMMA IdleMeans ==
    /\ ex = Idle => MeansInv
    /\ ex' = Idle => MeansInv'
<1>1. Idle.do = "idle"
  BY DEF Idle
<1>2. ex = Idle => MeansInv
  <2>1. SUFFICES ASSUME ex.do = "idle" PROVE MeansInv
    BY <1>1
  <2>2. PromptMeansPs1
    BY <2>1 DEF PromptMeansPs1
  <2> QED
    BY <2>1, <2>2 DEF MeansInv
<1>3. ex' = Idle => MeansInv'
  <2>1. SUFFICES ASSUME ex'.do = "idle" PROVE MeansInv'
    BY <1>1
  <2>2. PromptMeansPs1'
    BY <2>1 DEF PromptMeansPs1
  <2> QED
    BY <2>1, <2>2 DEF MeansInv
<1> QED
  BY <1>2, <1>3

LEMMA MeansStep ==
    ASSUME PromptInv, MeansInv, [Next]_vars
    PROVE  MeansInv'
<1>1. CASE UNCHANGED ex
  BY <1>1, MeansStays
<1>2. CASE ex' = Idle
  BY <1>2, IdleMeans
<1>3. CASE NewPrompt
  <2>1. PICK p \in Prompts : Begin(p)
    BY <1>3 DEF NewPrompt
  <2> QED
    BY <2>1, BeginMeans
<1>4. CASE ExpandPrompt
  <2>1. Expand
    BY <1>4 DEF ExpandPrompt
  <2> QED
    BY <2>1, ExpandMeans
<1> QED
  BY <1>1, <1>2, <1>3, <1>4 DEF Next, vars, AskForLine, LineStep

(* For every PS1, every date, clock, host and directory: the prompt that   *)
(* ps_expander (prompts.c) shows is the texts of the escapes of PS1 and    *)
(* its other characters behind each other, up to a NUL that \0 puts into   *)
(* it; a null pointer is followed only for a PS1 that means nothing or     *)
(* asks for a user without an entry, and memory runs out only for a format *)
(* with nothing to show.                                                   *)
THEOREM PromptIsPs1 == Spec => []PromptMeansPs1
<1>1. Init => PromptInv /\ MeansInv
  <2>1. Init => PromptInv
    BY InitTypes DEF TypeInv
  <2> QED
    BY <2>1, IdleMeans DEF Init
<1>2. (PromptInv /\ MeansInv) /\ [Next]_vars => (PromptInv /\ MeansInv)'
  BY PromptInvStep, MeansStep
<1>3. MeansInv => PromptMeansPs1
  BY DEF MeansInv
<1> QED
  BY <1>1, <1>2, <1>3, PTL DEF Spec
=============================================================================
