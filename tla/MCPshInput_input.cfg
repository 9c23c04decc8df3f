SPECIFICATION FairSpec
CONSTANTS
    Prompts <- MCPrompts
    Stray <- MCStray
    IsRoot = FALSE
    Weekday <- MCWeekday
    Month <- MCMonth
    Day <- MCDay
    Clock <- MCClock
    Host <- MCHost
    Version <- MCVersion
    Wd <- MCWd
    HomeDir <- MCHome
    Blanked = {"%p"}
    Lines <- MCLines
    Recalled <- MCRecalled
    Heap <- MCHeap
    Chunk = 2
    Blanks <- MCBlanks
    AliasNames <- MCAliasNames
    AliasTexts <- MCTexts
    NotAlias = NotAlias
    Definitions <- MCDefinitions
    MaxText = 8
INVARIANT TypeOK
INVARIANT PromptMeansPs1
INVARIANT ReadFits
INVARIANT LineIsWhole
INVARIANT ParserGetsTheLine
PROPERTY AsksAgain
CHECK_DEADLOCK FALSE
