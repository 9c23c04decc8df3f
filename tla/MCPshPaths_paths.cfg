SPECIFICATION Spec
CONSTANTS
    r = r
    d1 = d1
    d2 = d2
    prog = prog
    NoDir = NoDir
    NotSet = NotSet
    Chars <- MCChars
    Dirs = {r, d1, d2}
    Root = r
    Names <- MCNames
    Commands = {prog}
    Trees <- MCTrees
    Environs <- MCEnvirons
    Home <- MCHome
    Path <- MCPath
    CdArgvs <- MCCdArgvs
    PinTexts <- MCPins
    Junk <- MCJunk
    MaxChanges = 2
INVARIANT TypeOK
INVARIANT PwdNamesCwd
INVARIANT RunsFirstInPath
PROPERTY CdIsLexical
PROPERTY CdGoesThere
CHECK_DEADLOCK FALSE
