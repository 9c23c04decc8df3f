SPECIFICATION Spec
CONSTANTS
    Lines <- AllLines
    MoreLines <- NextLines
    MaxBuf = 7
    MaxArg = 6
    PtrBytes = 2
    MaxEachArg = 5
INVARIANT TypeOK
INVARIANT GoesWrongForAReason
INVARIANT ListFitsTheRunner
INVARIANT ParsesPlainLines
PROPERTY ScanMovesOn
CHECK_DEADLOCK FALSE
