SPECIFICATION Spec
CONSTANTS
    Lines <- WordLines
    MoreLines = {}
    MaxBuf = 6
    MaxArg = 4
    PtrBytes = 2
    MaxEachArg = 8
INVARIANT ArgvHoldsMaxArg
CHECK_DEADLOCK FALSE
