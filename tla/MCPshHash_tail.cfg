SPECIFICATION Spec
CONSTANTS
    Keys <- MCKeys
    HashOf <- MCHashOf
    Addrs = {a1, a2}
    HeapVals = {v1, v2}
    Literals = {}
    Nil = Nil
    InitLen = 2
    MaxLen = 4
INVARIANT TailIsLast
CHECK_DEADLOCK FALSE
