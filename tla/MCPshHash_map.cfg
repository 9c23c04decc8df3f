SPECIFICATION Spec
CONSTANTS
    Keys <- MCKeys
    HashOf <- MCHashOf
    Addrs = {a1, a2, a3}
    HeapVals = {v1, v2}
    Literals = {l1}
    Nil = Nil
    InitLen = 2
    MaxLen = 4
SYMMETRY Perms
INVARIANTS TypeOK HeapIsTheTable
PROPERTIES IsADictionary
CHECK_DEADLOCK FALSE
