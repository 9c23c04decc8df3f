SPECIFICATION Spec
CONSTANTS
    Names = {n1}
    Strings = {s1, s2, s3}
    Texts = {t1, t2}
    Ints = {i1}
    InitSlots = 2
    MaxContexts = 4
SYMMETRY Perms
INVARIANT TypeOK
INVARIANT StringsOwnedOnce
INVARIANT FreedTwiceAfterLocalUnset
INVARIANT OneContextBehind
PROPERTY SetIsVisible
PROPERTY ExportsKept
CHECK_DEADLOCK FALSE
