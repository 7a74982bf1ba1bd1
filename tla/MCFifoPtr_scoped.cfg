SPECIFICATION PtrSpec
CONSTANTS
    Threads = {t1, t2}
    Nodes = {n1, n2}
    NULL = NULL
    Garbage = {NULL, n1, n2}
    TagMod = 2
    MayAllocate = TRUE
    SpuriousFail = FALSE
    Values = {v1, v2}
    NoVal = NoVal
    Kinds = {"scoped"}
INVARIANT NoSharedObject
