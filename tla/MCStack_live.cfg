SPECIFICATION StackFairSpec
CONSTANTS
    Threads = {t1, t2}
    Nodes = {n1, n2}
    NULL = NULL
    Garbage = {NULL, n1, n2}
    TagMod = 3
    MayAllocate = FALSE
    SpuriousFail = FALSE
    Values = {v1}
    NoVal = NoVal
PROPERTY StackLockFree
