SPECIFICATION StackSpec
CONSTANTS
    Threads = {t1, t2}
    Nodes = {n1, n2, n3}
    NULL = NULL
    Garbage = {NULL, n1, n2, n3}
    TagMod = 3
    MayAllocate = TRUE
    SpuriousFail = FALSE
    Values = {v1, v2}
    NoVal = NoVal
SYMMETRY Symmetry
INVARIANTS StackTypeOK StackIntact StackOwnsUsed ClosedEmpty
PROPERTIES StackLinearisable LawfulUser
