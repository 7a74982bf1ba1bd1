SPECIFICATION FifoSpec
CONSTANTS
    Threads = {t1, t2}
    Nodes = {n1, n2, n3}
    NULL = NULL
    Garbage = {NULL, n1, n2, n3}
    TagMod = 3
    MayAllocate = FALSE
    SpuriousFail = FALSE
    Values = {v1, v2}
    NoVal = NoVal
SYMMETRY Symmetry
INVARIANTS FifoTypeOK QueueIntact QueueOwnsUsed NullNotObserved ClosedEmpty
PROPERTIES FifoLinearisable LawfulUser
