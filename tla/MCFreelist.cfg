SPECIFICATION Spec
CONSTANTS
    Threads = {t1, t2}
    Nodes = {n1, n2, n3}
    NULL = NULL
    Garbage = {junk, NULL, n1, n2, n3}
    TagMod = 3
    MayAllocate = TRUE
    SpuriousFail = TRUE
    PtrMod = 4
    TagValues = 3
    Addr <- Addresses
SYMMETRY Symmetry
INVARIANTS TypeOK ListIntact OneOwner DestroyedOnce SnapshotValid PoolPacked
PROPERTY PoolSpec
