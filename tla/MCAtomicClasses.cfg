SPECIFICATION FairSpec
CONSTANTS
    Threads = {t1, t2}
    ByteMod = 2
    WordBytes = 2
    BigEndian = TRUE
    BitAnd <- CxxAnd
    BitOr <- CxxOr
    BitXor <- CxxXor
    Calls <- SoundCalls
    Operands = {1, 2}
INVARIANT ClassesTypeOK
PROPERTIES ObjectsAtomic OperationsEnd
