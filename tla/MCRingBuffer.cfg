SPECIFICATION Spec
CONSTANTS
    max_size = 4
    SizeMod = 8
    Values = {v1, v2}
    NoVal = NoVal
    MaxBulk = 3
    InsertIterator = TRUE
SYMMETRY Symmetry
INVARIANTS RingTypeOK QueueInBuffer NoRace
PROPERTIES RingIsQueue WaitFree
