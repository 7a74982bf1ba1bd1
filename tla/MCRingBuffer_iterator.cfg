SPECIFICATION Spec
CONSTANTS
    max_size = 3
    SizeMod = 6
    Values = {v1, v2}
    NoVal = NoVal
    MaxBulk = 2
    InsertIterator = FALSE
INVARIANT DequeuedInOrder
