SPECIFICATION Spec
CONSTANTS
    Acc = {a1}
    Thread = {t1, t2}
    MaxRecords = 1
    MaxPushes = 2
    MaxBatch = 1
    MaxReads = 1
SYMMETRY Symmetry
INVARIANT FrozenAtLast
CHECK_DEADLOCK FALSE
