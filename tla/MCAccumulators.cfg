SPECIFICATION Spec
CONSTANTS
    Acc = {a1}
    Thread = {t1}
    MaxRecords = 2
    MaxPushes = 1
    MaxBatch = 1
    MaxReads = 1
SYMMETRY Symmetry
INVARIANTS ReadersCounted ReadsAsPinned NoneForgotten NoCircularWait NothingHeld
CHECK_DEADLOCK FALSE
