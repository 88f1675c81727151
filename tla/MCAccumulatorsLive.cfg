SPECIFICATION FairSpec
CONSTANTS
    Acc = {a1}
    Thread = {t1}
    MaxRecords = 1
    MaxPushes = 2
    MaxBatch = 1
    MaxReads = 1
PROPERTIES EveryRecordFinishes EveryStepEnds
CHECK_DEADLOCK FALSE
