SPECIFICATION FairSpecRestart
CONSTANTS
    Client = {c1}
    Name = {a, b}
    MaxRecords = 2
    MaxBatch = 1
    MaxReads = 2
    Workers = 2
    MaxCrashes = 2
PROPERTIES EveryRecordFinishesUp
