SPECIFICATION FairSpecStages
CONSTANTS
    Client = {c1}
    Name = {a, b}
    Stage = {s1}
    Persistable = {a}
    MaxRecords = 2
    MaxBatch = 1
    MaxReads = 2
    Workers = 2
INVARIANTS StagesCounted StagesServed
PROPERTIES KeepsPromise EveryRecordFinishes NothingOutlivesClients
