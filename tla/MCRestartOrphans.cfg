SPECIFICATION SpecRestart
CONSTANTS
    Client = {c1}
    Name = {a}
    MaxRecords = 3
    MaxBatch = 1
    MaxReads = 2
    Workers = 1
    MaxCrashes = 1
INVARIANTS NoOrphansUp
