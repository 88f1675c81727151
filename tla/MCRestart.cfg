SPECIFICATION SpecRestart
CONSTANTS
    Client = {c1}
    Name = {a}
    MaxRecords = 3
    MaxBatch = 1
    MaxReads = 2
    Workers = 2
    MaxCrashes = 2
INVARIANTS NoneForgottenUp
PROPERTIES FinishesOnce FailsOnlyWhatIsLost CancelsOnlyUnneeded
