SPECIFICATION Spec
CONSTANTS
    Client = {c1, c2}
    Name = {a}
    MaxRecords = 3
    MaxBatch = 2
    MaxReads = 2
    Workers = 2
SYMMETRY Symmetry
INVARIANTS TypeOK ReadersCounted ReadsServed ReadableIsThere NoOrphans NothingUnkept NoneForgotten
