SPECIFICATION SpecFeed
CONSTANTS
    MaxRecords = 2
    Waiter = {t1}
INVARIANTS NotSleptThrough ListingCurrent ClosedClean
PROPERTIES Closes
CHECK_DEADLOCK FALSE
