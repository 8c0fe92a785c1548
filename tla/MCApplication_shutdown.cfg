\* One market, one of the supervised tasks, three frames over two days, a queue
\* of two and room for three records.
CONSTANTS
    Markets = {spot}
    Days = {1, 2}
    DayOf <- MCDayOf
    Supervised = {drain}
    MaxQueue = 2
    MaxBytes = 4
    Baseline = 1
    PutAttempts = 3
    NoMarket = NoMarket
    CloseDeadline = 3
SPECIFICATION FairSpec
INVARIANTS RecorderInv TapeIsPrefix DiskWithinQuota CleanExitIsComplete FailureReported RepositoryReached
PROPERTIES ShutdownEnds RecorderFailureStops
\* The process ends.
CHECK_DEADLOCK FALSE
