SPECIFICATION FairSpec
CONSTANTS
    Skew = 1
    Others = 2
    QueueCap = 2
    MaxBusy = 1
    MaxEpoch = 2
    MaxTime = 10
    MaxWork = 1
    MaxFaults = 2
    MaxCopies = 1
INVARIANTS
    TypeOK
    DeliveredIsSaved
PROPERTIES
    Redirects
    QueuedIsApplied
CHECK_DEADLOCK FALSE
