CONSTANTS
    c1 = c1
    c2 = c2
    Checks = {c1}
    ChanCap = 1
    BatchSize = 2
    BackoffMin = 1
    BackoffMax = 1
    MaxResults = 2
    OnDisk = TRUE
    MaxBatches = 1
    Faults = {"write"}
    MaxAdds = 2
    MaxNano = 2
SPECIFICATION FairSpec
INVARIANTS LoopsNeverBlock
PROPERTIES ImplementsOutbox EventuallyDelivered ShutdownEnds
CHECK_DEADLOCK FALSE
