CONSTANTS
    c1 = c1
    c2 = c2
    Checks = {c1}
    ChanCap = 1
    BatchSize = 1
    BackoffMin = 1
    BackoffMax = 1
    MaxResults = 1
    OnDisk = TRUE
    MaxBatches = 2
    Faults = {"remove"}
    MaxAdds = 1
    MaxNano = 1
SPECIFICATION FairSpec
PROPERTIES ShutdownEnds
CHECK_DEADLOCK FALSE
