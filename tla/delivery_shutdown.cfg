CONSTANTS
    c1 = c1
    c2 = c2
    Checks = {c1}
    ChanCap = 1
    BatchSize = 2
    BackoffMin = 1
    BackoffMax = 1
    MaxResults = 2
    OnDisk = TRUE
    MaxBatches = 2
    Faults = {}
    MaxAdds = 2
    MaxNano = 1
SPECIFICATION Spec
INVARIANTS CleanExitLosesNothing
CHECK_DEADLOCK FALSE
