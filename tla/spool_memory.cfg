CONSTANTS
    OnDisk = FALSE
    MaxBatches = 3
    Batches <- MCBatches
    Faults = {}
    MaxAdds = 9
    MaxNano = 2
SPECIFICATION Spec
INVARIANTS CountMatches
PROPERTIES CapAfterAdd DropsOldestFirst
CHECK_DEADLOCK FALSE
