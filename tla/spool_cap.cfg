CONSTANTS
    OnDisk = TRUE
    MaxBatches = 2
    Batches <- MCBatches
    Faults = {"write", "read"}
    MaxAdds = 4
    MaxNano = 3
SPECIFICATION Spec
PROPERTIES CapAfterAdd DropsOldestFirst ImplementsFifo
CHECK_DEADLOCK FALSE
