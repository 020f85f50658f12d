CONSTANTS
    OnDisk = FALSE
    MaxBatches = 2
    Batches <- MCBatches
    Faults = {}
    MaxAdds = 4
    MaxNano = 2
SPECIFICATION Spec
PROPERTIES RemoveDiscardsDelivered
CHECK_DEADLOCK FALSE
