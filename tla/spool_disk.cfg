CONSTANTS
    OnDisk = TRUE
    MaxBatches = 2
    Batches <- MCBatches
    Faults = {"write", "remove", "read", "list"}
    MaxAdds = 4
    MaxNano = 3
SPECIFICATION Spec
INVARIANTS TypeOK CountMatches Chronological SpoolInv
PROPERTIES RemoveDiscardsDelivered
CHECK_DEADLOCK FALSE
