CONSTANTS
    c1 = c1
    c2 = c2
    Checks = {c1, c2}
    ChanCap = 1
    BatchSize = 2
    BackoffMin = 2
    BackoffMax = 3
    MaxResults = 3
    OnDisk = TRUE
    MaxBatches = 1
    Faults = {"write"}
    MaxAdds = 3
    MaxNano = 2
SPECIFICATION Spec
SYMMETRY Symmetry
INVARIANTS TypeOK NothingVanishes OneHolder AckedOnce ReplaysOldestFirst NoPostWhileBackingOff
PROPERTIES DrainStaysOffline
CHECK_DEADLOCK FALSE
