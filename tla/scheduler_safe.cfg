CONSTANTS
    Configs <- MCConfigs
    Unreadable = Unreadable
    Modes = {"backend", "file"}
    HasCache = TRUE
    MaxConcurrentChecks = 1
    MaxLoops = 3
    MaxChanges = 1
    Sighups = TRUE
    MaxStarts = 2
    Faults = {"load", "crash"}
SPECIFICATION Spec
INVARIANTS TypeOK OneLoopPerCheck SlotsAccounted NoAbortedReport ReloadNotLost RunsActive CacheIsActive
PROPERTIES UnchangedKeepRunning
CHECK_DEADLOCK FALSE
