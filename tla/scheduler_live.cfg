CONSTANTS
    Configs <- MCOneCheck
    Unreadable = Unreadable
    Modes = {"backend"}
    HasCache = TRUE
    MaxConcurrentChecks = 1
    MaxLoops = 2
    MaxChanges = 2
    Sighups = FALSE
    MaxStarts = 1
    Faults = {"load", "save"}
SPECIFICATION FairSpec
PROPERTIES ConfigConverges EveryCheckRuns StoppedLoopsEnd
CHECK_DEADLOCK FALSE
