CONSTANTS
    NoFile = NoFile
    MaxWrites = 3
    FileFaults = {"io", "remove", "syncdir", "power"}
    Envs <- MCEnvs
    Polls <- MCPolls
    Unset = Unset
    NoURL = NoURL
    Second = 3
    Half = 8
    MaxStarts = 2
SPECIFICATION Spec
INVARIANTS TypeOK NeverTorn NeverOlder DrivesTheAgent
CHECK_DEADLOCK FALSE
