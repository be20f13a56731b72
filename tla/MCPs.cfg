SPECIFICATION PsSpec
CONSTANTS
    Pids = {1, 2, 3}
    Self = 3
    BufSize = 1
    MaxClock = 3
    MaxLives = 2
    Profiles <- SetOfProfiles
    Commands <- SetOfCommands
INVARIANTS
    SnapshotComplete
    
CHECK_DEADLOCK FALSE
