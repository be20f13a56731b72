SPECIFICATION FairSpec
CONSTANTS
    DValues = {2}
    NValues = {1, 2}
    NoOption = NoOption
    ULong = 3
    Pids = {p1}
    NoNumber = NoNumber
    Garbage = {g1}
    MaxProcs = 1
    MaxCol = 1
    MaxElapsed = 3
INVARIANTS
    ScreenCurrent
    
PROPERTIES
    KeepsRefreshing
    DefaultOnTime
    KillOnlyAsked
CHECK_DEADLOCK FALSE
