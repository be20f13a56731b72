SPECIFICATION SortSpec
CONSTANTS
    Values = {0, 1}
    MaxPid = 3
    MaxCnt = 3
INVARIANTS
    
    NoProcessLost
