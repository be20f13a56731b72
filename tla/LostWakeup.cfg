SPECIFICATION FairSpec
CONSTANTS
    ListSize = 20
    WaitSize = 20
    VehicleCounts = {1, 2}
    RandomPoints = {1, 2, 3, 4}
    Garbage = {0}
PROPERTIES
    Termination
CHECK_DEADLOCK FALSE
