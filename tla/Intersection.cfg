SPECIFICATION FairSpec
CONSTANTS
    ListSize = 8
    WaitSize = 3
    VehicleCounts = {2, 3, 4}
    RandomPoints = {1, 2, 3, 4}
    Garbage = {0, 1, 2, 3, 4, 5}
INVARIANTS
    OneBaton
    RoadSafe
    WhereIsRight
    NoVehicleLostOrInvented
PROPERTIES
    EndsUnlessSignalLost
    ImplementsCrossroad
CHECK_DEADLOCK FALSE
