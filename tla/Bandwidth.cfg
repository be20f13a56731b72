SPECIFICATION BwSpec
CONSTANTS
    Tasks = {t1, t2}
    Boot = t1
    None = None
    Depth = 2
    ClampDepth = 1
    SCALE = 4
    BUCKETS = 2
    Requests = {None, 1}
    Percents = {2500, 10000}
    SysctlValues = {3, 5}
    MaxCalls = 3
    CPUs = {c1, c2}
    Writers = {1, 2}
    Quotas = {1, 2, 4}
    Periods = {1, 2}
    MinPeriod = 2
    MaxPeriod = 4
    MaxRuntime = 8
    DefaultPeriod = 4
    BW_UNIT = 4
    MaxWritesV1 = 3
    MaxWritesV2 = 2
INVARIANTS   BandwidthKept
CONSTRAINT Followed
