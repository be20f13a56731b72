SPECIFICATION Spec
CONSTANTS
    Tasks = {t1, t2, t3}
    InitTask = t1
    Idle = Idle
    MaxCalls = 2
    Kernels = {"fifo"}
    MAX_RT_PRIO = 100
    Nices = {0, 19}
    RtPriorities = {50}
    MaxTime = 1

INVARIANT NoBoostLeak
