SPECIFICATION CsSpec
CONSTANTS
    CPUs = {c1, c2}
    Callers = {a, b}
    None = None
    HotCPUs = {c2}
    MaxNest = 2
    HotNest = 1
INVARIANTS NoWarning NoUseAfterReturn NoLostRequest  WorkOnce
CONSTRAINT Followed
SYMMETRY Symmetry
