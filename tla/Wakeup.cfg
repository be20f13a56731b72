SPECIFICATION Spec
CONSTANTS
    Tasks = {t1, t2, t3}
    CPUs = {c1, c2}
    Idle = Idle
    Topologies = {{{c1}, {c2}}, {{c1, c2}}}
    Word = 2
    Waiters = {t2}
    Boot = {t1, t3}
INVARIANTS SingleStack NoLostWakeup DeadOnce CountersExact
PROPERTY Wakes
