CONSTANTS
    Cores = {c1, c2}
    DeviceCores = {c1, c2}
    Threads = {t1, t2}
    NoCore = NoCore
    SCHED_MAX_LEVEL = 2
    SCHED_MAX_SCHEDULED = 0
    Durations = {0, 1}
    MaxClock = 1
SYMMETRY Symmetry
SPECIFICATION Spec
INVARIANTS TypeOK QueueInvariant OneCorePerThread LeaveWhenDone NoDanglingTCB OneNode TimeoutInvariant
PROPERTIES NoOversleep
