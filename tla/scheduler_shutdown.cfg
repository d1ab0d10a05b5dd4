CONSTANTS
    Cores = {c1, c2}
    DeviceCores = {c1}
    Threads = {t1, t2}
    NoCore = NoCore
    SCHED_MAX_LEVEL = 1
    SCHED_MAX_SCHEDULED = 0
    Durations = {}
    MaxClock = 0
SPECIFICATION FairSpec
PROPERTIES Shutdown
