CONSTANTS
    Cores = {c1}
    DeviceCores = {c1}
    Threads = {t1, t2, t3}
    NoCore = NoCore
    SCHED_MAX_LEVEL = 2
    SCHED_MAX_SCHEDULED = 1
    Durations = {}
    MaxClock = 0
SPECIFICATION FairSpec
PROPERTIES TopLevelRuns
