SPECIFICATION MCSpec
CONSTANTS
    Threads = {t1, t2, t3}
    Signallers = {t3}
    Patient = {t2}
    Devices = {d}
    Channels = {c}
    kernel_sem_cv = kernel_sem_cv
    Nobody = Nobody
INVARIANTS KernelExclusion RingInvariant NoLostWakeup
PROPERTIES ImplementsMonitor KernelIsUsed
