-------------------------- MODULE MCKernelMonitor --------------------------
(* An instance of KernelMonitor for TLC, in which every thread has a role, *)
(* so that two waiters, a signaller and a device fit into one run.         *)
EXTENDS KernelMonitor

CONSTANTS
    Signallers,    \* the threads that wake one waiter at a time
    Patient        \* the waiters without a timeout; the others have one

ASSUME RolesAssumption ==
    Signallers \subseteq Threads /\ Patient \subseteq Threads \ Signallers

(* Next of KernelMonitor, with each call made by those whose role it is.   *)
(* Every thread enters the kernel, leaves it and exits as it likes.        *)
MCNext ==
    \/ \E t \in Threads :
         \/ kernel_lock(t)
         \/ kernel_unlock(t)
         \/ kernel_sleep(t)
         \/ Step(t)
         \/ Timeout(t)
    \/ \E t \in Threads \ Signallers, v \in Channels :
         kernel_wait_wchan(t, v, t \notin Patient)
    \/ \E t \in Signallers, v \in Channels : kernel_signal(t, v, FALSE)
    \/ \E d \in Devices, v \in Channels : kernel_signal(d, v, TRUE)
    \/ \E a \in Actors : SignalStep(a)
    \/ Quiescent

MCSpec == Init /\ [][MCNext]_vars /\ Fairness

=============================================================================
