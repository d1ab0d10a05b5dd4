---------------------------- MODULE KernelMonitor ----------------------------
(***************************************************************************)
(* The kernel lock of tinyos and the condition variables it is built from: *)
(* kernel_cc.c, from Mutex_Lock to kernel_sleep.                           *)
(*                                                                         *)
(* Each thread runs system calls: it takes the kernel lock, may wait on    *)
(* channels and signal them, and leaves.  The kernel lock is a semaphore   *)
(* implemented as a monitor (kernel_mutex, kernel_sem, kernel_sem_cv).     *)
(* Devices are the interrupt handlers that broadcast a channel without the *)
(* kernel lock (serial_rx_handler).                                        *)
(*                                                                         *)
(* Acquiring a mutex is one step, which waits until the mutex is free; the *)
(* spinning and yielding of Mutex_Lock is left out.  The scheduler is seen *)
(* through wakeup() and sleep_releasing(), each of which is atomic under   *)
(* its spinlock (module Scheduler).  A thread that is READY or RUNNING is  *)
(* "RUNNING" here.                                                         *)
(***************************************************************************)
EXTENDS Integers, Sequences, FiniteSets, SequencesExt

CONSTANTS
    Threads,         \* the threads that make system calls
    Devices,         \* the interrupt handlers that broadcast a channel
    Channels,        \* the condition variables that system calls wait on
    kernel_sem_cv,   \* the condition variable of the kernel semaphore
    Nobody           \* a mutex is free

Actors == Threads \cup Devices
CVs    == Channels \cup {kernel_sem_cv}

ASSUME MonitorAssumption ==
    /\ Threads \cap Devices = {}
    /\ Nobody \notin Actors
    /\ kernel_sem_cv \notin Channels
    /\ IsFiniteSet(Threads)

VARIABLES
    kernel_mutex,    \* the actor that holds the mutex, or Nobody
    kernel_sem,      \* the semaphore counter
    waitset,         \* CondVar.waitset: the ring of each variable, in order
    waitset_lock,    \* CondVar.waitset_lock
    state,           \* the scheduler state of each thread
    pc,              \* where each actor is
    call,            \* the function of kernel_cc.c that it executes
    on,              \* the condition variable it waits on or signals
    all,             \* whether it broadcasts
    timed,           \* whether its wait has a timeout
    signalled,       \* __cv_waiter.signalled of each thread
    removed          \* __cv_waiter.removed of each thread

ringVars   == <<waitset, waitset_lock>>
waiterVars == <<signalled, removed>>
argVars    == <<call, on, all, timed>>
vars       == <<kernel_mutex, kernel_sem, ringVars, state, pc, argVars, waiterVars>>

(* Positions of an actor:                                                  *)
(*   user    outside the kernel (a device: no interrupt being handled)     *)
(*   mutex   at the first Mutex_Lock(&kernel_mutex) of its call            *)
(*   test    at while(kernel_sem<=0), holding kernel_mutex                 *)
(*   kernel  in the kernel, with the semaphore                             *)
(*   cvlock  in Cond_Signal or Cond_Broadcast, at Mutex_Lock               *)
(*   cvpop   in the loop of cv_signal, holding waitset_lock                *)
(*   cvdone  about to release waitset_lock                                 *)
(*   push    in cv_wait, at the first Mutex_Lock(&cv->waitset_lock)        *)
(*   unlock  in cv_wait, at Mutex_Unlock(mutex)                            *)
(*   sleep   in cv_wait, at sleep_releasing                                *)
(*   woken   in cv_wait, at the second Mutex_Lock(&cv->waitset_lock)       *)
(*   relock  in cv_wait, at Mutex_Lock(mutex)                              *)
(*   gone    the thread has exited                                         *)
Places == {"user", "mutex", "test", "kernel", "cvlock", "cvpop", "cvdone", "push",
           "unlock", "sleep", "woken", "relock", "gone"}

Calls == {"none", "lock", "unlock", "wait", "sleep", "signal"}

Go(t, place) == pc' = [pc EXCEPT ![t] = place]

Init ==
    /\ kernel_mutex = Nobody
    /\ kernel_sem = 1
    /\ waitset = [v \in CVs |-> << >>]
    /\ waitset_lock = [v \in CVs |-> Nobody]
    /\ state = [t \in Threads |-> "RUNNING"]
    /\ pc = [a \in Actors |-> "user"]
    /\ call = [a \in Actors |-> "none"]
    /\ on = [a \in Actors |-> kernel_sem_cv]
    /\ all = [a \in Actors |-> FALSE]
    /\ timed = [t \in Threads |-> FALSE]
    /\ signalled = [t \in Threads |-> FALSE]
    /\ removed = [t \in Threads |-> FALSE]

-----------------------------------------------------------------------------
(* Calls.  A call of the kernel lock starts at Mutex_Lock(&kernel_mutex).  *)

StartCall(t, from, f) ==
    /\ pc[t] = from
    /\ Go(t, "mutex")
    /\ call' = [call EXCEPT ![t] = f]
    /\ UNCHANGED <<kernel_mutex, kernel_sem, ringVars, state, waiterVars>>

kernel_lock(t) ==
    StartCall(t, "user", "lock") /\ UNCHANGED <<on, all, timed>>

kernel_unlock(t) ==
    StartCall(t, "kernel", "unlock") /\ UNCHANGED <<on, all, timed>>

(* kernel_wait and kernel_timedwait; the channel is used after the         *)
(* semaphore is released, see AfterSignal.                                 *)
kernel_wait_wchan(t, v, timeout) ==
    /\ StartCall(t, "kernel", "wait")
    /\ on' = [on EXCEPT ![t] = v]
    /\ timed' = [timed EXCEPT ![t] = timeout]
    /\ UNCHANGED all

(* kernel_sleep(EXITED, ...), at the end of a thread.                      *)
kernel_sleep(t) ==
    StartCall(t, "kernel", "sleep") /\ UNCHANGED <<on, all, timed>>

(* kernel_signal and kernel_broadcast: by a thread in the kernel, or by an *)
(* interrupt handler.                                                      *)
kernel_signal(a, v, broadcast) ==
    /\ IF a \in Threads THEN pc[a] = "kernel" ELSE pc[a] = "user" /\ broadcast
    /\ Go(a, "cvlock")
    /\ call' = [call EXCEPT ![a] = "signal"]
    /\ on' = [on EXCEPT ![a] = v]
    /\ all' = [all EXCEPT ![a] = broadcast]
    /\ UNCHANGED <<kernel_mutex, kernel_sem, ringVars, state, timed, waiterVars>>

-----------------------------------------------------------------------------
(* The semaphore.                                                          *)

(* The condition variable of the call in progress: every call but          *)
(* kernel_signal signals kernel_sem_cv, and waits on it in kernel_lock.    *)
Signals(a) == IF call[a] = "signal" THEN on[a] ELSE kernel_sem_cv

LockMutex(t) ==
    /\ pc[t] = "mutex"
    /\ kernel_mutex = Nobody
    /\ kernel_mutex' = t
    /\ IF call[t] = "lock"
       THEN Go(t, "test") /\ UNCHANGED kernel_sem
       ELSE Go(t, "cvlock") /\ kernel_sem' = kernel_sem + 1
    /\ UNCHANGED <<ringVars, state, argVars, waiterVars>>

(* Slip: the test admits a second thread.                                  *)
SemaphoreFree_off_by_one == kernel_sem >= 0

SemaphoreFree == kernel_sem > 0

EnterKernel(t) ==
    /\ pc[t] = "test"
    /\ SemaphoreFree
    /\ kernel_sem' = kernel_sem - 1
    /\ kernel_mutex' = Nobody
    /\ Go(t, "kernel")
    /\ call' = [call EXCEPT ![t] = "none"]
    /\ UNCHANGED <<ringVars, state, on, all, timed, waiterVars>>

WaitForSemaphore(t) ==
    /\ pc[t] = "test"
    /\ ~ SemaphoreFree
    /\ Go(t, "push")
    /\ call' = [call EXCEPT ![t] = "lock"]
    /\ on' = [on EXCEPT ![t] = kernel_sem_cv]
    /\ timed' = [timed EXCEPT ![t] = FALSE]
    /\ UNCHANGED <<kernel_mutex, kernel_sem, ringVars, state, all, waiterVars>>

-----------------------------------------------------------------------------
(* Cond_Signal and Cond_Broadcast.                                         *)

LockWaitset(a) ==
    /\ pc[a] = "cvlock"
    /\ waitset_lock[Signals(a)] = Nobody
    /\ waitset_lock' = [waitset_lock EXCEPT ![Signals(a)] = a]
    /\ Go(a, "cvpop")
    /\ UNCHANGED <<kernel_mutex, kernel_sem, waitset, state, argVars, waiterVars>>

Broadcasts(a) == call[a] = "signal" /\ all[a]

(* Slip: a waiter that is already awake uses the signal up.                *)
SignalUsed_by_any(a, w) == ~ Broadcasts(a)

(* Whether the loop ends after waking w: wakeup() finds it asleep, and the *)
(* call is not a broadcast.                                                *)
SignalUsed(a, w) == state[w] = "STOPPED" /\ ~ Broadcasts(a)

(* One iteration of cv_signal: the first waiter leaves the ring.           *)
cv_signal(a) ==
    LET v == Signals(a)
        w == Head(waitset[v])
    IN  /\ pc[a] = "cvpop"
        /\ waitset[v] # << >>
        /\ waitset' = [waitset EXCEPT ![v] = Tail(@)]
        /\ removed' = [removed EXCEPT ![w] = TRUE]
        /\ signalled' = [signalled EXCEPT ![w] = state[w] = "STOPPED"]
        /\ state' = [state EXCEPT ![w] = IF @ = "STOPPED" THEN "RUNNING" ELSE @]
        /\ Go(a, IF SignalUsed(a, w) THEN "cvdone" ELSE "cvpop")
        /\ UNCHANGED <<kernel_mutex, kernel_sem, waitset_lock, argVars>>

NoWaiter(a) ==
    /\ pc[a] = "cvpop"
    /\ waitset[Signals(a)] = << >>
    /\ Go(a, "cvdone")
    /\ UNCHANGED <<kernel_mutex, kernel_sem, ringVars, state, argVars, waiterVars>>

(* The lock of the ring is released and the caller continues: the unlock   *)
(* of kernel_mutex is part of the same step for kernel_unlock, and for     *)
(* kernel_sleep it happens inside sleep_releasing.                         *)
AfterSignal(a) ==
    /\ pc[a] = "cvdone"
    /\ waitset_lock' = [waitset_lock EXCEPT ![Signals(a)] = Nobody]
    /\ CASE call[a] = "unlock" -> /\ Go(a, "user")
                                  /\ call' = [call EXCEPT ![a] = "none"]
                                  /\ kernel_mutex' = Nobody
                                  /\ UNCHANGED state
         [] call[a] = "sleep"  -> /\ Go(a, "gone")
                                  /\ call' = [call EXCEPT ![a] = "none"]
                                  /\ kernel_mutex' = Nobody
                                  /\ state' = [state EXCEPT ![a] = "EXITED"]
         [] call[a] = "wait"   -> /\ Go(a, "push")
                                  /\ UNCHANGED <<call, kernel_mutex, state>>
         [] call[a] = "signal" -> /\ Go(a, IF a \in Threads THEN "kernel" ELSE "user")
                                  /\ call' = [call EXCEPT ![a] = "none"]
                                  /\ UNCHANGED <<kernel_mutex, state>>
    /\ UNCHANGED <<kernel_sem, waitset, on, all, timed, waiterVars>>

-----------------------------------------------------------------------------
(* cv_wait.                                                                *)

(* The new waiter goes to the end of the ring.                             *)
PushWaiter(t) ==
    /\ pc[t] = "push"
    /\ waitset_lock[on[t]] = Nobody
    /\ waitset_lock' = [waitset_lock EXCEPT ![on[t]] = t]
    /\ waitset' = [waitset EXCEPT ![on[t]] = Append(@, t)]
    /\ signalled' = [signalled EXCEPT ![t] = FALSE]
    /\ removed' = [removed EXCEPT ![t] = FALSE]
    /\ Go(t, "unlock")
    /\ UNCHANGED <<kernel_mutex, kernel_sem, state, argVars>>

(* Slip: the ring is unlocked with the mutex, before the thread sleeps.    *)
UnlockMutex_and_ring(t) ==
    /\ pc[t] = "unlock"
    /\ kernel_mutex' = Nobody
    /\ waitset_lock' = [waitset_lock EXCEPT ![on[t]] = Nobody]
    /\ Go(t, "sleep")
    /\ UNCHANGED <<kernel_sem, waitset, state, argVars, waiterVars>>

UnlockMutex(t) ==
    /\ pc[t] = "unlock"
    /\ kernel_mutex' = Nobody
    /\ Go(t, "sleep")
    /\ UNCHANGED <<kernel_sem, ringVars, state, argVars, waiterVars>>

(* Stopping and unlocking the ring are one step of the scheduler.          *)
sleep_releasing(t) ==
    /\ pc[t] = "sleep"
    /\ state' = [state EXCEPT ![t] = "STOPPED"]
    /\ waitset_lock' = [waitset_lock EXCEPT ![on[t]] = Nobody]
    /\ Go(t, "woken")
    /\ UNCHANGED <<kernel_mutex, kernel_sem, waitset, argVars, waiterVars>>

(* sched_wakeup_expired_timeouts makes the thread ready; it stays in the   *)
(* ring until it runs.                                                     *)
Timeout(t) ==
    /\ state[t] = "STOPPED"
    /\ timed[t]
    /\ state' = [state EXCEPT ![t] = "RUNNING"]
    /\ UNCHANGED <<kernel_mutex, kernel_sem, ringVars, pc, argVars, waiterVars>>

(* Slip: a waiter that timed out stays in the ring.                        *)
RingWithout_kept(t, v) == waitset[v]

(* remove_from_ring, by the waiter itself.                                 *)
RingWithout(t, v) ==
    RemoveAt(waitset[v], CHOOSE i \in DOMAIN waitset[v] : waitset[v][i] = t)

(* The lock of the ring is taken and released around this step.            *)
LeaveRing(t) ==
    /\ pc[t] = "woken"
    /\ state[t] = "RUNNING"
    /\ waitset_lock[on[t]] = Nobody
    /\ waitset' = IF removed[t] THEN waitset
                  ELSE [waitset EXCEPT ![on[t]] = RingWithout(t, on[t])]
    /\ Go(t, "relock")
    /\ UNCHANGED <<kernel_mutex, kernel_sem, waitset_lock, state, argVars, waiterVars>>

(* cv_wait returns; both kernel_lock and kernel_wait then test kernel_sem. *)
RelockMutex(t) ==
    /\ pc[t] = "relock"
    /\ kernel_mutex = Nobody
    /\ kernel_mutex' = t
    /\ Go(t, "test")
    /\ UNCHANGED <<kernel_sem, ringVars, state, argVars, waiterVars>>

-----------------------------------------------------------------------------
UserStep(t) ==
    \/ kernel_lock(t)
    \/ kernel_unlock(t)
    \/ kernel_sleep(t)
    \/ \E v \in Channels, timeout \in BOOLEAN : kernel_wait_wchan(t, v, timeout)

Step(t) ==
    \/ LockMutex(t)
    \/ EnterKernel(t)
    \/ WaitForSemaphore(t)
    \/ PushWaiter(t)
    \/ UnlockMutex(t)
    \/ sleep_releasing(t)
    \/ LeaveRing(t)
    \/ RelockMutex(t)

SignalStep(a) ==
    \/ LockWaitset(a)
    \/ cv_signal(a)
    \/ NoWaiter(a)
    \/ AfterSignal(a)

(* Every thread has exited or is blocked: nothing happens until a device   *)
(* or a timeout wakes a thread.                                            *)
Quiescent ==
    /\ \A t \in Threads : pc[t] = "gone" \/ state[t] = "STOPPED"
    /\ UNCHANGED vars

Next ==
    \/ \E t \in Threads : UserStep(t) \/ Step(t) \/ Timeout(t)
    \/ \E a \in Actors :
         \/ \E v \in Channels, broadcast \in BOOLEAN : kernel_signal(a, v, broadcast)
         \/ SignalStep(a)
    \/ Quiescent

Spec == Init /\ [][Next]_vars

(* A thread that the scheduler runs gets on with a call it has begun, an   *)
(* interrupt handler ends, and a thread that spins on the lock of a ring,  *)
(* which is held for a few instructions, gets it.  Nothing else is         *)
(* assumed: a thread need not enter the kernel or leave it, a sleeper may  *)
(* never be signalled, and a thread may lose kernel_mutex to others for    *)
(* ever.                                                                   *)
LockRing(t) == LockWaitset(t) \/ PushWaiter(t) \/ LeaveRing(t)

Fairness ==
    /\ \A t \in Threads : WF_vars(Step(t) \/ SignalStep(t)) /\ SF_vars(LockRing(t))
    /\ \A d \in Devices : WF_vars(SignalStep(d))

FairSpec == Spec /\ Fairness

-----------------------------------------------------------------------------
(* Properties.                                                             *)

(* Every variable keeps its type: in particular kernel_sem (kernel_cc.c)   *)
(* is never negative and never above one, whatever the interleaving of     *)
(* kernel_lock, kernel_unlock, kernel_wait and kernel_sleep.               *)
TypeOK ==
    /\ kernel_mutex \in Threads \cup {Nobody}
    /\ kernel_sem \in {0, 1}
    /\ waitset \in [CVs -> Seq(Threads)]
    /\ waitset_lock \in [CVs -> Actors \cup {Nobody}]
    /\ state \in [Threads -> {"RUNNING", "STOPPED", "EXITED"}]
    /\ pc \in [Actors -> Places]
    /\ call \in [Actors -> Calls]
    /\ on \in [Actors -> CVs]
    /\ all \in [Actors -> BOOLEAN]
    /\ timed \in [Threads -> BOOLEAN]
    /\ signalled \in [Threads -> BOOLEAN]
    /\ removed \in [Threads -> BOOLEAN]

Releasing(t) == call[t] \in {"unlock", "wait", "sleep"}

HoldsSemaphore(t) ==
    \/ pc[t] = "kernel"
    \/ call[t] = "signal"
    \/ pc[t] = "mutex" /\ Releasing(t)

(* The kernel is a monitor: at most one thread is between the decrement    *)
(* and the increment of kernel_sem, the semaphore is taken exactly when    *)
(* there is one, and so no path of kernel_wait or kernel_sleep returns it  *)
(* twice.                                                                  *)
KernelExclusion ==
    /\ \A t, u \in Threads : HoldsSemaphore(t) /\ HoldsSemaphore(u) => t = u
    /\ kernel_sem = 0 <=> \E t \in Threads : HoldsSemaphore(t)

InRing(t) ==
    \/ pc[t] \in {"unlock", "sleep"}
    \/ pc[t] = "woken" /\ ~ removed[t]

(* The waiter that cv_wait links into the ring lives on the stack of its   *)
(* thread: the ring holds it once, on the right condition variable, for as *)
(* long as cv_wait needs it, and never after cv_wait has returned.  And    *)
(* the assertion of cv_wait holds: a waiter that nobody has removed was    *)
(* not signalled.                                                          *)
RingInvariant ==
    /\ TypeOK
    /\ \A t \in Threads :
         /\ \A v \in CVs :
              Cardinality({i \in DOMAIN waitset[v] : waitset[v][i] = t})
                = IF InRing(t) /\ on[t] = v THEN 1 ELSE 0
         /\ InRing(t) => ~ signalled[t]

SleepsFor(t, v) == state[t] = "STOPPED" /\ on[t] = v

(* A thread that will look at kernel_sem, or wake one that will, without   *)
(* anybody's help.                                                         *)
WillTest(t) ==
    \/ pc[t] \in {"cvlock", "cvpop"} /\ Releasing(t)
    \/ pc[t] = "woken" /\ state[t] = "RUNNING"
    \/ pc[t] \in {"relock", "test", "mutex"}

(* No wakeup of the kernel lock is lost: while the semaphore is free, a    *)
(* thread asleep in kernel_lock has a signal on its way, or another thread *)
(* is about to take the semaphore, whose kernel_unlock signals again.      *)
NoLostWakeup ==
    (kernel_sem = 1 /\ \E t \in Threads : SleepsFor(t, kernel_sem_cv))
      => \E t \in Threads : WillTest(t)

(* The refinement mapping.  A thread is in the monitor until it gives up   *)
(* kernel_mutex, and it waits from then until the scheduler wakes it.      *)
Waiting(t) == call[t] = "wait" /\ (pc[t] = "sleep" \/ state[t] = "STOPPED")

In(t) ==
    \/ pc[t] = "kernel"
    \/ call[t] = "signal"
    \/ Releasing(t) /\ pc[t] \in {"mutex", "cvlock", "cvpop", "cvdone", "push", "unlock"}

PlaceOf(t) ==
    CASE pc[t] = "user" -> "out"
      [] pc[t] = "gone" -> "gone"
      [] Waiting(t)     -> "waiting"
      [] In(t)          -> "in"
      [] OTHER          -> "asking"

place == [t \in Threads |-> PlaceOf(t)]

(* The members of sequence q that are in W, in their order.                *)
Kept(q, W) ==
    LET F[i \in 0 .. Len(q)] ==
          IF i = 0 THEN << >>
          ELSE IF q[i] \in W THEN Append(F[i - 1], q[i]) ELSE F[i - 1]
    IN  F[Len(q)]

Waiters == {t \in Threads : Waiting(t)}

waiters == [v \in Channels |-> Kept(waitset[v], Waiters)]

SendingOf(a) ==
    IF call[a] = "signal" /\ pc[a] \in {"cvlock", "cvpop"}
    THEN [channel |-> <<on[a]>>, all |-> all[a]]
    ELSE [channel |-> << >>, all |-> FALSE]

sending == [a \in Actors |-> SendingOf(a)]

M == INSTANCE Monitor WITH
       place <- place, waiters <- waiters, sending <- sending

(* The code implements the monitor of module Monitor: giving up the lock   *)
(* and joining the waiters look like one step, a signal is never spent on  *)
(* a waiter that is already awake, waiters are woken in the order of their *)
(* waits, and a broadcast leaves nobody asleep.                            *)
ImplementsMonitor == M!Spec

(* Progress of the kernel lock: when nobody is in the kernel and a thread  *)
(* wants to be, a thread gets in.                                          *)
KernelIsUsed == M!LockIsGranted

=============================================================================
