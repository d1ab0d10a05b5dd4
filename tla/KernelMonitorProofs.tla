------------------------ MODULE KernelMonitorProofs ------------------------
(***************************************************************************)
(* Proofs about the kernel lock and the condition variables, for any       *)
(* number of threads, devices and channels: the safety invariants of       *)
(* module KernelMonitor, and that it implements module Monitor.            *)
(***************************************************************************)
EXTENDS KernelMonitor, ListLemmas, FiniteSetTheorems, TLAPS

Cv     == {"cvlock", "cvpop", "cvdone"}
Wait   == {"push", "unlock", "sleep", "woken", "relock"}

(* The call that is in progress at each place, and the condition variable  *)
(* that it uses.                                                           *)
CallOK(a) ==
    /\ call[a] = "none" <=> pc[a] \in {"user", "kernel", "gone"}
    /\ pc[a] = "mutex" => call[a] # "signal"
    /\ pc[a] \in Cv => call[a] # "lock"
    /\ pc[a] \in Wait \cup {"test"} => call[a] \in {"lock", "wait"}
    /\ call[a] \in {"wait", "signal"} => on[a] \in Channels
    /\ pc[a] \in Wait /\ call[a] = "lock" => on[a] = kernel_sem_cv
    /\ a \in Devices => pc[a] \in Cv \cup {"user"} /\ call[a] \in {"none", "signal"}

CallsInvariant == \A a \in Actors : CallOK(a)

(* Who holds kernel_mutex, and the lock of the ring of v.                  *)
HoldsMutex(t) ==
    \/ pc[t] \in {"test", "push", "unlock"}
    \/ pc[t] \in Cv /\ Releasing(t)

HoldsRing(a, v) ==
    \/ pc[a] \in {"cvpop", "cvdone"} /\ Signals(a) = v
    \/ pc[a] \in {"unlock", "sleep"} /\ on[a] = v

MutexInvariant == \A t \in Threads : kernel_mutex = t <=> HoldsMutex(t)

RingLocks == \A a \in Actors, v \in CVs : waitset_lock[v] = a <=> HoldsRing(a, v)

(* A thread is stopped only in cv_wait, and until it is removed.           *)
StateOK(t) ==
    /\ state[t] = "EXITED" <=> pc[t] = "gone"
    /\ state[t] = "STOPPED" => pc[t] = "woken" /\ ~ removed[t]
    /\ pc[t] \in {"unlock", "sleep"} => ~ removed[t]

StatesInvariant == \A t \in Threads : StateOK(t)

(* The rings: no thread twice; a thread that is still in cv_wait's first   *)
(* part is the last one.                                                   *)
RingsInvariant ==
    /\ \A v \in CVs : IsInjective(waitset[v])
    /\ \A v \in CVs, t \in Threads : Contains(waitset[v], t) <=> InRing(t) /\ on[t] = v
    /\ \A t \in Threads : InRing(t) => ~ signalled[t]
    /\ \A t \in Threads :
         pc[t] \in {"unlock", "sleep"} => waitset[on[t]][Len(waitset[on[t]])] = t

(* A thread that decides to wait for the semaphore does so while nobody    *)
(* can return it; from there on, as NoLostWakeup.                          *)
Sleeper(t) == on[t] = kernel_sem_cv /\ (pc[t] = "sleep" \/ state[t] = "STOPPED")

WakeupInvariant ==
    /\ \A t \in Threads : pc[t] \in {"push", "unlock"} /\ call[t] = "lock" => kernel_sem = 0
    /\ kernel_sem = 1 /\ (\E t \in Threads : Sleeper(t)) => \E t \in Threads : WillTest(t)

MonitorInv ==
    /\ TypeOK
    /\ CallsInvariant
    /\ MutexInvariant
    /\ RingLocks
    /\ StatesInvariant
    /\ RingsInvariant
    /\ KernelExclusion
    /\ WakeupInvariant

-----------------------------------------------------------------------------
LEMMA InitMonitor == Init => MonitorInv
<1> SUFFICES ASSUME Init PROVE MonitorInv
  OBVIOUS
<1>1. TypeOK
  <2>1. << >> \in Seq(Threads)
    OBVIOUS
  <2> QED BY <2>1 DEF Init, TypeOK, CVs, Places, Calls
<1>2. CallsInvariant
  BY DEF Init, CallsInvariant, CallOK, Cv, Wait
<1>3. MutexInvariant
  BY MonitorAssumption DEF Init, MutexInvariant, HoldsMutex, Cv, Actors
<1>4. RingLocks
  BY MonitorAssumption DEF Init, RingLocks, HoldsRing, Actors
<1>5. StatesInvariant
  BY DEF Init, StatesInvariant, StateOK, Actors
<1>6. RingsInvariant
  BY DEF Init, RingsInvariant, IsInjective, Contains, InRing, Actors
<1>7. KernelExclusion
  BY DEF Init, KernelExclusion, HoldsSemaphore, Actors
<1>8. WakeupInvariant
  BY DEF Init, WakeupInvariant, Sleeper, Actors
<1> QED BY <1>1, <1>2, <1>3, <1>4, <1>5, <1>6, <1>7, <1>8 DEF MonitorInv

(* The variable that a call signals or waits on.                           *)
LEMMA SignalsCV == ASSUME TypeOK, NEW a \in Actors PROVE Signals(a) \in CVs
  BY DEF TypeOK, Signals, CVs

(* remove_from_ring takes the thread out of its ring.                      *)
LEMMA RingWithoutMembers ==
    ASSUME TypeOK, RingsInvariant, NEW v \in CVs, NEW t \in Threads, Contains(waitset[v], t)
    PROVE  /\ RingWithout(t, v) \in Seq(Threads)
           /\ IsInjective(RingWithout(t, v))
           /\ \A u : Contains(RingWithout(t, v), u) <=> Contains(waitset[v], u) /\ u # t
           /\ \E i \in 1 .. Len(waitset[v]) :
                waitset[v][i] = t /\ RingWithout(t, v) = RemoveAt(waitset[v], i)
<1> DEFINE q == waitset[v]
           i == CHOOSE i \in DOMAIN q : q[i] = t
<1>1. q \in Seq(Threads) /\ IsInjective(q) /\ DOMAIN q = 1 .. Len(q)
  BY DEF TypeOK, RingsInvariant
<1>2. i \in DOMAIN q /\ q[i] = t
  BY <1>1 DEF Contains
<1>3. RingWithout(t, v) = RemoveAt(q, i)
  BY DEF RingWithout
<1> HIDE DEF q, i
<1>4. /\ RemoveAt(q, i) \in Seq(Threads) /\ IsInjective(RemoveAt(q, i))
      /\ \A u : Contains(RemoveAt(q, i), u) <=> Contains(q, u) /\ u # q[i]
  BY <1>1, <1>2, RemoveMembers
<1>5. i \in 1 .. Len(q)
  BY <1>1, <1>2
<1> QED BY <1>2, <1>3, <1>4, <1>5 DEF q

-----------------------------------------------------------------------------
LEMMA TypeStep ==
    ASSUME MonitorInv, Next
    PROVE  TypeOK'
<1> USE DEF MonitorInv
<1>u. ASSUME NEW t \in Threads, UserStep(t) PROVE TypeOK'
  <2>1. CASE kernel_lock(t) \/ kernel_unlock(t) \/ kernel_sleep(t)
    BY <2>1 DEF StartCall, kernel_lock, kernel_unlock, kernel_sleep, Go,
                TypeOK, Places, Calls, ringVars, waiterVars, Actors
  <2>2. ASSUME NEW v \in Channels, NEW timeout \in BOOLEAN, kernel_wait_wchan(t, v, timeout)
        PROVE  TypeOK'
    BY <2>2 DEF StartCall, kernel_wait_wchan, Go,
                TypeOK, Places, Calls, ringVars, waiterVars, Actors, CVs
  <2> QED BY <1>u, <2>1, <2>2 DEF UserStep
<1>1. ASSUME NEW t \in Threads, LockMutex(t) PROVE TypeOK'
  <2>1. kernel_sem' \in {0, 1}
    <3>1. CASE call[t] = "lock"
      BY <1>1, <3>1 DEF LockMutex, TypeOK
    <3>2. CASE call[t] # "lock"
      <4>1. HoldsSemaphore(t)
        BY <1>1, <3>2 DEF LockMutex, HoldsSemaphore, Releasing, CallsInvariant, CallOK, TypeOK, Calls, Actors
      <4>2. kernel_sem = 0
        BY <4>1 DEF KernelExclusion
      <4> QED BY <1>1, <3>2, <4>2 DEF LockMutex
    <3> QED BY <3>1, <3>2
  <2> QED BY <1>1, <2>1 DEF LockMutex, Go, TypeOK, Places, ringVars, argVars, waiterVars, Actors
<1>2. ASSUME NEW t \in Threads, EnterKernel(t) PROVE TypeOK'
  BY <1>2 DEF EnterKernel, SemaphoreFree, Go, TypeOK, Places, Calls, ringVars, waiterVars, Actors
<1>3. ASSUME NEW t \in Threads, WaitForSemaphore(t) PROVE TypeOK'
  BY <1>3 DEF WaitForSemaphore, Go, TypeOK, Places, Calls, ringVars, waiterVars, Actors, CVs
<1>4. ASSUME NEW t \in Threads, PushWaiter(t) PROVE TypeOK'
  <2>1. on[t] \in CVs /\ waitset[on[t]] \in Seq(Threads)
    BY DEF TypeOK, Actors
  <2>2. Append(waitset[on[t]], t) \in Seq(Threads)
    BY <2>1
  <2>3. waitset' \in [CVs -> Seq(Threads)]
    BY <1>4, <2>2 DEF PushWaiter, TypeOK
  <2> QED BY <1>4, <2>3 DEF PushWaiter, Go, TypeOK, Places, argVars, Actors
<1>5. ASSUME NEW t \in Threads, UnlockMutex(t) PROVE TypeOK'
  BY <1>5 DEF UnlockMutex, Go, TypeOK, Places, ringVars, argVars, waiterVars, Actors
<1>6. ASSUME NEW t \in Threads, sleep_releasing(t) PROVE TypeOK'
  BY <1>6 DEF sleep_releasing, Go, TypeOK, Places, argVars, waiterVars, Actors
<1>7. ASSUME NEW t \in Threads, LeaveRing(t) PROVE TypeOK'
  <2>1. waitset' \in [CVs -> Seq(Threads)]
    <3>1. CASE removed[t]
      BY <1>7, <3>1 DEF LeaveRing, TypeOK
    <3>2. CASE ~ removed[t]
      <4>1. on[t] \in CVs /\ Contains(waitset[on[t]], t)
        BY <1>7, <3>2 DEF LeaveRing, RingsInvariant, InRing, TypeOK, Actors
      <4>2. RingWithout(t, on[t]) \in Seq(Threads)
        BY <4>1, RingWithoutMembers
      <4> QED BY <1>7, <3>2, <4>2 DEF LeaveRing, TypeOK
    <3> QED BY <3>1, <3>2
  <2> QED BY <1>7, <2>1 DEF LeaveRing, Go, TypeOK, Places, argVars, waiterVars, Actors
<1>8. ASSUME NEW t \in Threads, RelockMutex(t) PROVE TypeOK'
  BY <1>8 DEF RelockMutex, Go, TypeOK, Places, ringVars, argVars, waiterVars, Actors
<1>9. ASSUME NEW t \in Threads, Timeout(t) PROVE TypeOK'
  BY <1>9 DEF Timeout, TypeOK, ringVars, argVars, waiterVars
<1>10. ASSUME NEW a \in Actors, NEW v \in Channels, NEW b \in BOOLEAN, kernel_signal(a, v, b)
       PROVE  TypeOK'
  BY <1>10 DEF kernel_signal, Go, TypeOK, Places, Calls, ringVars, waiterVars, CVs
<1>11. ASSUME NEW a \in Actors, LockWaitset(a) PROVE TypeOK'
  BY <1>11, SignalsCV DEF LockWaitset, Go, TypeOK, Places, argVars, waiterVars
<1>12. ASSUME NEW a \in Actors, cv_signal(a) PROVE TypeOK'
  <2> DEFINE v == Signals(a)
             w == Head(waitset[v])
  <2>1. v \in CVs /\ waitset[v] \in Seq(Threads) /\ waitset[v] # << >>
    BY <1>12, SignalsCV DEF cv_signal, TypeOK
  <2>2. w \in Threads /\ Tail(waitset[v]) \in Seq(Threads)
    BY <2>1
  <2>3. waitset' = [waitset EXCEPT ![v] = Tail(waitset[v])]
    BY <1>12, <2>1 DEF cv_signal, TypeOK
  <2>4. waitset' \in [CVs -> Seq(Threads)]
    BY <2>2, <2>3 DEF TypeOK
  <2>5. /\ removed' \in [Threads -> BOOLEAN] /\ signalled' \in [Threads -> BOOLEAN]
        /\ state' \in [Threads -> {"RUNNING", "STOPPED", "EXITED"}]
        /\ pc' \in [Actors -> Places]
    BY <1>12, <2>2 DEF cv_signal, TypeOK, Go, Places
  <2> QED BY <1>12, <2>4, <2>5 DEF cv_signal, TypeOK, argVars
<1>13. ASSUME NEW a \in Actors, NoWaiter(a) PROVE TypeOK'
  BY <1>13 DEF NoWaiter, Go, TypeOK, Places, ringVars, argVars, waiterVars
<1>14. ASSUME NEW a \in Actors, AfterSignal(a) PROVE TypeOK'
  <2>1. call[a] \in {"unlock", "sleep", "wait", "signal"}
    BY <1>14 DEF AfterSignal, CallsInvariant, CallOK, Cv, TypeOK, Calls
  <2>2. call[a] = "sleep" => a \in Threads
    BY DEF CallsInvariant, CallOK, Actors
  <2>3. waitset_lock' \in [CVs -> Actors \cup {Nobody}]
    BY <1>14 DEF AfterSignal, TypeOK
  <2>4. UNCHANGED <<kernel_sem, waitset, on, all, timed, signalled, removed>>
    BY <1>14 DEF AfterSignal, waiterVars
  <2>5. pc' \in [Actors -> Places] /\ call' \in [Actors -> Calls]
    BY <1>14, <2>1 DEF AfterSignal, Go, TypeOK, Places, Calls
  <2>6. /\ kernel_mutex' \in Threads \cup {Nobody}
        /\ state' \in [Threads -> {"RUNNING", "STOPPED", "EXITED"}]
    BY <1>14, <2>1, <2>2 DEF AfterSignal, TypeOK
  <2> QED BY <2>3, <2>4, <2>5, <2>6 DEF TypeOK
<1>15. ASSUME Quiescent PROVE TypeOK'
  BY <1>15 DEF Quiescent, vars, TypeOK, ringVars, argVars, waiterVars
<1> QED BY <1>u, <1>1, <1>2, <1>3, <1>4, <1>5, <1>6, <1>7, <1>8, <1>9, <1>10, <1>11, <1>12,
           <1>13, <1>14, <1>15 DEF Next, Step, SignalStep

-----------------------------------------------------------------------------
(* The step of an actor a leaves the place, the call and the variable of   *)
(* the others alone.                                                       *)
Mine(a) ==
    \A b \in Actors \ {a} : pc'[b] = pc[b] /\ call'[b] = call[b] /\ on'[b] = on[b]

LEMMA CallsStep ==
    ASSUME MonitorInv, TypeOK', Next
    PROVE  CallsInvariant'
<1> USE DEF MonitorInv
<1>0. ASSUME NEW a \in Actors, Mine(a), CallOK(a)' PROVE CallsInvariant'
  BY <1>0 DEF Mine, CallsInvariant, CallOK
<1> USE DEF CallOK, Cv, Wait, Go
<1>d. \A t \in Threads : t \in Actors /\ t \notin Devices /\ CallOK(t)
  BY MonitorAssumption DEF Actors, CallsInvariant
<1>t. /\ pc \in [Actors -> Places] /\ call \in [Actors -> Calls] /\ on \in [Actors -> CVs]
  BY DEF TypeOK
<1>u. ASSUME NEW t \in Threads, UserStep(t) PROVE CallsInvariant'
  <2>1. CASE kernel_lock(t) \/ kernel_unlock(t) \/ kernel_sleep(t)
    <3>1. Mine(t)
      BY <1>t, <2>1 DEF kernel_lock, kernel_unlock, kernel_sleep, StartCall, Mine
    <3>2. CallOK(t)'
      BY <1>d, <1>t, <2>1 DEF kernel_lock, kernel_unlock, kernel_sleep, StartCall
    <3> QED BY <1>0, <1>d, <3>1, <3>2
  <2>2. ASSUME NEW v \in Channels, NEW timeout \in BOOLEAN, kernel_wait_wchan(t, v, timeout)
        PROVE  CallsInvariant'
    <3>1. Mine(t)
      BY <1>t, <2>2 DEF kernel_wait_wchan, StartCall, Mine
    <3>2. CallOK(t)'
      BY <1>d, <1>t, <2>2 DEF kernel_wait_wchan, StartCall
    <3> QED BY <1>0, <1>d, <3>1, <3>2
  <2> QED BY <1>u, <2>1, <2>2 DEF UserStep
<1>1. ASSUME NEW t \in Threads, LockMutex(t) PROVE CallsInvariant'
  <2>1. Mine(t) /\ CallOK(t)'
    BY <1>1, <1>d, <1>t DEF LockMutex, Mine, argVars, Calls
  <2> QED BY <1>0, <1>d, <2>1
<1>2. ASSUME NEW t \in Threads, EnterKernel(t) PROVE CallsInvariant'
  <2>1. Mine(t) /\ CallOK(t)'
    BY <1>2, <1>d, <1>t DEF EnterKernel, Mine
  <2> QED BY <1>0, <1>d, <2>1
<1>3. ASSUME NEW t \in Threads, WaitForSemaphore(t) PROVE CallsInvariant'
  <2>1. Mine(t) /\ CallOK(t)'
    BY <1>3, <1>d, <1>t DEF WaitForSemaphore, Mine
  <2> QED BY <1>0, <1>d, <2>1
<1>4. ASSUME NEW t \in Threads, PushWaiter(t) \/ UnlockMutex(t) \/ sleep_releasing(t)
      PROVE  CallsInvariant'
  <2>1. Mine(t) /\ CallOK(t)'
    BY <1>4, <1>d, <1>t DEF PushWaiter, UnlockMutex, sleep_releasing, Mine, argVars
  <2> QED BY <1>0, <1>d, <2>1
<1>5. ASSUME NEW t \in Threads, LeaveRing(t) \/ RelockMutex(t) PROVE CallsInvariant'
  <2>1. Mine(t) /\ CallOK(t)'
    BY <1>5, <1>d, <1>t DEF LeaveRing, RelockMutex, Mine, argVars
  <2> QED BY <1>0, <1>d, <2>1
<1>6. ASSUME NEW a \in Actors, NEW v \in Channels, NEW b \in BOOLEAN, kernel_signal(a, v, b)
      PROVE  CallsInvariant'
  <2>1. Mine(a)
    BY <1>6, <1>t DEF kernel_signal, Mine
  <2>2. CallOK(a)'
    BY <1>6, <1>t DEF kernel_signal
  <2> QED BY <1>0, <2>1, <2>2
<1>7. ASSUME NEW a \in Actors, LockWaitset(a) \/ NoWaiter(a) \/ cv_signal(a) PROVE CallsInvariant'
  <2>1. CallOK(a)
    BY DEF CallsInvariant
  <2>2. Mine(a) /\ CallOK(a)'
    BY <1>7, <1>t, <2>1 DEF LockWaitset, NoWaiter, cv_signal, Mine, argVars
  <2> QED BY <1>0, <2>2
<1>8. ASSUME NEW a \in Actors, AfterSignal(a) PROVE CallsInvariant'
  <2>1. CallOK(a) /\ call[a] \in {"unlock", "sleep", "wait", "signal"}
    BY <1>8, <1>t DEF AfterSignal, CallsInvariant, Calls
  <2>2. a \in Devices => a \notin Threads
    BY <1>d
  <2>3. Mine(a)
    BY <1>8, <1>t, <2>1 DEF AfterSignal, Mine
  <2>4. CallOK(a)'
    BY <1>8, <1>t, <2>1, <2>2 DEF AfterSignal, Actors
  <2> QED BY <1>0, <2>3, <2>4
<1>9. ASSUME UNCHANGED <<pc, call, on>> PROVE CallsInvariant'
  BY <1>9 DEF CallsInvariant
<1>10. ASSUME NEW t \in Threads, Timeout(t) PROVE CallsInvariant'
  BY <1>9, <1>10 DEF Timeout, argVars
<1>11. ASSUME Quiescent PROVE CallsInvariant'
  BY <1>9, <1>11 DEF Quiescent, vars, argVars
<1> HIDE DEF MonitorInv, CallOK, Cv, Wait, Go
<1> QED BY <1>u, <1>1, <1>2, <1>3, <1>4, <1>5, <1>6, <1>7, <1>8, <1>10, <1>11
        DEF Next, Step, SignalStep

-----------------------------------------------------------------------------
(* The locks.                                                              *)

LEMMA MineStep ==
    ASSUME MonitorInv, NEW a \in Actors,
           \/ a \in Threads /\ (UserStep(a) \/ Step(a))
           \/ \E v \in Channels, b \in BOOLEAN : kernel_signal(a, v, b)
           \/ SignalStep(a)
    PROVE  Mine(a)
<1>t. pc \in [Actors -> Places] /\ call \in [Actors -> Calls] /\ on \in [Actors -> CVs]
  BY DEF MonitorInv, TypeOK
<1>1. CASE UserStep(a)
  BY <1>1, <1>t DEF UserStep, kernel_lock, kernel_unlock, kernel_sleep, kernel_wait_wchan, StartCall,
                    Go, Mine
<1>2. CASE Step(a)
  BY <1>2, <1>t DEF Step, LockMutex, EnterKernel, WaitForSemaphore, PushWaiter, UnlockMutex,
                    sleep_releasing, LeaveRing, RelockMutex, Go, Mine, argVars
<1>3. CASE \E v \in Channels, b \in BOOLEAN : kernel_signal(a, v, b)
  BY <1>3, <1>t DEF kernel_signal, Go, Mine
<1>4. CASE SignalStep(a)
  <2>1. CASE LockWaitset(a) \/ cv_signal(a) \/ NoWaiter(a)
    BY <2>1, <1>t DEF LockWaitset, cv_signal, NoWaiter, Go, Mine, argVars
  <2>2. CASE AfterSignal(a)
    <3>1. call[a] \in {"unlock", "sleep", "wait", "signal"}
      BY <2>2, <1>t DEF AfterSignal, MonitorInv, CallsInvariant, CallOK, Cv, Calls
    <3> QED BY <2>2, <1>t, <3>1 DEF AfterSignal, Go, Mine
  <2> QED BY <1>4, <2>1, <2>2 DEF SignalStep
<1> QED BY <1>1, <1>2, <1>3, <1>4

LEMMA MutexStep ==
    ASSUME MonitorInv, Next
    PROVE  MutexInvariant'
<1>m. TypeOK /\ CallsInvariant /\ MutexInvariant
  BY DEF MonitorInv
<1>d. \A t \in Threads : t \in Actors /\ t \notin Devices /\ t # Nobody
  BY MonitorAssumption DEF Actors
<1>t. pc \in [Actors -> Places] /\ call \in [Actors -> Calls]
  BY <1>m DEF TypeOK
<1>0. ASSUME NEW a \in Actors, Mine(a),
             \/ kernel_mutex' = kernel_mutex /\ (HoldsMutex(a)' <=> HoldsMutex(a))
             \/ a \in Threads /\ kernel_mutex = Nobody /\ kernel_mutex' = a /\ HoldsMutex(a)'
             \/ HoldsMutex(a) /\ kernel_mutex' = Nobody /\ ~ HoldsMutex(a)'
                  /\ a \in Threads
      PROVE  MutexInvariant'
  <2> SUFFICES ASSUME NEW t \in Threads PROVE kernel_mutex' = t <=> HoldsMutex(t)'
    BY DEF MutexInvariant
  <2>1. kernel_mutex = t <=> HoldsMutex(t)
    BY <1>m DEF MutexInvariant
  <2>2. CASE t = a
    BY <1>0, <1>d, <2>1, <2>2
  <2>3. CASE t # a
    <3>1. HoldsMutex(t)' <=> HoldsMutex(t)
      BY <1>0, <1>d, <2>3 DEF Mine, HoldsMutex, Releasing
    <3>2. a \in Threads /\ HoldsMutex(a) => kernel_mutex = a
      BY <1>m DEF MutexInvariant
    <3> QED BY <1>0, <1>d, <2>1, <2>3, <3>1, <3>2
  <2> QED BY <2>2, <2>3
<1> USE DEF HoldsMutex, Releasing, Cv, Go
<1>1. ASSUME NEW t \in Threads, UserStep(t) PROVE MutexInvariant'
  <2>1. Mine(t)
    BY <1>1, <1>d, MineStep
  <2>2. kernel_mutex' = kernel_mutex /\ ~ HoldsMutex(t) /\ ~ HoldsMutex(t)'
    BY <1>1, <1>d, <1>t DEF UserStep, kernel_lock, kernel_unlock, kernel_sleep, kernel_wait_wchan, StartCall
  <2> QED BY <1>0, <1>d, <2>1, <2>2
<1>2. ASSUME NEW t \in Threads, Step(t) PROVE MutexInvariant'
  <2>1. Mine(t) /\ CallOK(t)
    BY <1>2, <1>d, <1>m, MineStep DEF CallsInvariant
  <2>2. CASE LockMutex(t) \/ RelockMutex(t)
    <3>1. kernel_mutex = Nobody /\ kernel_mutex' = t /\ HoldsMutex(t)'
      BY <1>d, <1>t, <2>1, <2>2 DEF LockMutex, RelockMutex, argVars, CallOK, Calls
    <3> QED BY <1>0, <1>d, <2>1, <3>1
  <2>3. CASE EnterKernel(t) \/ UnlockMutex(t)
    <3>1. HoldsMutex(t) /\ kernel_mutex' = Nobody /\ ~ HoldsMutex(t)'
      BY <1>d, <1>t, <2>3 DEF EnterKernel, UnlockMutex
    <3> QED BY <1>0, <1>d, <2>1, <3>1
  <2>4. CASE WaitForSemaphore(t) \/ PushWaiter(t) \/ sleep_releasing(t) \/ LeaveRing(t)
    <3>1. kernel_mutex' = kernel_mutex /\ (HoldsMutex(t)' <=> HoldsMutex(t))
      BY <1>d, <1>t, <2>4 DEF WaitForSemaphore, PushWaiter, sleep_releasing, LeaveRing
    <3> QED BY <1>0, <1>d, <2>1, <3>1
  <2> QED BY <1>2, <2>2, <2>3, <2>4 DEF Step
<1>3. ASSUME NEW a \in Actors, NEW v \in Channels, NEW b \in BOOLEAN, kernel_signal(a, v, b)
      PROVE  MutexInvariant'
  <2>1. Mine(a)
    BY <1>3, MineStep
  <2>2. kernel_mutex' = kernel_mutex /\ ~ HoldsMutex(a) /\ ~ HoldsMutex(a)'
    BY <1>3, <1>t DEF kernel_signal
  <2> QED BY <1>0, <2>1, <2>2
<1>4. ASSUME NEW a \in Actors, LockWaitset(a) \/ cv_signal(a) \/ NoWaiter(a) PROVE MutexInvariant'
  <2>1. Mine(a)
    BY <1>4, MineStep DEF SignalStep
  <2>2. kernel_mutex' = kernel_mutex /\ (HoldsMutex(a)' <=> HoldsMutex(a))
    BY <1>4, <1>t DEF LockWaitset, cv_signal, NoWaiter, argVars
  <2> QED BY <1>0, <2>1, <2>2
<1>5. ASSUME NEW a \in Actors, AfterSignal(a) PROVE MutexInvariant'
  <2>1. Mine(a) /\ CallOK(a)
    BY <1>5, <1>m, MineStep DEF SignalStep, CallsInvariant
  <2>2. CASE call[a] \in {"unlock", "sleep"}
    <3>1. HoldsMutex(a) /\ kernel_mutex' = Nobody /\ ~ HoldsMutex(a)' /\ a \in Threads
      BY <1>5, <1>t, <2>1, <2>2 DEF AfterSignal, CallOK, Actors
    <3> QED BY <1>0, <2>1, <3>1
  <2>3. CASE call[a] \in {"wait", "signal"}
    <3>1. kernel_mutex' = kernel_mutex /\ (HoldsMutex(a)' <=> HoldsMutex(a))
      BY <1>5, <1>t, <2>3 DEF AfterSignal
    <3> QED BY <1>0, <2>1, <3>1
  <2>4. call[a] \in {"unlock", "sleep", "wait", "signal"}
    BY <1>5, <1>t, <2>1 DEF AfterSignal, CallOK, Calls
  <2> QED BY <2>2, <2>3, <2>4
<1>6. ASSUME UNCHANGED <<kernel_mutex, pc, call>> PROVE MutexInvariant'
  BY <1>6, <1>m DEF MutexInvariant
<1>7. ASSUME NEW t \in Threads, Timeout(t) PROVE MutexInvariant'
  BY <1>6, <1>7 DEF Timeout, argVars
<1>8. ASSUME Quiescent PROVE MutexInvariant'
  BY <1>6, <1>8 DEF Quiescent, vars, argVars
<1> HIDE DEF HoldsMutex, Releasing, Cv, Go
<1> QED BY <1>1, <1>2, <1>3, <1>4, <1>5, <1>7, <1>8 DEF Next, SignalStep

LEMMA RingLocksStep ==
    ASSUME MonitorInv, Next
    PROVE  RingLocks'
<1>m. TypeOK /\ CallsInvariant /\ RingLocks
  BY DEF MonitorInv
<1>d. \A a \in Actors : a # Nobody
  BY MonitorAssumption
<1>e. \A t \in Threads : t \in Actors
  BY DEF Actors
<1>t. pc \in [Actors -> Places] /\ call \in [Actors -> Calls] /\ on \in [Actors -> CVs]
      /\ waitset_lock \in [CVs -> Actors \cup {Nobody}]
  BY <1>m DEF TypeOK
<1>0. ASSUME NEW a \in Actors, Mine(a),
             \A v \in CVs :
               \/ waitset_lock'[v] = waitset_lock[v] /\ (HoldsRing(a, v)' <=> HoldsRing(a, v))
               \/ waitset_lock[v] = Nobody /\ waitset_lock'[v] = a /\ HoldsRing(a, v)'
               \/ HoldsRing(a, v) /\ waitset_lock'[v] = Nobody /\ ~ HoldsRing(a, v)'
      PROVE  RingLocks'
  <2> SUFFICES ASSUME NEW b \in Actors, NEW v \in CVs
               PROVE  waitset_lock'[v] = b <=> HoldsRing(b, v)'
    BY DEF RingLocks
  <2>1. (waitset_lock[v] = b <=> HoldsRing(b, v)) /\ (waitset_lock[v] = a <=> HoldsRing(a, v))
    BY <1>m DEF RingLocks
  <2>2. CASE b = a
    BY <1>0, <1>d, <2>1, <2>2
  <2>3. CASE b # a
    <3>1. HoldsRing(b, v)' <=> HoldsRing(b, v)
      BY <1>0, <2>3 DEF Mine, HoldsRing, Signals
    <3> QED BY <1>0, <1>d, <2>1, <2>3, <3>1
  <2> QED BY <2>2, <2>3
<1> USE DEF HoldsRing, Signals, Go
<1>1. ASSUME NEW t \in Threads, UserStep(t) PROVE RingLocks'
  <2>1. Mine(t)
    BY <1>1, <1>e, MineStep
  <2>2. waitset_lock' = waitset_lock /\ \A v \in CVs : ~ HoldsRing(t, v) /\ ~ HoldsRing(t, v)'
    BY <1>1, <1>e, <1>t DEF UserStep, kernel_lock, kernel_unlock, kernel_sleep, kernel_wait_wchan,
                            StartCall, ringVars
  <2> QED BY <1>0, <1>e, <2>1, <2>2
<1>2. ASSUME NEW t \in Threads, Step(t) PROVE RingLocks'
  <2>1. Mine(t) /\ CallOK(t)
    BY <1>2, <1>e, <1>m, MineStep DEF CallsInvariant
  <2>2. CASE PushWaiter(t)
    <3>1. \A v \in CVs :
            \/ waitset_lock'[v] = waitset_lock[v] /\ (HoldsRing(t, v)' <=> HoldsRing(t, v))
            \/ waitset_lock[v] = Nobody /\ waitset_lock'[v] = t /\ HoldsRing(t, v)'
      BY <1>e, <1>t, <2>2 DEF PushWaiter, argVars
    <3> QED BY <1>0, <1>e, <2>1, <3>1
  <2>3. CASE sleep_releasing(t)
    <3>1. \A v \in CVs :
            \/ waitset_lock'[v] = waitset_lock[v] /\ (HoldsRing(t, v)' <=> HoldsRing(t, v))
            \/ HoldsRing(t, v) /\ waitset_lock'[v] = Nobody /\ ~ HoldsRing(t, v)'
      BY <1>e, <1>t, <2>3 DEF sleep_releasing, argVars
    <3> QED BY <1>0, <1>e, <2>1, <3>1
  <2>4. CASE LockMutex(t) \/ RelockMutex(t) \/ EnterKernel(t) \/ UnlockMutex(t)
               \/ WaitForSemaphore(t) \/ LeaveRing(t)
    <3>1. waitset_lock' = waitset_lock /\ \A v \in CVs : HoldsRing(t, v)' <=> HoldsRing(t, v)
      BY <1>e, <1>t, <2>4 DEF LockMutex, RelockMutex, EnterKernel, UnlockMutex, WaitForSemaphore,
                              LeaveRing, ringVars, argVars
    <3> QED BY <1>0, <1>e, <2>1, <3>1
  <2> QED BY <1>2, <2>2, <2>3, <2>4 DEF Step
<1>3. ASSUME NEW a \in Actors, NEW v \in Channels, NEW b \in BOOLEAN, kernel_signal(a, v, b)
      PROVE  RingLocks'
  <2>1. Mine(a)
    BY <1>3, MineStep
  <2>2. waitset_lock' = waitset_lock /\ \A x \in CVs : ~ HoldsRing(a, x) /\ ~ HoldsRing(a, x)'
    BY <1>3, <1>t DEF kernel_signal, ringVars
  <2> QED BY <1>0, <2>1, <2>2
<1>4. ASSUME NEW a \in Actors, SignalStep(a) PROVE RingLocks'
  <2>1. Mine(a) /\ CallOK(a)
    BY <1>4, <1>m, MineStep DEF CallsInvariant
  <2>2. CASE LockWaitset(a)
    <3>1. \A v \in CVs :
            \/ waitset_lock'[v] = waitset_lock[v] /\ (HoldsRing(a, v)' <=> HoldsRing(a, v))
            \/ waitset_lock[v] = Nobody /\ waitset_lock'[v] = a /\ HoldsRing(a, v)'
      BY <1>t, <2>2 DEF LockWaitset, argVars
    <3> QED BY <1>0, <2>1, <3>1
  <2>3. CASE cv_signal(a) \/ NoWaiter(a)
    <3>1. waitset_lock' = waitset_lock /\ \A v \in CVs : HoldsRing(a, v)' <=> HoldsRing(a, v)
      BY <1>t, <2>3 DEF cv_signal, NoWaiter, argVars, ringVars
    <3> QED BY <1>0, <2>1, <3>1
  <2>4. CASE AfterSignal(a)
    <3>1. call[a] \in {"unlock", "sleep", "wait", "signal"}
      BY <2>1, <2>4, <1>t DEF AfterSignal, CallOK, Cv, Calls
    <3>2. pc'[a] \in {"user", "gone", "push", "kernel"} /\ on' = on
      BY <1>t, <2>4, <3>1 DEF AfterSignal
    <3>3. \A v \in CVs :
            \/ waitset_lock'[v] = waitset_lock[v] /\ (HoldsRing(a, v)' <=> HoldsRing(a, v))
            \/ HoldsRing(a, v) /\ waitset_lock'[v] = Nobody /\ ~ HoldsRing(a, v)'
      BY <1>t, <2>4, <3>2 DEF AfterSignal
    <3> QED BY <1>0, <2>1, <3>3
  <2> QED BY <1>4, <2>2, <2>3, <2>4 DEF SignalStep
<1>5. ASSUME UNCHANGED <<waitset_lock, pc, call, on>> PROVE RingLocks'
  BY <1>5, <1>m DEF RingLocks
<1>6. ASSUME NEW t \in Threads, Timeout(t) PROVE RingLocks'
  BY <1>5, <1>6 DEF Timeout, argVars, ringVars
<1>7. ASSUME Quiescent PROVE RingLocks'
  BY <1>5, <1>7 DEF Quiescent, vars, argVars, ringVars
<1> HIDE DEF HoldsRing, Signals, Go
<1> QED BY <1>1, <1>2, <1>3, <1>4, <1>6, <1>7 DEF Next

-----------------------------------------------------------------------------
(* The rings.                                                              *)

(* The first waiter of a ring, which cv_signal wakes: the signaller holds  *)
(* the lock of the ring, so that the waiter is past sleep_releasing.       *)
LEMMA HeadOfRing ==
    ASSUME MonitorInv, NEW a \in Actors, cv_signal(a)
    PROVE  LET v == Signals(a)
               w == Head(waitset[v])
           IN  /\ v \in CVs /\ waitset[v] \in Seq(Threads) /\ waitset[v] # << >>
               /\ w \in Threads /\ w \in Actors /\ w # a
               /\ on[w] = v /\ pc[w] = "woken" /\ ~ removed[w]
               /\ state[w] \in {"RUNNING", "STOPPED"}
               /\ pc'[w] = "woken"
<1> DEFINE v == Signals(a)
           w == Head(waitset[v])
<1>1. v \in CVs /\ waitset[v] \in Seq(Threads) /\ waitset[v] # << >> /\ IsInjective(waitset[v])
  BY SignalsCV DEF MonitorInv, TypeOK, RingsInvariant, cv_signal
<1>2. w \in Threads /\ Contains(waitset[v], w)
  BY <1>1, TailMembers
<1>3. InRing(w) /\ on[w] = v /\ w \in Actors
  BY <1>1, <1>2 DEF MonitorInv, RingsInvariant, Actors
<1>4. pc[a] = "cvpop" /\ waitset_lock[v] = a
  BY <1>1 DEF cv_signal, MonitorInv, RingLocks, HoldsRing
<1>5. pc[w] \notin {"unlock", "sleep"}
  <2> SUFFICES ASSUME pc[w] \in {"unlock", "sleep"} PROVE FALSE
    OBVIOUS
  <2>1. waitset_lock[v] = w
    BY <1>1, <1>3 DEF MonitorInv, RingLocks, HoldsRing
  <2> QED BY <1>4, <2>1
<1>6. pc[w] = "woken" /\ ~ removed[w]
  BY <1>3, <1>5 DEF InRing
<1>7. state[w] \in {"RUNNING", "STOPPED"}
  BY <1>2, <1>6 DEF MonitorInv, StatesInvariant, StateOK, TypeOK
<1>8. w # a /\ pc'[w] = "woken"
  BY <1>3, <1>4, <1>6 DEF cv_signal, Go, MonitorInv, TypeOK
<1> QED BY <1>1, <1>2, <1>3, <1>6, <1>7, <1>8

LEMMA StatesStep ==
    ASSUME MonitorInv, Next
    PROVE  StatesInvariant'
<1>m. TypeOK /\ CallsInvariant /\ StatesInvariant
  BY DEF MonitorInv
<1>e. \A t \in Threads : t \in Actors /\ t \notin Devices
  BY MonitorAssumption DEF Actors
<1>t. /\ pc \in [Actors -> Places] /\ removed \in [Threads -> BOOLEAN]
      /\ state \in [Threads -> {"RUNNING", "STOPPED", "EXITED"}]
      /\ call \in [Actors -> Calls]
  BY <1>m DEF TypeOK
<1>0. ASSUME NEW a \in Actors, Mine(a), a \in Threads => StateOK(a)',
             \A u \in Threads \ {a} :
               \/ state'[u] = state[u] /\ removed'[u] = removed[u]
               \/ StateOK(u)'
      PROVE  StatesInvariant'
  <2> SUFFICES ASSUME NEW u \in Threads \ {a},
                      state'[u] = state[u], removed'[u] = removed[u]
               PROVE  StateOK(u)'
    BY <1>0 DEF StatesInvariant
  <2>1. pc'[u] = pc[u] /\ StateOK(u)
    BY <1>0, <1>e, <1>m DEF Mine, StatesInvariant
  <2> QED BY <2>1 DEF StateOK
<1> USE DEF StateOK, Go
<1>1. ASSUME NEW t \in Threads, UserStep(t) PROVE StatesInvariant'
  <2>1. Mine(t) /\ StateOK(t)
    BY <1>1, <1>e, <1>m, MineStep DEF StatesInvariant
  <2>2. UNCHANGED <<state, removed>> /\ StateOK(t)'
    BY <1>1, <1>e, <1>t, <2>1 DEF UserStep, kernel_lock, kernel_unlock, kernel_sleep, kernel_wait_wchan,
                            StartCall, waiterVars
  <2> QED BY <1>0, <1>e, <2>1, <2>2
<1>2. ASSUME NEW t \in Threads, Step(t) PROVE StatesInvariant'
  <2>1. Mine(t) /\ StateOK(t)
    BY <1>2, <1>e, <1>m, MineStep DEF StatesInvariant
  <2>2. CASE LockMutex(t) \/ EnterKernel(t) \/ WaitForSemaphore(t) \/ UnlockMutex(t) \/ LeaveRing(t)
               \/ RelockMutex(t)
    <3>1. UNCHANGED <<state, removed>>
      BY <2>2 DEF LockMutex, EnterKernel, WaitForSemaphore, UnlockMutex, LeaveRing, RelockMutex, waiterVars
    <3>2. StateOK(t)'
      BY <1>e, <1>t, <2>1, <2>2, <3>1
         DEF LockMutex, EnterKernel, WaitForSemaphore, UnlockMutex, LeaveRing, RelockMutex
    <3> QED BY <1>0, <1>e, <2>1, <3>1, <3>2
  <2>3. CASE PushWaiter(t) \/ sleep_releasing(t)
    <3>1. StateOK(t)' /\ \A u \in Threads \ {t} : state'[u] = state[u] /\ removed'[u] = removed[u]
      BY <1>e, <1>t, <2>1, <2>3 DEF PushWaiter, sleep_releasing, waiterVars
    <3> QED BY <1>0, <1>e, <2>1, <3>1
  <2> QED BY <1>2, <2>2, <2>3 DEF Step
<1>3. ASSUME NEW a \in Actors, NEW v \in Channels, NEW b \in BOOLEAN, kernel_signal(a, v, b)
      PROVE  StatesInvariant'
  <2>1. Mine(a) /\ (a \in Threads => StateOK(a))
    BY <1>3, <1>m, MineStep DEF StatesInvariant
  <2>2. UNCHANGED <<state, removed>> /\ (a \in Threads => StateOK(a)')
    BY <1>3, <1>t, <2>1 DEF kernel_signal, waiterVars
  <2> QED BY <1>0, <2>1, <2>2
<1>4. ASSUME NEW a \in Actors, SignalStep(a) PROVE StatesInvariant'
  <2>1. Mine(a) /\ (a \in Threads => StateOK(a)) /\ CallOK(a)
    BY <1>4, <1>m, MineStep DEF StatesInvariant, CallsInvariant
  <2>2. CASE LockWaitset(a) \/ NoWaiter(a)
    <3>1. UNCHANGED <<state, removed>> /\ (a \in Threads => StateOK(a)')
      BY <1>t, <2>1, <2>2 DEF LockWaitset, NoWaiter, waiterVars
    <3> QED BY <1>0, <2>1, <3>1
  <2>3. CASE cv_signal(a)
    <3>0. PICK w \in Threads : w = Head(waitset[Signals(a)])
      BY <2>3, HeadOfRing
    <3>1. /\ w \in Threads /\ w # a /\ state[w] \in {"RUNNING", "STOPPED"}
          /\ pc[w] = "woken" /\ pc'[w] = "woken"
      BY <2>3, <3>0, HeadOfRing
    <3>2. /\ state' = [state EXCEPT ![w] = IF state[w] = "STOPPED" THEN "RUNNING" ELSE state[w]]
          /\ removed' = [removed EXCEPT ![w] = TRUE]
          /\ pc'[a] \in {"cvpop", "cvdone"} /\ pc[a] = "cvpop"
      BY <1>t, <2>3, <3>0 DEF cv_signal
    <3>3. StateOK(w)'
      BY <1>t, <3>1, <3>2
    <3>4. \A u \in Threads \ {w} : state'[u] = state[u] /\ removed'[u] = removed[u]
      BY <1>t, <3>1, <3>2
    <3>5. a \in Threads => StateOK(a)'
      BY <2>1, <3>1, <3>2, <3>4
    <3> QED BY <1>0, <2>1, <3>3, <3>4, <3>5
  <2>4. CASE AfterSignal(a)
    <3>1. call[a] \in {"unlock", "sleep", "wait", "signal"} /\ (call[a] = "sleep" => a \notin Devices)
      BY <2>1, <2>4, <1>t DEF AfterSignal, CallOK, Cv, Calls
    <3>2. \A u \in Threads \ {a} : state'[u] = state[u] /\ removed'[u] = removed[u]
      BY <1>t, <2>4, <3>1 DEF AfterSignal, waiterVars
    <3>3. a \in Threads => StateOK(a)'
      BY <1>t, <2>1, <2>4, <3>1 DEF AfterSignal, waiterVars
    <3> QED BY <1>0, <2>1, <3>2, <3>3
  <2> QED BY <1>4, <2>2, <2>3, <2>4 DEF SignalStep
<1>5. ASSUME NEW t \in Threads, Timeout(t) PROVE StatesInvariant'
  <2>1. Mine(t) /\ StateOK(t)
    BY <1>5, <1>m DEF Timeout, Mine, argVars, StatesInvariant
  <2>2. StateOK(t)' /\ \A u \in Threads \ {t} : state'[u] = state[u] /\ removed'[u] = removed[u]
    BY <1>5, <1>t, <2>1 DEF Timeout, waiterVars
  <2> QED BY <1>0, <1>e, <2>1, <2>2
<1>6. ASSUME Quiescent PROVE StatesInvariant'
  BY <1>6, <1>m DEF Quiescent, vars, waiterVars, StatesInvariant
<1> HIDE DEF StateOK, Go
<1> QED BY <1>1, <1>2, <1>3, <1>4, <1>5, <1>6 DEF Next

(* A thread in the ring of v before sleep_releasing holds its lock.        *)
LEMMA LockedRing ==
    ASSUME MonitorInv, NEW t \in Threads, pc[t] \in {"unlock", "sleep"}
    PROVE  on[t] \in CVs /\ waitset_lock[on[t]] = t /\ t # Nobody
  BY MonitorAssumption DEF MonitorInv, RingLocks, HoldsRing, TypeOK, Actors

LEMMA RingsStep ==
    ASSUME MonitorInv, Next
    PROVE  RingsInvariant'
<1>m. TypeOK /\ CallsInvariant /\ StatesInvariant /\ RingLocks /\ RingsInvariant
  BY DEF MonitorInv
<1>e. \A t \in Threads : t \in Actors /\ t \notin Devices
  BY MonitorAssumption DEF Actors
<1>t. /\ pc \in [Actors -> Places] /\ removed \in [Threads -> BOOLEAN]
      /\ signalled \in [Threads -> BOOLEAN] /\ waitset \in [CVs -> Seq(Threads)]
      /\ call \in [Actors -> Calls] /\ on \in [Actors -> CVs]
  BY <1>m DEF TypeOK
<1>0. ASSUME NEW a \in Actors, Mine(a), UNCHANGED <<waitset, signalled, removed>>,
             a \in Threads => /\ InRing(a)' <=> InRing(a)
                              /\ InRing(a) => on'[a] = on[a]
                              /\ pc'[a] \in {"unlock", "sleep"} => pc[a] \in {"unlock", "sleep"}
      PROVE  RingsInvariant'
  <2>1. ASSUME NEW t \in Threads
        PROVE  /\ InRing(t)' <=> InRing(t)
               /\ InRing(t) => on'[t] = on[t]
               /\ pc'[t] \in {"unlock", "sleep"} => pc[t] \in {"unlock", "sleep"}
    <3>1. CASE t = a
      BY <1>0, <3>1
    <3>2. CASE t # a
      BY <1>0, <1>e, <3>2 DEF Mine, InRing
    <3> QED BY <3>1, <3>2
  <2>2. \A v \in CVs : IsInjective(waitset'[v])
    BY <1>0, <1>m DEF RingsInvariant
  <2>3. \A v \in CVs, t \in Threads : Contains(waitset'[v], t) <=> InRing(t)' /\ on'[t] = v
    BY <1>0, <1>m, <2>1 DEF RingsInvariant
  <2>4. \A t \in Threads : InRing(t)' => ~ signalled'[t]
    BY <1>0, <1>m, <2>1 DEF RingsInvariant
  <2>5. \A t \in Threads :
          pc'[t] \in {"unlock", "sleep"} => waitset'[on'[t]][Len(waitset'[on'[t]])] = t
    <3> SUFFICES ASSUME NEW t \in Threads, pc'[t] \in {"unlock", "sleep"}
                 PROVE  waitset'[on'[t]][Len(waitset'[on'[t]])] = t
      OBVIOUS
    <3>1. pc[t] \in {"unlock", "sleep"} /\ on'[t] = on[t]
      BY <2>1 DEF InRing
    <3> QED BY <1>0, <1>m, <3>1 DEF RingsInvariant
  <2> QED BY <2>2, <2>3, <2>4, <2>5 DEF RingsInvariant
<1> USE DEF Go
<1>1. ASSUME NEW t \in Threads, UserStep(t) PROVE RingsInvariant'
  <2>1. Mine(t)
    BY <1>1, <1>e, MineStep
  <2>2. /\ UNCHANGED <<waitset, signalled, removed>>
        /\ pc[t] \in {"user", "kernel"} /\ pc'[t] = "mutex"
    BY <1>1, <1>e, <1>t DEF UserStep, kernel_lock, kernel_unlock, kernel_sleep, kernel_wait_wchan,
                            StartCall, waiterVars, ringVars
  <2> QED BY <1>0, <1>e, <2>1, <2>2 DEF InRing
<1>2. ASSUME NEW t \in Threads, Step(t), ~ PushWaiter(t), ~ LeaveRing(t) PROVE RingsInvariant'
  <2>1. Mine(t) /\ StateOK(t)
    BY <1>2, <1>e, <1>m, MineStep DEF StatesInvariant
  <2>2. CASE LockMutex(t) \/ EnterKernel(t) \/ WaitForSemaphore(t) \/ RelockMutex(t)
    <3>1. UNCHANGED <<waitset, signalled, removed>>
      BY <2>2 DEF LockMutex, EnterKernel, WaitForSemaphore, RelockMutex, waiterVars, ringVars
    <3>2. /\ pc[t] \in {"mutex", "test", "relock"}
          /\ pc'[t] \in {"test", "cvlock", "kernel", "push"}
      BY <1>e, <1>t, <2>2 DEF LockMutex, EnterKernel, WaitForSemaphore, RelockMutex
    <3> QED BY <1>0, <1>e, <2>1, <3>1, <3>2 DEF InRing
  <2>3. CASE UnlockMutex(t) \/ sleep_releasing(t)
    <3>1. UNCHANGED <<waitset, signalled, removed, on>>
      BY <2>3 DEF UnlockMutex, sleep_releasing, waiterVars, ringVars, argVars
    <3>2. /\ pc[t] \in {"unlock", "sleep"}
          /\ pc'[t] \in {"sleep", "woken"}
      BY <1>e, <1>t, <2>3 DEF UnlockMutex, sleep_releasing
    <3> QED BY <1>0, <1>e, <2>1, <3>1, <3>2 DEF InRing, StateOK
  <2> QED BY <1>2, <2>2, <2>3 DEF Step
<1>3. ASSUME NEW t \in Threads, PushWaiter(t) PROVE RingsInvariant'
  <2> DEFINE x == on[t]
             q == waitset[x]
             r == Append(q, t)
  <2>1. /\ x \in CVs /\ q \in Seq(Threads) /\ IsInjective(q) /\ pc[t] = "push" /\ pc'[t] = "unlock"
        /\ on' = on /\ waitset_lock[x] = Nobody
    BY <1>3, <1>e, <1>m, <1>t DEF PushWaiter, argVars, RingsInvariant
  <2>2. ~ InRing(t) /\ InRing(t)'
    BY <2>1 DEF InRing
  <2>3. ~ Contains(q, t)
    BY <1>m, <2>1, <2>2 DEF RingsInvariant
  <2>4. IsInjective(r) /\ \A u : Contains(r, u) <=> Contains(q, u) \/ u = t
    BY <2>1, <2>3, AppendMembers
  <2>5. r[Len(r)] = t
    BY <2>1
  <2>6. waitset'[x] = r /\ \A v \in CVs \ {x} : waitset'[v] = waitset[v]
    BY <1>3, <1>t, <2>1 DEF PushWaiter
  <2>7. /\ ~ signalled'[t] /\ Mine(t)
        /\ \A u \in Threads \ {t} : signalled'[u] = signalled[u] /\ removed'[u] = removed[u]
    BY <1>3, <1>e, <1>t, MineStep DEF PushWaiter, Step
  <2>8. \A u \in Threads \ {t} : (InRing(u)' <=> InRing(u)) /\ pc'[u] = pc[u]
    BY <1>e, <2>7 DEF InRing, Mine
  <2> HIDE DEF q, r, x
  <2>9. \A v \in CVs : IsInjective(waitset'[v])
    BY <1>m, <2>4, <2>6 DEF RingsInvariant
  <2>10. ASSUME NEW v \in CVs, NEW u \in Threads
         PROVE  Contains(waitset'[v], u) <=> InRing(u)' /\ on'[u] = v
    <3>1. Contains(waitset[v], u) <=> InRing(u) /\ on[u] = v
      BY <1>m DEF RingsInvariant
    <3>2. CASE u = t
      BY <2>1, <2>2, <2>4, <2>6, <3>1, <3>2 DEF x
    <3>3. CASE u # t
      BY <2>1, <2>4, <2>6, <2>8, <3>1, <3>3 DEF q
    <3> QED BY <3>2, <3>3
  <2>11. \A u \in Threads : InRing(u)' => ~ signalled'[u]
    BY <1>m, <2>7, <2>8 DEF RingsInvariant
  <2>12. ASSUME NEW u \in Threads, pc'[u] \in {"unlock", "sleep"}
         PROVE  waitset'[on'[u]][Len(waitset'[on'[u]])] = u
    <3>1. CASE u = t
      BY <2>1, <2>5, <2>6, <3>1 DEF x
    <3>2. CASE u # t
      <4>1. pc[u] \in {"unlock", "sleep"}
        BY <2>8, <2>12, <3>2
      <4>2. on[u] # x /\ on[u] \in CVs
        BY <2>1, <4>1, LockedRing
      <4>3. waitset'[on'[u]] = waitset[on[u]]
        BY <2>1, <2>6, <4>2
      <4> QED BY <1>m, <4>1, <4>3 DEF RingsInvariant
    <3> QED BY <3>1, <3>2
  <2> QED BY <2>9, <2>10, <2>11, <2>12 DEF RingsInvariant
<1>4. ASSUME NEW t \in Threads, LeaveRing(t) PROVE RingsInvariant'
  <2>0. Mine(t)
    BY <1>4, <1>e, MineStep DEF Step
  <2>1. /\ on[t] \in CVs /\ pc[t] = "woken" /\ pc'[t] = "relock" /\ on' = on
        /\ waitset_lock[on[t]] = Nobody /\ UNCHANGED <<signalled, removed>>
    BY <1>4, <1>e, <1>t DEF LeaveRing, argVars, waiterVars
  <2>2. ~ InRing(t)'
    BY <2>1 DEF InRing
  <2>3. CASE removed[t]
    <3>1. ~ InRing(t) /\ waitset' = waitset
      BY <1>4, <2>1, <2>3 DEF InRing, LeaveRing
    <3> QED BY <1>0, <1>e, <2>0, <2>1, <2>2, <3>1
  <2>4. CASE ~ removed[t]
    <3> DEFINE x == on[t]
               r == RingWithout(t, x)
    <3>1. Contains(waitset[x], t)
      BY <1>m, <2>1, <2>4 DEF InRing, RingsInvariant
    <3>2. IsInjective(r) /\ \A u : Contains(r, u) <=> Contains(waitset[x], u) /\ u # t
      BY <1>m, <2>1, <3>1, RingWithoutMembers
    <3>3. waitset'[x] = r /\ \A v \in CVs \ {x} : waitset'[v] = waitset[v]
      BY <1>4, <1>t, <2>1, <2>4 DEF LeaveRing
    <3>4. \A u \in Threads \ {t} : (InRing(u)' <=> InRing(u)) /\ pc'[u] = pc[u]
      BY <1>e, <2>0, <2>1 DEF InRing, Mine
    <3>x. x \in CVs /\ waitset_lock[x] = Nobody /\ x = on[t]
      BY <2>1
    <3> HIDE DEF r, x
    <3>5. \A v \in CVs : IsInjective(waitset'[v])
      BY <1>m, <3>2, <3>3 DEF RingsInvariant
    <3>6. ASSUME NEW v \in CVs, NEW u \in Threads
          PROVE  Contains(waitset'[v], u) <=> InRing(u)' /\ on'[u] = v
      <4>1. Contains(waitset[v], u) <=> InRing(u) /\ on[u] = v
        BY <1>m DEF RingsInvariant
      <4>2. CASE u = t
        BY <2>1, <2>2, <3>2, <3>3, <3>x, <4>1, <4>2
      <4>3. CASE u # t
        BY <2>1, <3>2, <3>3, <3>4, <4>1, <4>3
      <4> QED BY <4>2, <4>3
    <3>7. \A u \in Threads : InRing(u)' => ~ signalled'[u]
      BY <1>m, <2>1, <2>2, <3>4 DEF RingsInvariant
    <3>8. ASSUME NEW u \in Threads, pc'[u] \in {"unlock", "sleep"}
          PROVE  waitset'[on'[u]][Len(waitset'[on'[u]])] = u
      <4>1. u # t /\ pc[u] \in {"unlock", "sleep"}
        BY <2>1, <3>4, <3>8
      <4>2. on[u] # x /\ on[u] \in CVs
        BY <3>x, <4>1, LockedRing
      <4>3. waitset'[on'[u]] = waitset[on[u]]
        BY <2>1, <3>3, <4>2
      <4> QED BY <1>m, <4>1, <4>3 DEF RingsInvariant
    <3> QED BY <3>5, <3>6, <3>7, <3>8 DEF RingsInvariant
  <2> QED BY <2>3, <2>4
<1>5. ASSUME NEW a \in Actors, NEW v \in Channels, NEW b \in BOOLEAN, kernel_signal(a, v, b)
      PROVE  RingsInvariant'
  <2>1. Mine(a)
    BY <1>5, MineStep
  <2>2. /\ UNCHANGED <<waitset, signalled, removed>>
        /\ pc[a] \in {"kernel", "user"} /\ pc'[a] = "cvlock"
    BY <1>5, <1>t DEF kernel_signal, waiterVars, ringVars
  <2> QED BY <1>0, <2>1, <2>2 DEF InRing
<1>6. ASSUME NEW a \in Actors, LockWaitset(a) \/ NoWaiter(a) \/ AfterSignal(a) PROVE RingsInvariant'
  <2>1. Mine(a) /\ CallOK(a)
    BY <1>6, <1>m, MineStep DEF CallsInvariant, SignalStep
  <2>2. UNCHANGED <<waitset, signalled, removed>>
    BY <1>6 DEF LockWaitset, NoWaiter, AfterSignal, waiterVars, ringVars
  <2>3. AfterSignal(a) => call[a] \in {"unlock", "sleep", "wait", "signal"}
    BY <2>1, <1>t DEF AfterSignal, CallOK, Cv, Calls
  <2>4. pc[a] \in Cv /\ pc'[a] \in Cv \cup {"user", "gone", "kernel", "push"}
    BY <1>6, <1>t, <2>3 DEF LockWaitset, NoWaiter, AfterSignal, Cv
  <2> QED BY <1>0, <2>1, <2>2, <2>4 DEF InRing, Cv
<1>7. ASSUME NEW a \in Actors, cv_signal(a) PROVE RingsInvariant'
  <2> DEFINE x == Signals(a)
             q == waitset[x]
  <2>w. PICK w \in Threads : w = Head(q)
    BY <1>7, HeadOfRing
  <2>0. Mine(a)
    BY <1>7, MineStep DEF SignalStep
  <2>1. /\ x \in CVs /\ q \in Seq(Threads) /\ q # << >>
        /\ w \in Threads /\ w # a /\ on[w] = x /\ pc[w] = "woken" /\ pc'[w] = "woken"
    BY <1>7, <2>w, HeadOfRing
  <2>2. IsInjective(q)
    BY <1>m, <2>1 DEF RingsInvariant
  <2>3. IsInjective(Tail(q)) /\ \A u : Contains(Tail(q), u) <=> Contains(q, u) /\ u # w
    BY <2>1, <2>2, <2>w, TailMembers
  <2>4. waitset'[x] = Tail(q) /\ \A v \in CVs \ {x} : waitset'[v] = waitset[v]
    BY <1>7, <1>t, <2>1 DEF cv_signal
  <2>5. /\ removed' = [removed EXCEPT ![w] = TRUE] /\ on' = on
        /\ \A u \in Threads \ {w} : signalled'[u] = signalled[u]
        /\ pc[a] = "cvpop" /\ pc'[a] \in {"cvpop", "cvdone"}
    BY <1>7, <1>t, <2>w DEF cv_signal, argVars
  <2>6. ~ InRing(w)' /\ InRing(w) /\ on'[w] = x
    <3>1. Contains(q, w)
      BY <2>1, <2>2, <2>w, TailMembers
    <3>2. InRing(w)
      BY <1>m, <2>1, <3>1 DEF RingsInvariant
    <3>3. removed'[w]
      BY <1>t, <2>1, <2>5
    <3> QED BY <2>1, <2>5, <3>2, <3>3 DEF InRing
  <2>7. waitset_lock[x] = a
    BY <1>m, <2>1, <2>5 DEF RingLocks, HoldsRing
  <2> HIDE DEF q, x
  <2>8. ASSUME NEW u \in Threads \ {w}
        PROVE  /\ InRing(u)' <=> InRing(u)
               /\ pc'[u] \in {"unlock", "sleep"} => pc[u] \in {"unlock", "sleep"}
    <3>1. removed'[u] = removed[u]
      BY <1>t, <2>5
    <3>2. CASE u = a
      BY <2>5, <3>2 DEF InRing
    <3>3. CASE u # a
      <4>1. pc'[u] = pc[u]
        BY <1>e, <2>0, <3>3 DEF Mine
      <4> QED BY <3>1, <4>1 DEF InRing
    <3> QED BY <3>2, <3>3
  <2>9. \A v \in CVs : IsInjective(waitset'[v])
    BY <1>m, <2>3, <2>4 DEF RingsInvariant
  <2>10. ASSUME NEW v \in CVs, NEW u \in Threads
         PROVE  Contains(waitset'[v], u) <=> InRing(u)' /\ on'[u] = v
    <3>1. Contains(waitset[v], u) <=> InRing(u) /\ on[u] = v
      BY <1>m DEF RingsInvariant
    <3>2. CASE u = w
      BY <2>1, <2>3, <2>4, <2>6, <3>1, <3>2
    <3>3. CASE u # w
      <4>1. (InRing(u)' <=> InRing(u)) /\ on'[u] = on[u]
        BY <2>5, <2>8, <3>3
      <4>2. Contains(waitset'[v], u) <=> Contains(waitset[v], u)
        BY <2>3, <2>4, <3>3 DEF q
      <4> QED BY <3>1, <4>1, <4>2
    <3> QED BY <3>2, <3>3
  <2>11. \A u \in Threads : InRing(u)' => ~ signalled'[u]
    BY <1>m, <2>5, <2>6, <2>8 DEF RingsInvariant
  <2>12. ASSUME NEW u \in Threads, pc'[u] \in {"unlock", "sleep"}
         PROVE  waitset'[on'[u]][Len(waitset'[on'[u]])] = u
    <3>1. u # w /\ pc[u] \in {"unlock", "sleep"}
      BY <2>1, <2>8, <2>12
    <3>2. waitset_lock[on[u]] = u /\ on[u] \in CVs /\ u # a
      BY <2>5, <3>1, LockedRing
    <3>3. on[u] # x
      BY <2>7, <3>2
    <3>4. waitset'[on'[u]] = waitset[on[u]]
      BY <2>4, <2>5, <3>2, <3>3
    <3> QED BY <1>m, <3>1, <3>4 DEF RingsInvariant
  <2> QED BY <2>9, <2>10, <2>11, <2>12 DEF RingsInvariant
<1>8. ASSUME UNCHANGED <<waitset, signalled, removed, pc, on>> PROVE RingsInvariant'
  BY <1>8, <1>m DEF RingsInvariant, InRing
<1>9. ASSUME NEW t \in Threads, Timeout(t) PROVE RingsInvariant'
  BY <1>8, <1>9 DEF Timeout, argVars, ringVars, waiterVars
<1>10. ASSUME Quiescent PROVE RingsInvariant'
  BY <1>8, <1>10 DEF Quiescent, vars, argVars, ringVars, waiterVars
<1> HIDE DEF Go
<1> QED BY <1>1, <1>2, <1>3, <1>4, <1>5, <1>6, <1>7, <1>9, <1>10 DEF Next, SignalStep

-----------------------------------------------------------------------------
(* The semaphore.                                                          *)

LEMMA ExclusionStep ==
    ASSUME MonitorInv, Next
    PROVE  KernelExclusion'
<1>m. TypeOK /\ CallsInvariant /\ KernelExclusion
  BY DEF MonitorInv
<1>e. \A t \in Threads : t \in Actors /\ t \notin Devices /\ CallOK(t)
  BY <1>m, MonitorAssumption DEF Actors, CallsInvariant
<1>t. pc \in [Actors -> Places] /\ call \in [Actors -> Calls] /\ kernel_sem \in {0, 1}
  BY <1>m DEF TypeOK
<1>k. /\ \A t, u \in Threads : HoldsSemaphore(t) /\ HoldsSemaphore(u) => t = u
      /\ kernel_sem = 0 <=> \E t \in Threads : HoldsSemaphore(t)
  BY <1>m DEF KernelExclusion
<1>0. ASSUME NEW a \in Actors, Mine(a)
      PROVE  \A u \in Threads \ {a} : HoldsSemaphore(u)' <=> HoldsSemaphore(u)
  BY <1>0, <1>e DEF Mine, HoldsSemaphore, Releasing
<1>s. ASSUME NEW a \in Actors, Mine(a), kernel_sem' = kernel_sem,
             a \in Threads => (HoldsSemaphore(a)' <=> HoldsSemaphore(a))
      PROVE  KernelExclusion'
  <2>1. \A u \in Threads : HoldsSemaphore(u)' <=> HoldsSemaphore(u)
    BY <1>s, <1>0
  <2> QED BY <1>s, <1>k, <2>1 DEF KernelExclusion
<1> USE DEF HoldsSemaphore, Releasing, Go
<1>1. ASSUME NEW t \in Threads, UserStep(t) PROVE KernelExclusion'
  <2>1. Mine(t)
    BY <1>1, <1>e, MineStep
  <2>2. kernel_sem' = kernel_sem /\ (HoldsSemaphore(t)' <=> HoldsSemaphore(t))
    BY <1>1, <1>e, <1>t
       DEF UserStep, kernel_lock, kernel_unlock, kernel_sleep, kernel_wait_wchan, StartCall, CallOK
  <2> QED BY <1>s, <1>e, <2>1, <2>2
<1>2. ASSUME NEW t \in Threads, LockMutex(t) PROVE KernelExclusion'
  <2>1. Mine(t)
    BY <1>2, <1>e, MineStep DEF Step
  <2>2. CASE call[t] = "lock"
    <3>1. kernel_sem' = kernel_sem /\ ~ HoldsSemaphore(t)' /\ ~ HoldsSemaphore(t)
      BY <1>2, <1>e, <1>t, <2>2 DEF LockMutex, argVars
    <3> QED BY <1>s, <1>e, <2>1, <3>1
  <2>3. CASE call[t] # "lock"
    <3>1. HoldsSemaphore(t) /\ kernel_sem' = kernel_sem + 1 /\ ~ HoldsSemaphore(t)'
      BY <1>2, <1>e, <1>t, <2>3 DEF LockMutex, argVars, CallOK, Calls
    <3>2. kernel_sem' = 1
      BY <1>k, <3>1
    <3>3. \A u \in Threads : ~ HoldsSemaphore(u)'
      BY <1>k, <1>0, <1>e, <2>1, <3>1
    <3> QED BY <3>2, <3>3 DEF KernelExclusion
  <2> QED BY <2>2, <2>3
<1>3. ASSUME NEW t \in Threads, EnterKernel(t) PROVE KernelExclusion'
  <2>1. Mine(t)
    BY <1>3, <1>e, MineStep DEF Step
  <2>2. kernel_sem = 1 /\ kernel_sem' = 0 /\ HoldsSemaphore(t)'
    BY <1>3, <1>e, <1>t DEF EnterKernel, SemaphoreFree
  <2>3. \A u \in Threads \ {t} : ~ HoldsSemaphore(u)'
    BY <1>k, <1>0, <1>e, <2>1, <2>2
  <2> QED BY <2>2, <2>3 DEF KernelExclusion
<1>4. ASSUME NEW t \in Threads, Step(t), ~ LockMutex(t), ~ EnterKernel(t) PROVE KernelExclusion'
  <2>1. Mine(t)
    BY <1>4, <1>e, MineStep
  <2>2. kernel_sem' = kernel_sem /\ pc[t] \in Wait \cup {"test"} /\ pc'[t] \in Wait \cup {"test"}
    BY <1>4, <1>e, <1>t DEF Step, WaitForSemaphore, PushWaiter, UnlockMutex, sleep_releasing, LeaveRing,
                            RelockMutex, Wait
  <2>3. call'[t] \in {call[t], "lock"}
    BY <1>4, <1>e, <1>t DEF Step, WaitForSemaphore, PushWaiter, UnlockMutex, sleep_releasing, LeaveRing,
                            RelockMutex, argVars
  <2>4. ~ HoldsSemaphore(t) /\ ~ HoldsSemaphore(t)'
    BY <1>e, <2>2, <2>3 DEF CallOK, Wait
  <2> QED BY <1>s, <1>e, <2>1, <2>2, <2>4
<1>5. ASSUME NEW a \in Actors, NEW v \in Channels, NEW b \in BOOLEAN, kernel_signal(a, v, b)
      PROVE  KernelExclusion'
  <2>1. Mine(a)
    BY <1>5, MineStep
  <2>2. kernel_sem' = kernel_sem /\ (a \in Threads => HoldsSemaphore(a) /\ HoldsSemaphore(a)')
    BY <1>5, <1>t DEF kernel_signal
  <2> QED BY <1>s, <2>1, <2>2
<1>6. ASSUME NEW a \in Actors, SignalStep(a) PROVE KernelExclusion'
  <2>1. Mine(a) /\ CallOK(a)
    BY <1>6, <1>m, MineStep DEF CallsInvariant
  <2>2. CASE LockWaitset(a) \/ cv_signal(a) \/ NoWaiter(a)
    <3>1. kernel_sem' = kernel_sem /\ call' = call /\ pc[a] \in Cv /\ pc'[a] \in Cv
      BY <1>t, <2>2 DEF LockWaitset, cv_signal, NoWaiter, argVars, Cv
    <3> QED BY <1>s, <2>1, <3>1 DEF Cv
  <2>3. CASE AfterSignal(a)
    <3>1. call[a] \in {"unlock", "sleep", "wait", "signal"}
      BY <1>t, <2>1, <2>3 DEF AfterSignal, CallOK, Cv, Calls
    <3>2. kernel_sem' = kernel_sem /\ (a \in Threads => (HoldsSemaphore(a)' <=> HoldsSemaphore(a)))
      BY <1>t, <2>3, <3>1 DEF AfterSignal
    <3> QED BY <1>s, <2>1, <3>2
  <2> QED BY <1>6, <2>2, <2>3 DEF SignalStep
<1>7. ASSUME UNCHANGED <<kernel_sem, pc, call>> PROVE KernelExclusion'
  BY <1>7, <1>k DEF KernelExclusion
<1>8. ASSUME NEW t \in Threads, Timeout(t) PROVE KernelExclusion'
  BY <1>7, <1>8 DEF Timeout, argVars
<1>9. ASSUME Quiescent PROVE KernelExclusion'
  BY <1>7, <1>9 DEF Quiescent, vars, argVars
<1> HIDE DEF HoldsSemaphore, Releasing, Go
<1> QED BY <1>1, <1>2, <1>3, <1>4, <1>5, <1>6, <1>8, <1>9 DEF Next

(* The signal of the semaphore is not lost.                                *)
LEMMA WakeupStep ==
    ASSUME MonitorInv, Next
    PROVE  WakeupInvariant'
<1>m. TypeOK /\ CallsInvariant /\ MutexInvariant /\ StatesInvariant /\ RingsInvariant /\ WakeupInvariant
  BY DEF MonitorInv
<1>e. \A t \in Threads : t \in Actors /\ t \notin Devices /\ CallOK(t) /\ StateOK(t) /\ t # Nobody
  BY <1>m, MonitorAssumption DEF Actors, CallsInvariant, StatesInvariant
<1>t. /\ pc \in [Actors -> Places] /\ call \in [Actors -> Calls] /\ on \in [Actors -> CVs]
      /\ kernel_sem \in {0, 1} /\ state \in [Threads -> {"RUNNING", "STOPPED", "EXITED"}]
  BY <1>m DEF TypeOK
<1> DEFINE Decided(t) == pc[t] \in {"push", "unlock"} /\ call[t] = "lock"
<1>w. /\ \A t \in Threads : Decided(t) => kernel_sem = 0
      /\ kernel_sem = 1 /\ (\E t \in Threads : Sleeper(t)) => \E t \in Threads : WillTest(t)
  BY <1>m DEF WakeupInvariant
<1>g. ASSUME \A t \in Threads : Decided(t)' => kernel_sem' = 0,
             kernel_sem' = 1 /\ (\E t \in Threads : Sleeper(t)') => \E t \in Threads : WillTest(t)'
      PROVE  WakeupInvariant'
  BY <1>g DEF WakeupInvariant
(* A step of a that leaves the semaphore and the states of the others.     *)
<1>s. ASSUME NEW a \in Actors, Mine(a), kernel_sem' = kernel_sem,
             \A u \in Threads \ {a} : state'[u] = state[u],
             a \in Threads => /\ Decided(a)' => Decided(a)
                              /\ Sleeper(a)' => Sleeper(a)
                              /\ WillTest(a) => WillTest(a)'
      PROVE  WakeupInvariant'
  <2>1. ASSUME NEW u \in Threads
        PROVE  (Decided(u)' => Decided(u)) /\ (Sleeper(u)' => Sleeper(u)) /\ (WillTest(u) => WillTest(u)')
    <3>1. CASE u = a
      BY <1>s, <3>1
    <3>2. CASE u # a
      BY <1>s, <1>e, <3>2 DEF Mine, Sleeper, WillTest, Releasing
    <3> QED BY <3>1, <3>2
  <2> HIDE DEF Decided
  <2>2. \A t \in Threads : Decided(t)' => kernel_sem' = 0
    BY <1>s, <1>w, <2>1
  <2>3. kernel_sem' = 1 /\ (\E t \in Threads : Sleeper(t)') => \E t \in Threads : WillTest(t)'
    BY <1>s, <1>w, <2>1
  <2> QED BY <1>g, <2>2, <2>3
<1>1. ASSUME NEW t \in Threads, UserStep(t) PROVE WakeupInvariant'
  <2>1. Mine(t)
    BY <1>1, <1>e, MineStep
  <2>2. /\ kernel_sem' = kernel_sem /\ state' = state
        /\ pc[t] \in {"user", "kernel"} /\ pc'[t] = "mutex"
    BY <1>1, <1>e, <1>t
       DEF UserStep, kernel_lock, kernel_unlock, kernel_sleep, kernel_wait_wchan, StartCall, Go
  <2>3. ~ Decided(t)' /\ ~ Sleeper(t)' /\ WillTest(t)'
    BY <1>e, <2>2 DEF Sleeper, WillTest, StateOK
  <2> QED BY <1>s, <1>e, <2>1, <2>2, <2>3
<1>2. ASSUME NEW t \in Threads, LockMutex(t) PROVE WakeupInvariant'
  <2>1. Mine(t) /\ kernel_mutex = Nobody
    BY <1>2, <1>e, MineStep DEF Step, LockMutex
  <2>2. \A u \in Threads : ~ HoldsMutex(u)
    BY <1>e, <1>m, <2>1 DEF MutexInvariant
  <2>3. pc'[t] \in {"test", "cvlock"} /\ call' = call /\ (pc'[t] = "cvlock" => Releasing(t))
    BY <1>2, <1>e, <1>t DEF LockMutex, Go, argVars, Releasing, CallOK, Calls
  <2>4. WillTest(t)' /\ ~ Decided(t)'
    BY <2>3 DEF WillTest, Releasing
  <2>5. \A u \in Threads \ {t} : ~ Decided(u)'
    BY <1>e, <2>1, <2>2 DEF Mine, HoldsMutex
  <2> HIDE DEF Decided
  <2> QED BY <1>g, <2>4, <2>5
<1>3. ASSUME NEW t \in Threads, EnterKernel(t) PROVE WakeupInvariant'
  <2>1. kernel_sem' = 0
    BY <1>3, <1>t DEF EnterKernel, SemaphoreFree
  <2> HIDE DEF Decided
  <2> QED BY <1>g, <2>1
<1>4. ASSUME NEW t \in Threads, WaitForSemaphore(t) PROVE WakeupInvariant'
  <2>1. kernel_sem' = 0
    BY <1>4, <1>t DEF WaitForSemaphore, SemaphoreFree
  <2> HIDE DEF Decided
  <2> QED BY <1>g, <2>1
<1>5. ASSUME NEW t \in Threads, UnlockMutex(t) PROVE WakeupInvariant'
  <2>1. Mine(t)
    BY <1>5, <1>e, MineStep DEF Step
  <2>2. /\ kernel_sem' = kernel_sem /\ state' = state /\ on' = on
        /\ pc[t] = "unlock" /\ pc'[t] = "sleep"
    BY <1>5, <1>e, <1>t DEF UnlockMutex, Go, argVars
  <2>3. ~ Decided(t)' /\ ~ WillTest(t)
    BY <1>e, <2>2 DEF WillTest
  <2>4. CASE call[t] = "lock"
    <3>1. kernel_sem' = 0
      BY <1>w, <2>2, <2>4
    <3> HIDE DEF Decided
    <3> QED BY <1>g, <3>1
  <2>5. CASE call[t] # "lock"
    <3>1. ~ Sleeper(t)'
      BY <1>e, <2>2, <2>5, MonitorAssumption DEF Sleeper, CallOK, Wait
    <3> QED BY <1>s, <1>e, <2>1, <2>2, <2>3, <3>1
  <2> QED BY <2>4, <2>5
<1>6. ASSUME NEW t \in Threads, PushWaiter(t) \/ sleep_releasing(t) \/ LeaveRing(t) \/ RelockMutex(t)
      PROVE  WakeupInvariant'
  <2>1. Mine(t)
    BY <1>6, <1>e, MineStep DEF Step
  <2>2. /\ kernel_sem' = kernel_sem /\ on' = on /\ call' = call
        /\ \A u \in Threads \ {t} : state'[u] = state[u]
    BY <1>6, <1>t DEF PushWaiter, sleep_releasing, LeaveRing, RelockMutex, argVars
  <2>3. CASE PushWaiter(t)
    <3>1. pc[t] = "push" /\ pc'[t] = "unlock" /\ state' = state
      BY <1>e, <1>t, <2>3 DEF PushWaiter, Go
    <3>2. (Decided(t)' => Decided(t)) /\ ~ Sleeper(t)' /\ ~ WillTest(t)
      BY <1>e, <2>2, <3>1 DEF Sleeper, WillTest, StateOK
    <3> QED BY <1>s, <1>e, <2>1, <2>2, <3>2
  <2>4. CASE sleep_releasing(t)
    <3>1. pc[t] = "sleep" /\ pc'[t] = "woken"
      BY <1>e, <1>t, <2>4 DEF sleep_releasing, Go
    <3>2. ~ Decided(t)' /\ (Sleeper(t)' => Sleeper(t)) /\ ~ WillTest(t)
      BY <1>e, <2>2, <3>1 DEF Sleeper, WillTest
    <3> QED BY <1>s, <1>e, <2>1, <2>2, <3>2
  <2>5. CASE LeaveRing(t) \/ RelockMutex(t)
    <3>1. pc[t] \in {"woken", "relock"} /\ pc'[t] \in {"relock", "test"} /\ state' = state
          /\ state[t] # "STOPPED"
      BY <1>e, <1>t, <2>5 DEF LeaveRing, RelockMutex, Go, StateOK
    <3>2. ~ Decided(t)' /\ ~ Sleeper(t)' /\ WillTest(t)'
      BY <1>e, <2>2, <3>1 DEF Sleeper, WillTest
    <3> QED BY <1>s, <1>e, <2>1, <2>2, <3>2
  <2> QED BY <1>6, <2>3, <2>4, <2>5
<1>7. ASSUME NEW a \in Actors, NEW v \in Channels, NEW b \in BOOLEAN, kernel_signal(a, v, b)
      PROVE  WakeupInvariant'
  <2>1. Mine(a)
    BY <1>7, MineStep
  <2>2. /\ kernel_sem' = kernel_sem /\ state' = state
        /\ a \in Threads => pc[a] = "kernel" /\ pc'[a] = "cvlock" /\ on'[a] = v
    BY <1>7, <1>t DEF kernel_signal, Go
  <2>3. a \in Threads => ~ Decided(a)' /\ ~ Sleeper(a)' /\ ~ WillTest(a)
    BY <1>e, <2>2, MonitorAssumption DEF Sleeper, WillTest
  <2> QED BY <1>s, <2>1, <2>2, <2>3
<1>8. ASSUME NEW a \in Actors, LockWaitset(a) PROVE WakeupInvariant'
  <2>1. Mine(a)
    BY <1>8, MineStep DEF SignalStep
  <2>2. /\ kernel_sem' = kernel_sem /\ state' = state /\ call' = call
        /\ pc[a] = "cvlock" /\ pc'[a] = "cvpop"
    BY <1>8, <1>t DEF LockWaitset, Go, argVars
  <2>3. a \in Threads => ~ Decided(a)' /\ ~ Sleeper(a)' /\ (WillTest(a) => WillTest(a)')
    BY <1>e, <2>2 DEF Sleeper, WillTest, StateOK, Releasing
  <2> QED BY <1>s, <2>1, <2>2, <2>3
<1>9. ASSUME NEW a \in Actors, cv_signal(a) PROVE WakeupInvariant'
  <2>0. PICK w \in Threads : w = Head(waitset[Signals(a)])
    BY <1>9, HeadOfRing
  <2>1. w # a /\ pc[w] = "woken" /\ pc'[w] = "woken" /\ state[w] \in {"RUNNING", "STOPPED"}
    BY <1>9, <2>0, HeadOfRing
  <2>2. Mine(a) /\ kernel_sem' = kernel_sem /\ call' = call
    BY <1>9, MineStep DEF SignalStep, cv_signal, argVars
  <2>3. state' = [state EXCEPT ![w] = IF state[w] = "STOPPED" THEN "RUNNING" ELSE state[w]]
        /\ pc[a] = "cvpop" /\ pc'[a] \in {"cvpop", "cvdone"}
    BY <1>9, <1>t, <2>0 DEF cv_signal, Go
  <2>4. WillTest(w)'
    BY <1>t, <2>1, <2>3 DEF WillTest
  <2>5. \A u \in Threads : Decided(u)' => Decided(u)
    BY <1>e, <2>2, <2>3 DEF Mine
  <2> HIDE DEF Decided
  <2>6. \A u \in Threads : Decided(u)' => kernel_sem' = 0
    BY <1>w, <2>2, <2>5
  <2> QED BY <1>g, <2>4, <2>6
<1>10. ASSUME NEW a \in Actors, NoWaiter(a) PROVE WakeupInvariant'
  <2>1. Mine(a)
    BY <1>10, MineStep DEF SignalStep
  <2>2. /\ UNCHANGED <<kernel_sem, state, call, on>>
        /\ pc[a] = "cvpop" /\ pc'[a] = "cvdone" /\ waitset[Signals(a)] = << >>
    BY <1>10, <1>t DEF NoWaiter, Go, argVars
  <2>3. \A u \in Threads : (Decided(u)' => Decided(u)) /\ (Sleeper(u)' => Sleeper(u))
    BY <1>e, <2>1, <2>2 DEF Mine, Sleeper
  <2>4. CASE \E u \in Threads : Sleeper(u)
    <3>1. PICK u \in Threads : Sleeper(u)
      BY <2>4
    <3>2. Contains(waitset[kernel_sem_cv], u)
      BY <1>e, <1>m, <3>1 DEF Sleeper, StateOK, RingsInvariant, InRing, CVs
    <3>3. Signals(a) # kernel_sem_cv
      BY <2>2, <3>2 DEF Contains
    <3>4. call[a] = "signal"
      BY <3>3 DEF Signals
    <3>5. a \in Threads => ~ WillTest(a) /\ ~ Decided(a)' /\ ~ Sleeper(a)'
      BY <1>e, <2>2, <3>4 DEF WillTest, Releasing, Sleeper, StateOK
    <3> QED BY <1>s, <2>1, <2>2, <3>5
  <2>5. CASE ~ \E u \in Threads : Sleeper(u)
    <3> HIDE DEF Decided
    <3>1. \A u \in Threads : Decided(u)' => kernel_sem' = 0
      BY <1>w, <2>2, <2>3
    <3> QED BY <1>g, <2>3, <2>5, <3>1
  <2> QED BY <2>4, <2>5
<1>11. ASSUME NEW a \in Actors, AfterSignal(a) PROVE WakeupInvariant'
  <2>1. Mine(a) /\ CallOK(a)
    BY <1>11, <1>m, MineStep DEF SignalStep, CallsInvariant
  <2>2. call[a] \in {"unlock", "sleep", "wait", "signal"}
    BY <1>11, <1>t, <2>1 DEF AfterSignal, CallOK, Cv, Calls
  <2>3. /\ kernel_sem' = kernel_sem /\ \A u \in Threads \ {a} : state'[u] = state[u]
        /\ pc[a] = "cvdone" /\ pc'[a] \in {"user", "gone", "push", "kernel"} /\ call'[a] # "lock"
        /\ a \in Threads => state'[a] \in {state[a], "EXITED"}
    BY <1>11, <1>t, <2>2 DEF AfterSignal, Go
  <2>4. a \in Threads => ~ Decided(a)' /\ ~ Sleeper(a)' /\ ~ WillTest(a)
    BY <1>e, <2>3 DEF Sleeper, WillTest, StateOK
  <2> QED BY <1>s, <2>1, <2>3, <2>4
<1>12. ASSUME NEW t \in Threads, Timeout(t) PROVE WakeupInvariant'
  <2>1. /\ UNCHANGED <<kernel_sem, pc, call, on>> /\ state' = [state EXCEPT ![t] = "RUNNING"]
        /\ pc[t] = "woken"
    BY <1>12, <1>e DEF Timeout, argVars, StateOK
  <2>2. Mine(t)
    BY <2>1 DEF Mine
  <2>3. ~ Decided(t)' /\ ~ Sleeper(t)' /\ WillTest(t)'
    BY <1>t, <2>1 DEF Sleeper, WillTest
  <2>4. \A u \in Threads \ {t} : state'[u] = state[u]
    BY <1>t, <2>1
  <2> QED BY <1>s, <1>e, <2>1, <2>2, <2>3, <2>4
<1>13. ASSUME Quiescent PROVE WakeupInvariant'
  BY <1>13, <1>m DEF Quiescent, vars, argVars, WakeupInvariant, Sleeper, WillTest, Releasing
<1> QED BY <1>1, <1>2, <1>3, <1>4, <1>5, <1>6, <1>7, <1>8, <1>9, <1>10, <1>11, <1>12, <1>13
        DEF Next, Step, SignalStep

-----------------------------------------------------------------------------
LEMMA NextMonitor == MonitorInv /\ [Next]_vars => MonitorInv'
<1>1. ASSUME MonitorInv, Next PROVE MonitorInv'
  BY <1>1, TypeStep, CallsStep, MutexStep, RingLocksStep, StatesStep, RingsStep, ExclusionStep,
     WakeupStep DEF MonitorInv
<1>2. ASSUME MonitorInv, UNCHANGED vars PROVE MonitorInv'
  <2>1. UNCHANGED <<kernel_mutex, kernel_sem, waitset, waitset_lock, state, pc, call, on, all, timed,
                    signalled, removed>>
    BY <1>2 DEF vars, ringVars, argVars, waiterVars
  <2>2. TypeOK' /\ CallsInvariant' /\ MutexInvariant' /\ RingLocks'
    BY <1>2, <2>1 DEF MonitorInv, TypeOK, CallsInvariant, CallOK, MutexInvariant, HoldsMutex, Releasing,
                      RingLocks, HoldsRing, Signals
  <2>3. StatesInvariant' /\ RingsInvariant' /\ KernelExclusion'
    BY <1>2, <2>1 DEF MonitorInv, StatesInvariant, StateOK, RingsInvariant, InRing, KernelExclusion,
                      HoldsSemaphore, Releasing
  <2>4. WakeupInvariant'
    BY <1>2, <2>1 DEF MonitorInv, WakeupInvariant, Sleeper, WillTest, Releasing
  <2> QED BY <2>2, <2>3, <2>4 DEF MonitorInv
<1> QED BY <1>1, <1>2

(* The inductive invariant of the locks and rings of kernel_cc.c.          *)
THEOREM MonitorInvariant == Spec => []MonitorInv
  BY InitMonitor, NextMonitor, PTL DEF Spec

(* At most one thread is in the kernel, and the counter kernel_sem says    *)
(* whether there is one: kernel_lock, kernel_unlock, kernel_wait and       *)
(* kernel_sleep neither lose the semaphore nor return it twice.            *)
THEOREM OneThreadInKernel == Spec => []KernelExclusion
<1>1. MonitorInv => KernelExclusion
  BY DEF MonitorInv
<1> QED BY <1>1, MonitorInvariant, PTL

(* No wakeup of kernel_sem_cv is lost between the test of the semaphore in *)
(* kernel_lock and sleep_releasing.                                        *)
THEOREM WakeupsKept == Spec => []NoLostWakeup
<1>1. MonitorInv => NoLostWakeup
  BY DEF MonitorInv, WakeupInvariant, NoLostWakeup, SleepsFor, Sleeper
<1> QED BY <1>1, MonitorInvariant, PTL

(* A waiter that lives on the stack of its thread is in the ring of its    *)
(* condition variable exactly while cv_wait needs it, once, and the        *)
(* assertion of cv_wait holds.                                             *)
THEOREM RingsAreSound == Spec => []RingInvariant
<1>1. ASSUME MonitorInv, NEW t \in Threads, NEW v \in CVs
      PROVE  Cardinality({i \in DOMAIN waitset[v] : waitset[v][i] = t})
               = IF InRing(t) /\ on[t] = v THEN 1 ELSE 0
  <2> DEFINE q == waitset[v]
             I == {i \in DOMAIN q : q[i] = t}
  <2>1. q \in Seq(Threads) /\ IsInjective(q) /\ (Contains(q, t) <=> InRing(t) /\ on[t] = v)
    BY <1>1 DEF MonitorInv, TypeOK, RingsInvariant
  <2>2. DOMAIN q = 1 .. Len(q)
    BY <2>1
  <2> HIDE DEF q
  <2>3. CASE Contains(q, t)
    <3>1. PICK i \in DOMAIN q : q[i] = t
      BY <2>2, <2>3 DEF Contains
    <3>2. I = {i}
      BY <2>1, <3>1 DEF IsInjective
    <3>3. Cardinality(I) = 1
      BY <3>2, FS_Singleton
    <3> QED BY <2>1, <2>3, <3>3 DEF q
  <2>4. CASE ~ Contains(q, t)
    <3>1. I = {}
      BY <2>2, <2>4 DEF Contains
    <3>2. Cardinality(I) = 0
      BY <3>1, FS_EmptySet
    <3> QED BY <2>1, <2>4, <3>2 DEF q
  <2> QED BY <2>3, <2>4
<1>2. MonitorInv => RingInvariant
  BY <1>1 DEF MonitorInv, RingInvariant, RingsInvariant
<1> QED BY <1>2, MonitorInvariant, PTL

(***************************************************************************)
(* The refinement of module Monitor.  The waiters that Monitor sees are    *)
(* those members of a ring that have not been woken, in their order.  The  *)
(* first part shows what Kept, which selects them, does when the ring or   *)
(* the set of the waiters changes; the second maps each step of            *)
(* KernelMonitor to a step of Monitor, or to none.                         *)
(*                                                                         *)
(* Induction is on the length of a sequence: the least length of a         *)
(* counterexample would have a shorter one.                                *)
(***************************************************************************)
(* The values of the function that defines Kept, up to n.                  *)
IsKept(F, q, W, n) ==
    /\ F[0] = << >>
    /\ \A i \in 1 .. n : F[i] = IF q[i] \in W THEN Append(F[i - 1], q[i]) ELSE F[i - 1]

LEMMA KeptExists ==
    ASSUME NEW S, NEW q \in Seq(S), NEW W, NEW n \in 0 .. Len(q)
    PROVE  \E F \in [0 .. n -> Seq(S)] : IsKept(F, q, W, n)
<1> DEFINE T == {m \in Nat : m <= Len(q) /\ ~ \E F \in [0 .. m -> Seq(S)] : IsKept(F, q, W, m)}
<1> SUFFICES ASSUME T # {} PROVE FALSE
  OBVIOUS
<1>1. PICK m \in T : \A k \in T : m <= k
  BY LeastMember
<1>2. m # 0
  <2>1. [i \in 0 .. 0 |-> << >>] \in [0 .. 0 -> Seq(S)]
    OBVIOUS
  <2>2. IsKept([i \in 0 .. 0 |-> << >>], q, W, 0)
    BY DEF IsKept
  <2> QED BY <1>1, <2>1, <2>2
<1>3. PICK F \in [0 .. m - 1 -> Seq(S)] : IsKept(F, q, W, m - 1)
  <2>1. m \in Nat /\ m <= Len(q)
    BY <1>1
  <2>2. m - 1 \in Nat /\ m - 1 <= Len(q) /\ ~ (m <= m - 1)
    BY <1>2, <2>1
  <2>3. m - 1 \notin T
    BY <1>1, <2>2
  <2> QED BY <2>2, <2>3
<1> DEFINE v == IF q[m] \in W THEN Append(F[m - 1], q[m]) ELSE F[m - 1]
           G == [i \in 0 .. m |-> IF i = m THEN v ELSE F[i]]
<1>4. v \in Seq(S)
  <2>1. m - 1 \in 0 .. m - 1 /\ m \in 1 .. Len(q)
    BY <1>1, <1>2
  <2>2. F[m - 1] \in Seq(S) /\ q[m] \in S
    BY <1>3, <2>1
  <2>3. Append(F[m - 1], q[m]) \in Seq(S)
    BY <2>2
  <2> QED BY <2>2, <2>3
<1> HIDE DEF v
<1>5. G \in [0 .. m -> Seq(S)]
  BY <1>1, <1>2, <1>3, <1>4
<1>6. G[0] = << >> /\ G[m] = v /\ \A i \in 0 .. m - 1 : G[i] = F[i]
  BY <1>1, <1>2, <1>3 DEF IsKept
<1> HIDE DEF G
<1>7. IsKept(G, q, W, m)
  <2>1. ASSUME NEW i \in 1 .. m
        PROVE  G[i] = IF q[i] \in W THEN Append(G[i - 1], q[i]) ELSE G[i - 1]
    <3>1. CASE i = m
      BY <1>1, <1>2, <1>6, <3>1 DEF v
    <3>2. CASE i # m
      <4>1. m \in Nat /\ i \in 1 .. m - 1 /\ i - 1 \in 0 .. m - 1 /\ i \in 0 .. m - 1
        BY <1>1, <3>2
      <4>2. F[i] = IF q[i] \in W THEN Append(F[i - 1], q[i]) ELSE F[i - 1]
        BY <1>3, <4>1 DEF IsKept
      <4> QED BY <1>6, <4>1, <4>2
    <3> QED BY <3>1, <3>2
  <2> QED BY <1>6, <2>1 DEF IsKept
<1> QED BY <1>1, <1>5, <1>7

(* Two such functions agree if the sequences and the sets do.              *)
LEMMA KeptUnique ==
    ASSUME NEW F, NEW G, NEW q, NEW r, NEW W, NEW V, NEW n \in Nat,
           IsKept(F, q, W, n), IsKept(G, r, V, n),
           \A i \in 1 .. n : q[i] = r[i] /\ (q[i] \in W <=> r[i] \in V)
    PROVE  F[n] = G[n]
<1> DEFINE T == {m \in Nat : m <= n /\ F[m] # G[m]}
<1> SUFFICES ASSUME T # {} PROVE FALSE
  OBVIOUS
<1>1. PICK m \in T : \A k \in T : m <= k
  BY LeastMember
<1>2. m # 0
  BY <1>1 DEF IsKept
<1>3. m \in 1 .. n /\ m - 1 \in Nat /\ m - 1 <= n /\ ~ (m <= m - 1)
  BY <1>1, <1>2
<1>4. F[m - 1] = G[m - 1]
  BY <1>1, <1>3
<1>5. F[m] = G[m]
  BY <1>3, <1>4 DEF IsKept
<1> QED BY <1>1, <1>5

LEMMA KeptIs ==
    ASSUME NEW S, NEW q \in Seq(S), NEW W
    PROVE  \E F : IsKept(F, q, W, Len(q)) /\ Kept(q, W) = F[Len(q)]
<1> DEFINE Is(F) == F = [i \in 0 .. Len(q) |->
                           IF i = 0 THEN << >>
                           ELSE IF q[i] \in W THEN Append(F[i - 1], q[i]) ELSE F[i - 1]]
           H == CHOOSE G : Is(G)
<1>0. Len(q) \in Nat /\ Len(q) \in 0 .. Len(q)
  OBVIOUS
<1>1. PICK F \in [0 .. Len(q) -> Seq(S)] : IsKept(F, q, W, Len(q))
  <2> HIDE DEF Is
  <2> QED BY <1>0, KeptExists
<1>2. Is(F)
  <2>1. ASSUME NEW i \in 0 .. Len(q)
        PROVE  F[i] = IF i = 0 THEN << >>
                      ELSE IF q[i] \in W THEN Append(F[i - 1], q[i]) ELSE F[i - 1]
    <3>1. CASE i = 0
      BY <1>1, <3>1 DEF IsKept
    <3>2. CASE i # 0
      <4>1. i \in 1 .. Len(q)
        BY <3>2
      <4> QED BY <1>1, <3>2, <4>1 DEF IsKept
    <3> QED BY <3>1, <3>2
  <2> QED BY <1>1, <2>1
<1>3. Kept(q, W) = (CHOOSE G : Is(G))[Len(q)]
  BY DEF Kept
<1>4. Is(CHOOSE G : Is(G))
  <2> HIDE DEF Is
  <2> QED BY <1>2
<1>5. Is(H)
  BY <1>4
<1> HIDE DEF H
<1>6. IsKept(H, q, W, Len(q))
  <2>1. ASSUME NEW i \in 0 .. Len(q)
        PROVE  H[i] = IF i = 0 THEN << >>
                      ELSE IF q[i] \in W THEN Append(H[i - 1], q[i]) ELSE H[i - 1]
    BY <1>5
  <2>2. H[0] = << >>
    BY <1>0, <2>1
  <2>3. ASSUME NEW i \in 1 .. Len(q)
        PROVE  H[i] = IF q[i] \in W THEN Append(H[i - 1], q[i]) ELSE H[i - 1]
    BY <1>0, <2>1
  <2> QED BY <2>2, <2>3 DEF IsKept
<1>7. Kept(q, W) = H[Len(q)]
  BY <1>3 DEF H
<1> QED BY <1>6, <1>7

LEMMA KeptType == ASSUME NEW S, NEW q \in Seq(S), NEW W PROVE Kept(q, W) \in Seq(S)
<1>1. PICK F : IsKept(F, q, W, Len(q)) /\ Kept(q, W) = F[Len(q)]
  BY KeptIs
<1>2. Len(q) \in Nat /\ Len(q) \in 0 .. Len(q)
  OBVIOUS
<1>3. PICK G \in [0 .. Len(q) -> Seq(S)] : IsKept(G, q, W, Len(q))
  BY <1>2, KeptExists
<1>4. F[Len(q)] = G[Len(q)]
  BY <1>1, <1>2, <1>3, KeptUnique
<1> QED BY <1>1, <1>2, <1>3, <1>4

(* Kept depends only on which members of the sequence are in the set.      *)
LEMMA KeptSame ==
    ASSUME NEW S, NEW q \in Seq(S), NEW W, NEW V, \A t : Contains(q, t) => (t \in W <=> t \in V)
    PROVE  Kept(q, W) = Kept(q, V)
<1>1. PICK F : IsKept(F, q, W, Len(q)) /\ Kept(q, W) = F[Len(q)]
  BY KeptIs
<1>2. PICK G : IsKept(G, q, V, Len(q)) /\ Kept(q, V) = G[Len(q)]
  BY KeptIs
<1>3. \A i \in 1 .. Len(q) : q[i] \in W <=> q[i] \in V
  BY DEF Contains
<1>4. F[Len(q)] = G[Len(q)]
  <2>1. Len(q) \in Nat
    OBVIOUS
  <2> QED BY <1>1, <1>2, <1>3, <2>1, KeptUnique
<1> QED BY <1>1, <1>2, <1>4

LEMMA KeptEmpty == ASSUME NEW W PROVE Kept(<< >>, W) = << >>
<1>1. << >> \in Seq({}) /\ Len(<< >>) = 0
  OBVIOUS
<1>2. PICK F : IsKept(F, << >>, W, Len(<< >>)) /\ Kept(<< >>, W) = F[Len(<< >>)]
  BY <1>1, KeptIs
<1> QED BY <1>1, <1>2 DEF IsKept

LEMMA KeptAppend ==
    ASSUME NEW S, NEW q \in Seq(S), NEW e \in S, NEW W
    PROVE  Kept(Append(q, e), W) = IF e \in W THEN Append(Kept(q, W), e) ELSE Kept(q, W)
<1> DEFINE r == Append(q, e)
           n == Len(q)
<1>1. /\ r \in Seq(S) /\ n \in Nat /\ Len(r) = n + 1 /\ r[n + 1] = e
      /\ \A i \in 1 .. n : r[i] = q[i]
  BY AppendProperties
<1> HIDE DEF r
<1>2. PICK F : IsKept(F, r, W, Len(r)) /\ Kept(r, W) = F[Len(r)]
  BY <1>1, KeptIs
<1>3. PICK G : IsKept(G, q, W, n) /\ Kept(q, W) = G[n]
  BY KeptIs
<1>4. IsKept(F, r, W, n)
  <2>1. \A i \in 1 .. n : i \in 1 .. Len(r)
    BY <1>1
  <2> QED BY <1>2, <2>1 DEF IsKept
<1>5. F[n] = G[n]
  BY <1>1, <1>3, <1>4, KeptUnique
<1>6. F[n + 1] = IF r[n + 1] \in W THEN Append(F[(n + 1) - 1], r[n + 1]) ELSE F[(n + 1) - 1]
  <2>1. n + 1 \in 1 .. Len(r)
    BY <1>1
  <2> QED BY <1>2, <2>1 DEF IsKept
<1>7. (n + 1) - 1 = n
  BY <1>1
<1>8. F[n + 1] = IF e \in W THEN Append(G[n], e) ELSE G[n]
  BY <1>1, <1>5, <1>6, <1>7
<1> QED BY <1>1, <1>2, <1>3, <1>8 DEF r

-----------------------------------------------------------------------------
(* A sequence that is not empty is a shorter one with its last member.     *)
LEMMA LastStep ==
    ASSUME NEW S, NEW q \in Seq(S), q # << >>
    PROVE  \E f \in Seq(S), e \in S : q = Append(f, e) /\ Len(q) = Len(f) + 1 /\ e = q[Len(q)]
<1> DEFINE n == Len(q)
           f == SubSeq(q, 1, n - 1)
           e == q[n]
<1>1. n \in Nat /\ n > 0 /\ e \in S /\ \A i \in 1 .. n : q[i] \in S
  BY EmptySeq
<1>2. f \in Seq(S) /\ Len(f) = n - 1 /\ \A i \in 1 .. n - 1 : f[i] = q[i]
  <2>1. n - 1 \in Int /\ 1 \in Int /\ \A i \in 1 .. n - 1 : q[i] \in S
    BY <1>1
  <2>2. /\ f \in Seq(S) /\ Len(f) = IF 1 <= n - 1 THEN (n - 1) - 1 + 1 ELSE 0
        /\ \A i \in 1 .. (n - 1) - 1 + 1 : f[i] = q[1 + i - 1]
    BY <2>1, SubSeqProperties
  <2> HIDE DEF f
  <2>3. \A k \in Nat : k > 0 => /\ (k - 1) - 1 + 1 = k - 1
                                /\ (IF 1 <= k - 1 THEN (k - 1) - 1 + 1 ELSE 0) = k - 1
    OBVIOUS
  <2>4. \A i \in 1 .. n - 1 : 1 + i - 1 = i
    BY <1>1
  <2>5. Len(f) = n - 1
    <3> HIDE DEF n
    <3> QED BY <1>1, <2>2, <2>3
  <2> HIDE DEF n
  <2> QED BY <1>1, <2>2, <2>3, <2>4, <2>5
<1> HIDE DEF f
<1>3. /\ Append(f, e) \in Seq(S) /\ Len(Append(f, e)) = n
      /\ \A i \in 1 .. n : Append(f, e)[i] = q[i]
  BY <1>1, <1>2, AppendProperties
<1>4. Append(f, e) = q
  BY <1>3, SeqEqual
<1> QED BY <1>1, <1>2, <1>4

(* The members that are kept, and that none is kept twice.                 *)
LEMMA KeptMembers ==
    ASSUME NEW S, NEW q \in Seq(S), NEW W, IsInjective(q)
    PROVE  /\ \A t : Contains(Kept(q, W), t) <=> Contains(q, t) /\ t \in W
           /\ IsInjective(Kept(q, W))
<1> DEFINE Good(r) == /\ \A t : Contains(Kept(r, W), t) <=> Contains(r, t) /\ t \in W
                      /\ IsInjective(Kept(r, W))
           T == {n \in Nat : \E r \in Seq(S) : Len(r) = n /\ IsInjective(r) /\ ~ Good(r)}
<1> SUFFICES ASSUME T # {} PROVE FALSE
  OBVIOUS
<1> HIDE DEF Good
<1>1. PICK n \in T : \A k \in T : n <= k
  BY LeastMember
<1>2. PICK r \in Seq(S) : Len(r) = n /\ IsInjective(r) /\ ~ Good(r)
  BY <1>1
<1>3. r # << >>
  <2> SUFFICES ASSUME r = << >> PROVE Good(r)
    BY <1>2
  <2>1. Kept(r, W) = << >>
    BY KeptEmpty
  <2> QED BY <2>1 DEF Good, Contains, IsInjective
<1>4. PICK f \in Seq(S), e \in S : r = Append(f, e) /\ Len(r) = Len(f) + 1 /\ e = r[Len(r)]
  BY <1>3, LastStep
<1>5. IsInjective(f) /\ ~ Contains(f, e)
  <2>1. Len(f) \in Nat /\ r[Len(f) + 1] = e /\ (\A i \in 1 .. Len(f) : r[i] = f[i])
        /\ DOMAIN r = 1 .. Len(f) + 1 /\ DOMAIN f = 1 .. Len(f)
    BY <1>4, AppendProperties
  <2>2. \A i \in 1 .. Len(f) : i # Len(f) + 1 /\ i \in 1 .. Len(f) + 1
    BY <2>1
  <2>3. Len(f) + 1 \in 1 .. Len(f) + 1
    BY <2>1
  <2>4. IsInjective(f)
    BY <1>2, <2>1, <2>2 DEF IsInjective
  <2>5. \A i \in 1 .. Len(f) : f[i] # e
    BY <1>2, <2>1, <2>2, <2>3 DEF IsInjective
  <2> QED BY <2>1, <2>4, <2>5 DEF Contains
<1>6. Good(f)
  <2>1. Len(f) \in Nat /\ ~ (n <= Len(f))
    BY <1>2, <1>4
  <2> QED BY <1>1, <1>5, <2>1
<1>7. Kept(f, W) \in Seq(S)
  BY KeptType
<1>8. Kept(r, W) = IF e \in W THEN Append(Kept(f, W), e) ELSE Kept(f, W)
  BY <1>4, KeptAppend
<1>9. \A t : Contains(r, t) <=> Contains(f, t) \/ t = e
  BY <1>4, AppendMembers
<1>10. CASE e \in W
  <2>1. ~ Contains(Kept(f, W), e)
    BY <1>5, <1>6 DEF Good
  <2>2. /\ \A t : Contains(Append(Kept(f, W), e), t) <=> Contains(Kept(f, W), t) \/ t = e
        /\ IsInjective(Append(Kept(f, W), e))
    BY <1>6, <1>7, <2>1, AppendMembers DEF Good
  <2>3. Good(r)
    BY <1>6, <1>8, <1>9, <1>10, <2>2 DEF Good
  <2> QED BY <1>2, <2>3
<1>11. CASE e \notin W
  <2>1. Good(r)
    BY <1>6, <1>8, <1>9, <1>11 DEF Good
  <2> QED BY <1>2, <2>1
<1> QED BY <1>10, <1>11

(* rlist_remove of another member than the last one.                       *)
LEMMA RemoveAtAppend ==
    ASSUME NEW S, NEW f \in Seq(S), NEW e \in S, NEW i \in 1 .. Len(f)
    PROVE  RemoveAt(Append(f, e), i) = Append(RemoveAt(f, i), e)
<1> DEFINE r == Append(f, e)
           x == RemoveAt(r, i)
           y == RemoveAt(f, i)
           z == Append(y, e)
           n == Len(f)
<1>1. /\ r \in Seq(S) /\ n \in Nat /\ Len(r) = n + 1 /\ r[n + 1] = e
      /\ \A j \in 1 .. n : r[j] = f[j]
  BY AppendProperties
<1> HIDE DEF r
<1>2. /\ x \in Seq(S) /\ Len(x) = n
      /\ \A j \in 1 .. n : x[j] = IF j < i THEN r[j] ELSE r[j + 1]
  <2>1. i \in 1 .. Len(r) /\ Len(r) - 1 = n
    BY <1>1
  <2> QED BY <1>1, <2>1, RemoveAtProperties
<1>3. /\ y \in Seq(S) /\ Len(y) = n - 1
      /\ \A j \in 1 .. n - 1 : y[j] = IF j < i THEN f[j] ELSE f[j + 1]
  BY RemoveAtProperties
<1> HIDE DEF x, y
<1>4. /\ z \in Seq(S) /\ Len(z) = n /\ z[n] = e
      /\ \A j \in 1 .. n - 1 : z[j] = y[j]
  BY <1>1, <1>3, AppendProperties
<1> HIDE DEF z
<1>5. ASSUME NEW j \in 1 .. n PROVE x[j] = z[j]
  <2>1. CASE j = n
    BY <1>1, <1>2, <1>4, <2>1
  <2>2. CASE j # n
    <3>1. j \in 1 .. n - 1 /\ j + 1 \in 1 .. n
      BY <1>1, <2>2
    <3>2. x[j] = IF j < i THEN f[j] ELSE f[j + 1]
      BY <1>1, <1>2, <3>1
    <3> QED BY <1>3, <1>4, <3>1, <3>2
  <2> QED BY <2>1, <2>2
<1>6. x = z
  BY <1>2, <1>4, <1>5, SeqEqual
<1> QED BY <1>6 DEF r, x, y, z

(* rlist_remove of the last member.                                        *)
LEMMA RemoveAtLast ==
    ASSUME NEW S, NEW f \in Seq(S), NEW e \in S
    PROVE  RemoveAt(Append(f, e), Len(f) + 1) = f
<1> DEFINE r == Append(f, e)
           n == Len(f)
           x == RemoveAt(r, n + 1)
<1>1. /\ r \in Seq(S) /\ n \in Nat /\ Len(r) = n + 1
      /\ \A j \in 1 .. n : r[j] = f[j]
  BY AppendProperties
<1> HIDE DEF r
<1>2. x \in Seq(S) /\ Len(x) = n /\ \A j \in 1 .. n : x[j] = IF j < n + 1 THEN r[j] ELSE r[j + 1]
  <2>1. n + 1 \in 1 .. Len(r) /\ Len(r) - 1 = n
    BY <1>1
  <2> QED BY <1>1, <2>1, RemoveAtProperties
<1> HIDE DEF x
<1>3. \A j \in 1 .. n : x[j] = f[j]
  BY <1>1, <1>2
<1>4. x = f
  BY <1>2, <1>3, SeqEqual
<1> QED BY <1>4 DEF r, x

(* A member that is not kept can be removed from the sequence.             *)
LEMMA KeptRemove ==
    ASSUME NEW S, NEW q \in Seq(S), NEW W, NEW i \in 1 .. Len(q), q[i] \notin W
    PROVE  Kept(RemoveAt(q, i), W) = Kept(q, W)
<1> DEFINE T == {n \in Nat : \E r \in Seq(S) : /\ Len(r) = n
                                               /\ \E j \in 1 .. Len(r) :
                                                    /\ r[j] \notin W
                                                    /\ Kept(RemoveAt(r, j), W) # Kept(r, W)}
<1> SUFFICES ASSUME T # {} PROVE FALSE
  OBVIOUS
<1>1. PICK n \in T : \A k \in T : n <= k
  BY LeastMember
<1>0. PICK r \in Seq(S) : /\ Len(r) = n
                          /\ \E j \in 1 .. Len(r) :
                               r[j] \notin W /\ Kept(RemoveAt(r, j), W) # Kept(r, W)
  BY <1>1
<1>2. PICK j \in 1 .. Len(r) :
        Len(r) = n /\ r[j] \notin W /\ Kept(RemoveAt(r, j), W) # Kept(r, W)
  BY <1>0
<1>3. PICK f \in Seq(S), e \in S : r = Append(f, e) /\ Len(r) = Len(f) + 1 /\ e = r[Len(r)]
  <2>1. r # << >>
    BY <1>2
  <2> QED BY <2>1, LastStep
<1>4. Kept(r, W) = IF e \in W THEN Append(Kept(f, W), e) ELSE Kept(f, W)
  <2>1. Kept(Append(f, e), W) = IF e \in W THEN Append(Kept(f, W), e) ELSE Kept(f, W)
    BY KeptAppend
  <2> HIDE DEF T
  <2> QED BY <1>3, <2>1
<1>5. CASE j = Len(r)
  <2>1. RemoveAt(r, j) = f
    BY <1>3, <1>5, RemoveAtLast
  <2> QED BY <1>2, <1>3, <1>4, <1>5, <2>1
<1>6. CASE j # Len(r)
  <2>1. Len(f) \in Nat /\ j \in 1 .. Len(f) /\ ~ (n <= Len(f))
    BY <1>2, <1>3, <1>6
  <2>2. f[j] = r[j]
    BY <1>3, <2>1, AppendProperties
  <2>3. Kept(RemoveAt(f, j), W) = Kept(f, W)
    BY <1>1, <1>2, <2>1, <2>2
  <2>4. RemoveAt(r, j) = Append(RemoveAt(f, j), e) /\ RemoveAt(f, j) \in Seq(S)
    BY <1>3, <2>1, RemoveAtAppend, RemoveAtProperties
  <2>5. Kept(RemoveAt(r, j), W)
          = IF e \in W THEN Append(Kept(RemoveAt(f, j), W), e) ELSE Kept(RemoveAt(f, j), W)
    BY <2>4, KeptAppend
  <2> QED BY <1>2, <1>4, <2>3, <2>5
<1> QED BY <1>5, <1>6

(* A member that is no longer kept leaves the members that are kept.       *)
LEMMA KeptWithout ==
    ASSUME NEW S, NEW q \in Seq(S), NEW W, IsInjective(q),
           NEW i \in 1 .. Len(Kept(q, W))
    PROVE  RemoveAt(Kept(q, W), i) = Kept(q, W \ {Kept(q, W)[i]})
<1> DEFINE T == {n \in Nat : \E r \in Seq(S) : /\ Len(r) = n
                                               /\ IsInjective(r)
                                               /\ \E j \in 1 .. Len(Kept(r, W)) :
                                                    RemoveAt(Kept(r, W), j)
                                                      # Kept(r, W \ {Kept(r, W)[j]})}
<1> SUFFICES ASSUME T # {} PROVE FALSE
  <2>1. Len(q) \in Nat
    OBVIOUS
  <2> QED BY <2>1
<1>1. PICK n \in T : \A k \in T : n <= k
  BY LeastMember
<1>2. PICK r \in Seq(S) : /\ Len(r) = n
                          /\ IsInjective(r)
                          /\ \E j \in 1 .. Len(Kept(r, W)) :
                               RemoveAt(Kept(r, W), j) # Kept(r, W \ {Kept(r, W)[j]})
  BY <1>1
<1>3. PICK j \in 1 .. Len(Kept(r, W)) : RemoveAt(Kept(r, W), j) # Kept(r, W \ {Kept(r, W)[j]})
  BY <1>2
<1>4. r # << >>
  BY <1>3, KeptEmpty
<1>5. PICK f \in Seq(S), e \in S : r = Append(f, e) /\ Len(r) = Len(f) + 1 /\ e = r[Len(r)]
  BY <1>4, LastStep
<1>6. IsInjective(f) /\ ~ Contains(f, e)
  <2>1. Len(f) \in Nat /\ r[Len(f) + 1] = e /\ (\A k \in 1 .. Len(f) : r[k] = f[k])
        /\ DOMAIN r = 1 .. Len(f) + 1 /\ DOMAIN f = 1 .. Len(f)
    BY <1>5, AppendProperties
  <2>2. \A k \in 1 .. Len(f) : k # Len(f) + 1 /\ k \in 1 .. Len(f) + 1
    BY <2>1
  <2>3. Len(f) + 1 \in 1 .. Len(f) + 1
    BY <2>1
  <2>4. IsInjective(f)
    BY <1>2, <2>1, <2>2 DEF IsInjective
  <2>5. \A k \in 1 .. Len(f) : f[k] # e
    BY <1>2, <2>1, <2>2, <2>3 DEF IsInjective
  <2> QED BY <2>1, <2>4, <2>5 DEF Contains
<1> DEFINE g == Kept(f, W)
           t == Kept(r, W)[j]
           V == W \ {t}
<1>7. g \in Seq(S) /\ Len(g) \in Nat
  BY KeptType
<1>8. \A k \in 1 .. Len(g) : RemoveAt(g, k) = Kept(f, W \ {g[k]})
  <2>1. Len(f) \in Nat /\ ~ (n <= Len(f))
    BY <1>2, <1>5
  <2> QED BY <1>1, <1>6, <2>1
<1>9. Kept(r, W) = IF e \in W THEN Append(g, e) ELSE g
  BY <1>5, KeptAppend
<1>10. Kept(r, V) = IF e \in V THEN Append(Kept(f, V), e) ELSE Kept(f, V)
  <2> HIDE DEF T, V
  <2>1. Kept(Append(f, e), V) = IF e \in V THEN Append(Kept(f, V), e) ELSE Kept(f, V)
    BY KeptAppend
  <2> QED BY <1>5, <2>1
<1>11. CASE e \notin W
  <2>1. Kept(r, W) = g /\ Kept(r, V) = Kept(f, V) /\ j \in 1 .. Len(g) /\ t = g[j]
    BY <1>9, <1>10, <1>11
  <2> QED BY <1>3, <1>8, <2>1
<1>12. CASE e \in W
  <2>1. Kept(r, W) = Append(g, e)
    BY <1>9, <1>12
  <2>2. /\ Len(Append(g, e)) = Len(g) + 1 /\ Append(g, e)[Len(g) + 1] = e
        /\ \A k \in 1 .. Len(g) : Append(g, e)[k] = g[k]
    BY <1>7, AppendProperties
  <2>3. CASE j = Len(g) + 1
    <3>1. t = e
      BY <2>1, <2>2, <2>3
    <3>2. RemoveAt(Kept(r, W), j) = g
      BY <1>7, <2>1, <2>3, RemoveAtLast
    <3>3. Kept(f, V) = g
      <4>1. \A x : Contains(f, x) => (x \in V <=> x \in W)
        BY <1>6, <3>1
      <4> QED BY <4>1, KeptSame
    <3> QED BY <1>3, <1>10, <3>1, <3>2, <3>3
  <2>4. CASE j # Len(g) + 1
    <3>1. j \in 1 .. Len(g)
      BY <1>7, <2>1, <2>2, <2>4
    <3>2. t = g[j]
      BY <2>1, <2>2, <3>1
    <3>3. Contains(g, t)
      BY <3>1, <3>2 DEF Contains
    <3>4. t # e
      BY <1>6, <3>3, KeptMembers
    <3>5. RemoveAt(Kept(r, W), j) = Append(RemoveAt(g, j), e)
      BY <1>7, <2>1, <3>1, RemoveAtAppend
    <3>6. RemoveAt(g, j) = Kept(f, V)
      BY <1>8, <3>1, <3>2
    <3> QED BY <1>3, <1>10, <1>12, <3>4, <3>5, <3>6
  <2> QED BY <2>3, <2>4
<1> QED BY <1>11, <1>12

(* rlist_pop_front is rlist_remove of the first member.                    *)
LEMMA RemoveAtHead ==
    ASSUME NEW S, NEW q \in Seq(S), q # << >>
    PROVE  1 \in 1 .. Len(q) /\ Head(q) = q[1] /\ RemoveAt(q, 1) = Tail(q)
<1>1. Len(q) \in Nat /\ 1 \in 1 .. Len(q)
  <2>1. Len(q) \in Nat \ {0}
    BY EmptySeq
  <2> QED BY <2>1
<1>2. /\ RemoveAt(q, 1) \in Seq(S) /\ Len(RemoveAt(q, 1)) = Len(q) - 1
      /\ \A j \in 1 .. Len(q) - 1 : RemoveAt(q, 1)[j] = IF j < 1 THEN q[j] ELSE q[j + 1]
  BY <1>1, RemoveAtProperties
<1>3. /\ Tail(q) \in Seq(S) /\ Len(Tail(q)) = Len(q) - 1
      /\ \A j \in 1 .. Len(q) - 1 : Tail(q)[j] = q[j + 1]
  BY HeadTailProperties
<1>4. \A j \in 1 .. Len(q) - 1 : RemoveAt(q, 1)[j] = Tail(q)[j]
  BY <1>1, <1>2, <1>3
<1>5. RemoveAt(q, 1) = Tail(q)
  BY <1>2, <1>3, <1>4, SeqEqual
<1> QED BY <1>1, <1>5

(* The first member of a ring, if it is kept, is the first that is kept.   *)
LEMMA KeptFirst ==
    ASSUME NEW S, NEW q \in Seq(S), q # << >>, NEW W, q[1] \in W
    PROVE  Kept(q, W) # << >> /\ Kept(q, W)[1] = q[1]
<1> DEFINE Good(r) == Kept(r, W) # << >> /\ Kept(r, W)[1] = r[1]
           T == {n \in Nat : \E r \in Seq(S) : Len(r) = n /\ r # << >> /\ r[1] \in W /\ ~ Good(r)}
<1> SUFFICES ASSUME T # {} PROVE FALSE
  <2>1. Len(q) \in Nat
    OBVIOUS
  <2> QED BY <2>1
<1> HIDE DEF Good
<1>1. PICK n \in T : \A k \in T : n <= k
  BY LeastMember
<1>2. PICK r \in Seq(S) : Len(r) = n /\ r # << >> /\ r[1] \in W /\ ~ Good(r)
  BY <1>1
<1>3. PICK f \in Seq(S), e \in S : r = Append(f, e) /\ Len(r) = Len(f) + 1 /\ e = r[Len(r)]
  BY <1>2, LastStep
<1>4. Kept(r, W) = IF e \in W THEN Append(Kept(f, W), e) ELSE Kept(f, W)
  <2>1. Kept(Append(f, e), W) = IF e \in W THEN Append(Kept(f, W), e) ELSE Kept(f, W)
    BY KeptAppend
  <2> HIDE DEF T
  <2> QED BY <1>3, <2>1
<1>5. Kept(f, W) \in Seq(S)
  BY KeptType
<1>6. CASE f = << >>
  <2>1. r = << e >> /\ r[1] = e
    <3> HIDE DEF T
    <3> QED BY <1>3, <1>6
  <2>2. Kept(r, W) = << e >>
    <3>1. e \in W /\ Kept(f, W) = << >>
      BY <1>2, <1>6, <2>1, KeptEmpty
    <3>2. Append(<< >>, e) = << e >>
      OBVIOUS
    <3> HIDE DEF T
    <3> QED BY <1>4, <3>1, <3>2
  <2> QED BY <1>2, <2>1, <2>2 DEF Good
<1>7. CASE f # << >>
  <2>1. Len(f) \in Nat /\ ~ (n <= Len(f)) /\ 1 \in 1 .. Len(f)
    BY <1>2, <1>3, <1>7, EmptySeq
  <2>2. f[1] = r[1]
    BY <1>3, <2>1, AppendProperties
  <2>3. Good(f)
    BY <1>1, <1>2, <1>7, <2>1, <2>2
  <2>4. Good(r)
    <3>1. Kept(f, W) # << >> /\ Kept(f, W)[1] = r[1]
      BY <2>2, <2>3 DEF Good
    <3>2. 1 \in 1 .. Len(Kept(f, W))
      BY <1>5, <3>1, RemoveAtHead
    <3>3. /\ Append(Kept(f, W), e) # << >>
          /\ Append(Kept(f, W), e)[1] = Kept(f, W)[1]
      <4>1. \A g \in Seq(S) : 1 \in 1 .. Len(g) => Append(g, e) # << >> /\ Append(g, e)[1] = g[1]
        BY AppendProperties
      <4> QED BY <1>5, <3>2, <4>1
    <3> HIDE DEF T
    <3> QED BY <1>4, <3>1, <3>3 DEF Good
  <2> QED BY <1>2, <2>4
<1> QED BY <1>6, <1>7

(* The ring loses its first member, which is not kept.                     *)
LEMMA KeptTail ==
    ASSUME NEW S, NEW q \in Seq(S), q # << >>, NEW W, Head(q) \notin W
    PROVE  Kept(Tail(q), W) = Kept(q, W)
<1>1. 1 \in 1 .. Len(q) /\ Head(q) = q[1] /\ RemoveAt(q, 1) = Tail(q)
  BY RemoveAtHead
<1>2. q[1] \notin W
  BY <1>1
<1>3. Kept(RemoveAt(q, 1), W) = Kept(q, W)
  BY <1>1, <1>2, KeptRemove
<1> QED BY <1>1, <1>3

(* The ring loses its first member, which was kept.                        *)
LEMMA KeptPop ==
    ASSUME NEW S, NEW q \in Seq(S), q # << >>, IsInjective(q), NEW W, Head(q) \in W
    PROVE  /\ Kept(q, W) # << >>
           /\ Head(Kept(q, W)) = Head(q)
           /\ Tail(Kept(q, W)) = Kept(Tail(q), W \ {Head(q)})
<1> DEFINE w == Head(q)
           k == Kept(q, W)
<1>1. w = q[1]
  BY RemoveAtHead
<1>2. k # << >> /\ k[1] = w /\ k \in Seq(S)
  BY <1>1, KeptFirst, KeptType
<1>3. 1 \in 1 .. Len(k) /\ Head(k) = w /\ RemoveAt(k, 1) = Tail(k)
  BY <1>2, RemoveAtHead
<1>4. RemoveAt(k, 1) = Kept(q, W \ {w})
  BY <1>2, <1>3, KeptWithout
<1>5. Kept(Tail(q), W \ {w}) = Kept(q, W \ {w})
  BY KeptTail
<1> QED BY <1>2, <1>3, <1>4, <1>5

-----------------------------------------------------------------------------
(* Where a thread is, as Monitor sees it.                                  *)
PlacesAgree ==
    \A t \in Threads :
      /\ PlaceOf(t) = "out" <=> pc[t] = "user"
      /\ PlaceOf(t) = "gone" <=> pc[t] = "gone"
      /\ PlaceOf(t) = "waiting" <=> Waiting(t)
      /\ PlaceOf(t) = "in" <=> In(t)
      /\ PlaceOf(t) \in {"out", "gone", "waiting", "in", "asking"}

LEMMA PlacesMap == MonitorInv => PlacesAgree
<1> SUFFICES ASSUME MonitorInv, NEW t \in Threads
             PROVE  /\ PlaceOf(t) = "out" <=> pc[t] = "user"
                    /\ PlaceOf(t) = "gone" <=> pc[t] = "gone"
                    /\ PlaceOf(t) = "waiting" <=> Waiting(t)
                    /\ PlaceOf(t) = "in" <=> In(t)
                    /\ PlaceOf(t) \in {"out", "gone", "waiting", "in", "asking"}
  BY DEF PlacesAgree
<1>1. CallOK(t) /\ StateOK(t)
  BY DEF MonitorInv, CallsInvariant, StatesInvariant, Actors
<1>2. Waiting(t) => pc[t] \in {"sleep", "woken"}
  BY <1>1 DEF Waiting, StateOK
<1>3. In(t) => pc[t] \notin {"user", "gone", "sleep", "woken"}
  BY <1>1 DEF In, CallOK, Wait
<1> QED BY <1>2, <1>3 DEF PlaceOf

LEMMA PlacesMapNext == MonitorInv' => PlacesAgree'
  BY PlacesMap, PTL

(* What Monitor sees of a step that only the actor a takes.                *)
LEMMA OwnStep ==
    ASSUME MonitorInv, NEW a \in Actors, Mine(a),
           \A u \in Threads \ {a} : state'[u] = state[u],
           \A b \in Actors \ {a} : all'[b] = all[b]
    PROVE  /\ a \in Threads => place' = [place EXCEPT ![a] = PlaceOf(a)']
           /\ a \notin Threads => place' = place
           /\ sending' = [sending EXCEPT ![a] = SendingOf(a)']
           /\ \A u \in Threads \ {a} : Waiting(u)' <=> Waiting(u)
           /\ (a \in Threads => (Waiting(a)' <=> Waiting(a))) => Waiters' = Waiters
<1>1. ASSUME NEW u \in Threads, u # a
      PROVE  (Waiting(u)' <=> Waiting(u)) /\ (In(u)' <=> In(u)) /\ pc'[u] = pc[u]
  BY <1>1 DEF Mine, Actors, Waiting, In, Releasing
<1>2. ASSUME NEW u \in Threads, u # a PROVE PlaceOf(u)' = PlaceOf(u)
  BY <1>1, <1>2 DEF PlaceOf
<1>3. ASSUME NEW b \in Actors, b # a PROVE SendingOf(b)' = SendingOf(b)
  BY <1>3 DEF Mine, SendingOf
<1>4. a \in Threads => place' = [place EXCEPT ![a] = PlaceOf(a)']
  BY <1>2 DEF place
<1>5. a \notin Threads => place' = place
  BY <1>2 DEF place
<1>6. sending' = [sending EXCEPT ![a] = SendingOf(a)']
  BY <1>3 DEF sending
<1>7. (a \in Threads => (Waiting(a)' <=> Waiting(a))) => Waiters' = Waiters
  BY <1>1 DEF Waiters
<1> QED BY <1>1, <1>4, <1>5, <1>6, <1>7

(* Such a step of a leaves what Monitor sees alone.                        *)
LEMMA OwnStutter ==
    ASSUME MonitorInv, NEW a \in Actors, Mine(a),
           \A u \in Threads \ {a} : state'[u] = state[u],
           \A b \in Actors \ {a} : all'[b] = all[b],
           a \in Threads => PlaceOf(a)' = PlaceOf(a) /\ (Waiting(a)' <=> Waiting(a)),
           SendingOf(a)' = SendingOf(a)
    PROVE  place' = place /\ sending' = sending /\ Waiters' = Waiters
<1>1. place' = place
  BY OwnStep DEF place
<1>2. sending' = sending
  BY OwnStep DEF sending
<1> QED BY <1>1, <1>2, OwnStep

(* Monitor sees the same waiters in rings that have not changed.           *)
LEMMA SameWaiters == ASSUME UNCHANGED waitset, Waiters' = Waiters PROVE waiters' = waiters
  BY DEF waiters

-----------------------------------------------------------------------------
(* The calls: kernel_lock asks for the lock, the others happen inside.     *)
LEMMA UserRefines ==
    ASSUME MonitorInv, MonitorInv', NEW t \in Threads, UserStep(t)
    PROVE  [M!Next]_(M!vars)
<1>a. t \in Actors
  BY DEF Actors
<1>t. pc \in [Actors -> Places] /\ call \in [Actors -> Calls]
  BY DEF MonitorInv, TypeOK
<1>o. CallOK(t) /\ StateOK(t) /\ StateOK(t)'
  BY <1>a DEF MonitorInv, CallsInvariant, StatesInvariant
<1>p. PlacesAgree /\ PlacesAgree'
  BY PlacesMap, PlacesMapNext
<1>m. Mine(t)
  BY <1>a, MineStep
<1>s. UNCHANGED <<state, waitset, all>>
  BY DEF UserStep, kernel_lock, kernel_unlock, kernel_sleep, kernel_wait_wchan, StartCall, ringVars
<1>n. ~ Waiting(t) /\ ~ Waiting(t)'
  <2>1. pc[t] \in {"user", "kernel"} /\ pc'[t] = "mutex"
    BY <1>a, <1>t DEF UserStep, kernel_lock, kernel_unlock, kernel_sleep, kernel_wait_wchan,
                      StartCall, Go
  <2> QED BY <1>o, <2>1 DEF Waiting, StateOK
<1>q. SendingOf(t)' = SendingOf(t) /\ SendingOf(t) = M!Quiet
  <2>1. pc[t] \in {"user", "kernel"} /\ pc'[t] = "mutex"
    BY <1>a, <1>t DEF UserStep, kernel_lock, kernel_unlock, kernel_sleep, kernel_wait_wchan,
                      StartCall, Go
  <2> QED BY <2>1 DEF SendingOf, M!Quiet
<1>w. waiters' = waiters /\ sending' = sending /\ place' = [place EXCEPT ![t] = PlaceOf(t)']
  <2>1. /\ place' = [place EXCEPT ![t] = PlaceOf(t)'] /\ Waiters' = Waiters
        /\ sending' = [sending EXCEPT ![t] = SendingOf(t)']
    BY <1>a, <1>m, <1>s, <1>n, OwnStep
  <2> QED BY <1>q, <1>s, <2>1, SameWaiters DEF sending
<1>1. CASE kernel_lock(t)
  <2>1. pc[t] = "user" /\ pc'[t] = "mutex" /\ call'[t] = "lock"
    BY <1>1, <1>a, <1>t DEF kernel_lock, StartCall, Go
  <2>2. PlaceOf(t) = "out" /\ PlaceOf(t)' = "asking"
    BY <1>n, <1>o, <2>1 DEF PlaceOf, In, Releasing, CallOK
  <2>3. M!Ask(t)
    BY <1>w, <2>2 DEF M!Ask, M!Move, place
  <2> QED BY <2>3 DEF M!Next
<1>2. CASE ~ kernel_lock(t)
  <2>1. pc[t] = "kernel" /\ pc'[t] = "mutex" /\ call'[t] \in {"unlock", "sleep", "wait"}
    BY <1>2, <1>a, <1>t DEF UserStep, kernel_unlock, kernel_sleep, kernel_wait_wchan, StartCall, Go
  <2>2. PlaceOf(t) = "in" /\ PlaceOf(t)' = "in"
    BY <1>n, <2>1 DEF PlaceOf, In, Releasing
  <2>3. place' = place
    BY <1>w, <2>2 DEF place
  <2> QED BY <1>w, <2>3 DEF M!vars
<1> QED BY <1>1, <1>2

(* The parts of kernel_lock, kernel_unlock, kernel_wait and kernel_sleep   *)
(* that Monitor does not see.                                              *)
LEMMA InnerRefines ==
    ASSUME MonitorInv, MonitorInv', NEW t \in Threads,
           \/ LockMutex(t)
           \/ WaitForSemaphore(t)
           \/ sleep_releasing(t)
           \/ RelockMutex(t)
           \/ UnlockMutex(t) /\ call[t] = "lock"
    PROVE  UNCHANGED M!vars
<1>a. t \in Actors
  BY DEF Actors
<1>t. /\ pc \in [Actors -> Places] /\ call \in [Actors -> Calls]
      /\ state \in [Threads -> {"RUNNING", "STOPPED", "EXITED"}]
  BY DEF MonitorInv, TypeOK
<1>o. CallOK(t) /\ StateOK(t)
  BY <1>a DEF MonitorInv, CallsInvariant, StatesInvariant
<1>m. Mine(t)
  BY <1>a, MineStep DEF Step
<1>s. UNCHANGED <<waitset, all>> /\ \A u \in Threads \ {t} : state'[u] = state[u]
  BY <1>t DEF LockMutex, WaitForSemaphore, sleep_releasing, RelockMutex, UnlockMutex, ringVars, argVars
<1>1. /\ PlaceOf(t)' = PlaceOf(t)
      /\ Waiting(t)' <=> Waiting(t)
      /\ SendingOf(t)' = SendingOf(t)
  <2> USE DEF PlaceOf, In, Releasing, Waiting, SendingOf
  <2>1. CASE LockMutex(t)
    <3>1. /\ pc[t] = "mutex" /\ pc'[t] = IF call[t] = "lock" THEN "test" ELSE "cvlock"
          /\ call'[t] = call[t] /\ state'[t] = state[t]
      BY <2>1, <1>a, <1>t DEF LockMutex, Go, argVars
    <3>2. call[t] \in {"lock", "unlock", "wait", "sleep"} /\ state[t] # "STOPPED"
      BY <1>a, <1>o, <1>t, <3>1 DEF CallOK, StateOK, Calls
    <3> QED BY <3>1, <3>2
  <2>2. CASE WaitForSemaphore(t)
    <3>1. /\ pc[t] = "test" /\ pc'[t] = "push"
          /\ call'[t] = "lock" /\ state'[t] = state[t]
      BY <2>2, <1>a, <1>t DEF WaitForSemaphore, Go
    <3>2. call[t] \in {"lock", "wait"} /\ state[t] # "STOPPED"
      BY <1>a, <1>o, <1>t, <3>1 DEF CallOK, StateOK
    <3> QED BY <3>1, <3>2
  <2>3. CASE sleep_releasing(t)
    <3>1. /\ pc[t] = "sleep" /\ pc'[t] = "woken"
          /\ call'[t] = call[t] /\ state'[t] = "STOPPED"
      BY <2>3, <1>a, <1>t DEF sleep_releasing, Go, argVars
    <3>2. call[t] \in {"lock", "wait"}
      BY <1>a, <1>o, <1>t, <3>1 DEF CallOK, Wait
    <3> QED BY <3>1, <3>2
  <2>4. CASE RelockMutex(t)
    <3>1. /\ pc[t] = "relock" /\ pc'[t] = "test"
          /\ call'[t] = call[t] /\ state'[t] = state[t]
      BY <2>4, <1>a, <1>t DEF RelockMutex, Go, argVars
    <3>2. call[t] \in {"lock", "wait"} /\ state[t] # "STOPPED"
      BY <1>a, <1>o, <1>t, <3>1 DEF CallOK, Wait, StateOK
    <3> QED BY <3>1, <3>2
  <2>5. CASE UnlockMutex(t) /\ call[t] = "lock"
    <3>1. /\ pc[t] = "unlock" /\ pc'[t] = "sleep"
          /\ call[t] = "lock" /\ call'[t] = call[t] /\ state'[t] = state[t]
      BY <2>5, <1>a, <1>t DEF UnlockMutex, Go, argVars
    <3> QED BY <3>1
  <2> QED BY <2>1, <2>2, <2>3, <2>4, <2>5
<1>2. place' = place /\ sending' = sending /\ Waiters' = Waiters
  BY <1>a, <1>m, <1>s, <1>1, OwnStutter
<1> QED BY <1>2, <1>s, SameWaiters DEF M!vars

(* The thread that finds kernel_sem positive enters: nobody is in.         *)
LEMMA EnterRefines ==
    ASSUME MonitorInv, MonitorInv', NEW t \in Threads, EnterKernel(t)
    PROVE  M!Enter(t)
<1>a. t \in Actors
  BY DEF Actors
<1>t. /\ pc \in [Actors -> Places] /\ call \in [Actors -> Calls]
  BY DEF MonitorInv, TypeOK
<1>o. CallOK(t) /\ StateOK(t)
  BY <1>a DEF MonitorInv, CallsInvariant, StatesInvariant
<1>m. Mine(t)
  BY <1>a, MineStep DEF Step
<1>1. /\ pc[t] = "test" /\ pc'[t] = "kernel" /\ call'[t] = "none"
      /\ UNCHANGED <<state, waitset, all>>
  BY <1>a, <1>t DEF EnterKernel, Go, ringVars
<1>2. call[t] \in {"lock", "wait"} /\ state[t] # "STOPPED"
  BY <1>o, <1>1 DEF CallOK, StateOK
<1>3. /\ PlaceOf(t) = "asking" /\ PlaceOf(t)' = "in"
      /\ ~ Waiting(t) /\ ~ Waiting(t)' /\ SendingOf(t)' = SendingOf(t)
  BY <1>1, <1>2 DEF PlaceOf, Waiting, In, Releasing, SendingOf
<1>4. /\ place' = [place EXCEPT ![t] = "in"] /\ Waiters' = Waiters /\ sending' = sending
  <2>1. sending' = [sending EXCEPT ![t] = SendingOf(t)']
    BY <1>a, <1>m, <1>1, OwnStep
  <2>2. sending' = sending
    BY <1>3, <2>1 DEF sending
  <2> QED BY <1>a, <1>m, <1>1, <1>3, <2>2, OwnStep
<1>5. ASSUME NEW u \in Threads, In(u) PROVE FALSE
  <2>1. CallOK(u) /\ u \in Actors
    BY DEF MonitorInv, CallsInvariant, Actors
  <2>2. ~ HoldsSemaphore(u)
    BY <1>t DEF MonitorInv, KernelExclusion, EnterKernel, SemaphoreFree
  <2>3. HoldsMutex(u)
    BY <1>5, <2>1, <2>2 DEF In, HoldsSemaphore, HoldsMutex, CallOK, Cv, Releasing
  <2>4. HoldsMutex(t)
    BY <1>1 DEF HoldsMutex
  <2>5. u = t
    BY <2>3, <2>4 DEF MonitorInv, MutexInvariant
  <2> QED BY <1>1, <1>2, <1>5, <2>5 DEF In, Releasing
<1>6. M!Free
  BY <1>5, PlacesMap DEF M!Free, PlacesAgree, place
<1>7. waiters' = waiters
  BY <1>1, <1>4, SameWaiters
<1> QED BY <1>3, <1>4, <1>6, <1>7 DEF M!Enter, M!Move, place

(* PushWaiter appends a thread that does not wait yet.                     *)
LEMMA PushRefines ==
    ASSUME MonitorInv, MonitorInv', NEW t \in Threads, PushWaiter(t)
    PROVE  UNCHANGED M!vars
<1>a. t \in Actors
  BY DEF Actors
<1>t. /\ pc \in [Actors -> Places] /\ call \in [Actors -> Calls]
      /\ waitset \in [CVs -> Seq(Threads)]
  BY DEF MonitorInv, TypeOK
<1>o. CallOK(t) /\ StateOK(t)
  BY <1>a DEF MonitorInv, CallsInvariant, StatesInvariant
<1>m. Mine(t)
  BY <1>a, MineStep DEF Step
<1>1. /\ pc[t] = "push" /\ pc'[t] = "unlock" /\ UNCHANGED <<state, call, all>>
      /\ waitset' = [waitset EXCEPT ![on[t]] = Append(@, t)]
  BY <1>a, <1>t DEF PushWaiter, Go, argVars
<1>2. call[t] \in {"lock", "wait"} /\ state[t] # "STOPPED"
  BY <1>o, <1>1 DEF CallOK, StateOK, Wait
<1>3. /\ PlaceOf(t)' = PlaceOf(t) /\ ~ Waiting(t) /\ ~ Waiting(t)'
      /\ SendingOf(t)' = SendingOf(t)
  BY <1>1, <1>2 DEF PlaceOf, Waiting, In, Releasing, SendingOf
<1>4. place' = place /\ sending' = sending /\ Waiters' = Waiters
  BY <1>a, <1>m, <1>1, <1>3, OwnStutter
<1>5. t \notin Waiters
  BY <1>3 DEF Waiters
<1>6. ASSUME NEW v \in Channels PROVE Kept(waitset'[v], Waiters) = Kept(waitset[v], Waiters)
  <2>1. v \in CVs /\ waitset[v] \in Seq(Threads)
    BY <1>t DEF CVs
  <2>2. waitset'[v] = waitset[v] \/ waitset'[v] = Append(waitset[v], t)
    BY <1>1, <1>t, <2>1
  <2>3. Kept(Append(waitset[v], t), Waiters) = Kept(waitset[v], Waiters)
    BY <1>5, <2>1, KeptAppend
  <2> QED BY <2>2, <2>3
<1>7. waiters' = waiters
  BY <1>4, <1>6 DEF waiters
<1> QED BY <1>4, <1>7 DEF M!vars

(* A waiter that takes itself out of the ring was woken before.            *)
LEMMA LeaveRefines ==
    ASSUME MonitorInv, MonitorInv', NEW t \in Threads, LeaveRing(t)
    PROVE  UNCHANGED M!vars
<1>a. t \in Actors
  BY DEF Actors
<1>t. /\ pc \in [Actors -> Places] /\ call \in [Actors -> Calls] /\ on \in [Actors -> CVs]
      /\ waitset \in [CVs -> Seq(Threads)]
  BY DEF MonitorInv, TypeOK
<1>o. CallOK(t) /\ StateOK(t)
  BY <1>a DEF MonitorInv, CallsInvariant, StatesInvariant
<1>m. Mine(t)
  BY <1>a, MineStep DEF Step
<1>1. /\ pc[t] = "woken" /\ pc'[t] = "relock" /\ state[t] = "RUNNING" /\ UNCHANGED <<state, call, all>>
      /\ waitset' = IF removed[t] THEN waitset
                    ELSE [waitset EXCEPT ![on[t]] = RingWithout(t, on[t])]
  BY <1>a, <1>t DEF LeaveRing, Go, argVars
<1>2. call[t] \in {"lock", "wait"}
  BY <1>o, <1>1 DEF CallOK, Wait
<1>3. /\ PlaceOf(t)' = PlaceOf(t) /\ ~ Waiting(t) /\ ~ Waiting(t)'
      /\ SendingOf(t)' = SendingOf(t)
  BY <1>1, <1>2 DEF PlaceOf, Waiting, In, Releasing, SendingOf
<1>4. place' = place /\ sending' = sending /\ Waiters' = Waiters
  BY <1>a, <1>m, <1>1, <1>3, OwnStutter
<1>5. t \notin Waiters
  BY <1>3 DEF Waiters
<1>6. ASSUME NEW v \in Channels PROVE Kept(waitset'[v], Waiters) = Kept(waitset[v], Waiters)
  <2>1. v \in CVs /\ waitset[v] \in Seq(Threads)
    BY <1>t DEF CVs
  <2>2. CASE removed[t] \/ on[t] # v
    BY <1>1, <1>t, <2>1, <2>2
  <2>3. CASE ~ removed[t] /\ on[t] = v
    <3>1. TypeOK /\ RingsInvariant
      BY DEF MonitorInv
    <3>2. Contains(waitset[v], t)
      BY <1>1, <2>1, <2>3, <3>1 DEF RingsInvariant, InRing
    <3>3. PICK i \in 1 .. Len(waitset[v]) :
            waitset[v][i] = t /\ RingWithout(t, v) = RemoveAt(waitset[v], i)
      BY <2>1, <3>1, <3>2, RingWithoutMembers
    <3>4. waitset'[v] = RemoveAt(waitset[v], i)
      BY <1>1, <1>t, <2>1, <2>3, <3>3
    <3>5. waitset[v][i] \notin Waiters
      BY <1>5, <3>3
    <3>6. Kept(RemoveAt(waitset[v], i), Waiters) = Kept(waitset[v], Waiters)
      BY <2>1, <3>5, KeptRemove
    <3> QED BY <3>4, <3>6
  <2> QED BY <2>2, <2>3
<1>7. waiters' = waiters
  BY <1>4, <1>6 DEF waiters
<1> QED BY <1>4, <1>7 DEF M!vars

(* kernel_wait: giving kernel_mutex up is the step in which the thread     *)
(* leaves the monitor and joins the waiters of its channel, as the last.   *)
LEMMA WaitRefines ==
    ASSUME MonitorInv, MonitorInv', NEW t \in Threads, UnlockMutex(t), call[t] = "wait"
    PROVE  on[t] \in Channels /\ M!Wait(t, on[t])
<1>a. t \in Actors
  BY DEF Actors
<1>t. /\ pc \in [Actors -> Places] /\ call \in [Actors -> Calls] /\ on \in [Actors -> CVs]
      /\ waitset \in [CVs -> Seq(Threads)]
  BY DEF MonitorInv, TypeOK
<1>o. CallOK(t) /\ StateOK(t)
  BY <1>a DEF MonitorInv, CallsInvariant, StatesInvariant
<1>m. Mine(t)
  BY <1>a, MineStep DEF Step
<1>1. /\ pc[t] = "unlock" /\ pc'[t] = "sleep" /\ UNCHANGED <<state, call, all, waitset>>
  BY <1>a, <1>t DEF UnlockMutex, Go, argVars, ringVars
<1>2. state[t] # "STOPPED" /\ on[t] \in Channels /\ on[t] \in CVs
  BY <1>a, <1>o, <1>t, <1>1 DEF CallOK, StateOK
<1>3. /\ PlaceOf(t) = "in" /\ PlaceOf(t)' = "waiting" /\ ~ Waiting(t) /\ Waiting(t)'
      /\ SendingOf(t)' = SendingOf(t) /\ SendingOf(t) = M!Quiet
  BY <1>1, <1>2 DEF PlaceOf, Waiting, In, Releasing, SendingOf, M!Quiet
<1>4. /\ place' = [place EXCEPT ![t] = "waiting"]
      /\ sending' = [sending EXCEPT ![t] = SendingOf(t)']
      /\ \A u \in Threads \ {t} : Waiting(u)' <=> Waiting(u)
  BY <1>a, <1>m, <1>1, <1>3, OwnStep
<1>5. Waiters' = Waiters \cup {t} /\ t \notin Waiters
  BY <1>3, <1>4 DEF Waiters
<1>6. sending' = sending
  BY <1>3, <1>4 DEF sending
<1>7. ASSUME NEW v \in Channels, v # on[t]
      PROVE  Kept(waitset[v], Waiters \cup {t}) = Kept(waitset[v], Waiters)
  <2>1. v \in CVs /\ waitset[v] \in Seq(Threads)
    BY <1>t DEF CVs
  <2>2. ~ Contains(waitset[v], t)
    BY <1>7, <2>1 DEF MonitorInv, RingsInvariant
  <2>3. \A u : Contains(waitset[v], u) => (u \in Waiters \cup {t} <=> u \in Waiters)
    BY <2>2
  <2> QED BY <2>1, <2>3, KeptSame
<1>8. Kept(waitset[on[t]], Waiters \cup {t}) = Append(Kept(waitset[on[t]], Waiters), t)
  <2> DEFINE q == waitset[on[t]]
  <2>1. q \in Seq(Threads)
    BY <1>t, <1>2
  <2>2. Contains(q, t) /\ IsInjective(q) /\ q[Len(q)] = t
    BY <1>1, <1>2 DEF MonitorInv, RingsInvariant, InRing
  <2> HIDE DEF q
  <2>3. q # << >>
    BY <2>2 DEF Contains
  <2>4. PICK f \in Seq(Threads), e \in Threads : q = Append(f, e) /\ Len(q) = Len(f) + 1 /\ e = q[Len(q)]
    BY <2>1, <2>3, LastStep
  <2>5. e = t /\ q = Append(f, t)
    BY <2>2, <2>4
  <2>6. ~ Contains(f, t)
    <3>1. /\ Len(f) \in Nat /\ q[Len(f) + 1] = t /\ (\A i \in 1 .. Len(f) : q[i] = f[i])
          /\ DOMAIN q = 1 .. Len(f) + 1 /\ DOMAIN f = 1 .. Len(f)
      BY <2>1, <2>4, <2>5, AppendProperties
    <3>2. \A i \in 1 .. Len(f) : i # Len(f) + 1 /\ i \in 1 .. Len(f) + 1
      BY <3>1
    <3>3. Len(f) + 1 \in 1 .. Len(f) + 1
      BY <3>1
    <3>4. \A i \in 1 .. Len(f) : f[i] # t
      BY <2>2, <3>1, <3>2, <3>3 DEF IsInjective
    <3> QED BY <3>1, <3>4 DEF Contains
  <2>7. Kept(Append(f, t), Waiters) = Kept(f, Waiters)
    BY <1>5, KeptAppend
  <2>8. Kept(Append(f, t), Waiters \cup {t}) = Append(Kept(f, Waiters \cup {t}), t)
    BY KeptAppend
  <2>9. Kept(f, Waiters \cup {t}) = Kept(f, Waiters)
    <3>1. \A u : Contains(f, u) => (u \in Waiters \cup {t} <=> u \in Waiters)
      BY <2>6
    <3> QED BY <3>1, KeptSame
  <2>10. Kept(q, Waiters \cup {t}) = Append(Kept(q, Waiters), t)
    BY <2>5, <2>7, <2>8, <2>9
  <2> QED BY <2>10 DEF q
<1>9. waiters' = [waiters EXCEPT ![on[t]] = Append(@, t)]
  BY <1>1, <1>2, <1>5, <1>7, <1>8 DEF waiters
<1> QED BY <1>a, <1>2, <1>3, <1>4, <1>6, <1>9 DEF M!Wait, M!Leave, M!Move, place, sending

(* A thread that stops waiting, on a channel that loses it.                *)
LEMMA StopWaiting ==
    ASSUME MonitorInv, NEW t \in Threads, on[t] \in Channels,
           NEW v \in Channels, v # on[t]
    PROVE  Kept(waitset[v], Waiters \ {t}) = Kept(waitset[v], Waiters)
<1>1. v \in CVs /\ waitset[v] \in Seq(Threads)
  BY DEF CVs, MonitorInv, TypeOK
<1>2. ~ Contains(waitset[v], t)
  BY <1>1 DEF MonitorInv, RingsInvariant
<1>3. \A u : Contains(waitset[v], u) => (u \in Waiters \ {t} <=> u \in Waiters)
  BY <1>2
<1> QED BY <1>1, <1>3, KeptSame

(* sched_wakeup_expired_timeouts.                                          *)
LEMMA TimeoutRefines ==
    ASSUME MonitorInv, MonitorInv', NEW t \in Threads, Timeout(t)
    PROVE  [M!Next]_(M!vars)
<1>a. t \in Actors
  BY DEF Actors
<1>t. /\ waitset \in [CVs -> Seq(Threads)]
      /\ state \in [Threads -> {"RUNNING", "STOPPED", "EXITED"}]
  BY DEF MonitorInv, TypeOK
<1>o. CallOK(t) /\ StateOK(t)
  BY <1>a DEF MonitorInv, CallsInvariant, StatesInvariant
<1>1. /\ UNCHANGED <<pc, call, on, all, waitset>>
      /\ state[t] = "STOPPED" /\ state'[t] = "RUNNING"
      /\ \A u \in Threads \ {t} : state'[u] = state[u]
  BY <1>t DEF Timeout, argVars, ringVars
<1>m. Mine(t)
  BY <1>1 DEF Mine
<1>2. pc[t] = "woken" /\ ~ removed[t] /\ call[t] \in {"lock", "wait"}
  BY <1>o, <1>1 DEF StateOK, CallOK, Wait
<1>3. SendingOf(t)' = SendingOf(t)
  BY <1>1 DEF SendingOf
<1>4. /\ place' = [place EXCEPT ![t] = PlaceOf(t)']
      /\ sending' = [sending EXCEPT ![t] = SendingOf(t)']
      /\ \A u \in Threads \ {t} : Waiting(u)' <=> Waiting(u)
  BY <1>a, <1>m, <1>1, OwnStep
<1>5. sending' = sending
  BY <1>3, <1>4 DEF sending
<1>6. CASE call[t] = "lock"
  <2>1. PlaceOf(t)' = PlaceOf(t) /\ ~ Waiting(t) /\ ~ Waiting(t)'
    BY <1>1, <1>2, <1>6 DEF PlaceOf, Waiting, In, Releasing
  <2>2. place' = place /\ Waiters' = Waiters
    BY <1>a, <1>m, <1>1, <1>3, <2>1, OwnStutter
  <2> QED BY <1>1, <1>5, <2>2, SameWaiters DEF M!vars
<1>7. CASE call[t] = "wait"
  <2>1. PlaceOf(t) = "waiting" /\ PlaceOf(t)' = "asking" /\ Waiting(t) /\ ~ Waiting(t)'
    BY <1>1, <1>2, <1>7 DEF PlaceOf, Waiting, In, Releasing
  <2>2. Waiters' = Waiters \ {t} /\ t \in Waiters
    BY <1>4, <2>1 DEF Waiters
  <2>3. on[t] \in Channels /\ on[t] \in CVs
    BY <1>a, <1>o, <1>7 DEF CallOK, CVs
  <2> DEFINE q == waitset[on[t]]
  <2>4. q \in Seq(Threads) /\ IsInjective(q) /\ Contains(q, t)
    BY <1>t, <1>2, <2>3 DEF MonitorInv, RingsInvariant, InRing
  <2> HIDE DEF q
  <2>5. Contains(Kept(q, Waiters), t) /\ Kept(q, Waiters) \in Seq(Threads)
    BY <2>2, <2>4, KeptMembers, KeptType
  <2>6. PICK i \in 1 .. Len(Kept(q, Waiters)) : Kept(q, Waiters)[i] = t
    BY <2>5 DEF Contains
  <2>7. RemoveAt(Kept(q, Waiters), i) = Kept(q, Waiters \ {t})
    BY <2>4, <2>6, KeptWithout
  <2>8. waiters[on[t]] = Kept(q, Waiters)
    BY <2>3 DEF waiters, q
  <2>9. waiters' = [waiters EXCEPT ![on[t]] = RemoveAt(@, i)]
    <3>1. waiters' = [v \in Channels |-> Kept(waitset[v], Waiters \ {t})]
      BY <1>1, <2>2 DEF waiters
    <3>2. Kept(waitset[on[t]], Waiters \ {t}) = RemoveAt(waiters[on[t]], i)
      BY <2>7, <2>8 DEF q
    <3>3. \A v \in Channels : v # on[t] => Kept(waitset[v], Waiters \ {t}) = waiters[v]
      BY <2>3, StopWaiting DEF waiters
    <3> QED BY <2>3, <3>1, <3>2, <3>3 DEF waiters
  <2>10. i \in DOMAIN waiters[on[t]] /\ waiters[on[t]][i] = t
    BY <2>5, <2>6, <2>8
  <2>11. M!Move(t, "waiting", "asking")
    BY <1>4, <2>1 DEF M!Move, place
  <2>12. M!Timeout(t, on[t])
    <3>1. \A s, k : M!RemoveAt(s, k) = RemoveAt(s, k)
      BY DEF M!RemoveAt, RemoveAt
    <3>2. waiters' = [waiters EXCEPT ![on[t]] = M!RemoveAt(@, i)]
      BY <2>9, <3>1
    <3> QED BY <1>5, <2>10, <2>11, <3>2 DEF M!Timeout
  <2> QED BY <2>3, <2>12 DEF M!Next
<1> QED BY <1>2, <1>6, <1>7

-----------------------------------------------------------------------------
(* kernel_signal and kernel_broadcast: the signal is on its way.           *)
LEMMA SendRefines ==
    ASSUME MonitorInv, MonitorInv', NEW a \in Actors, NEW v \in Channels, NEW broadcast \in BOOLEAN,
           kernel_signal(a, v, broadcast)
    PROVE  M!Send(a, v, broadcast)
<1>t. /\ pc \in [Actors -> Places] /\ call \in [Actors -> Calls] /\ on \in [Actors -> CVs]
      /\ all \in [Actors -> BOOLEAN]
  BY DEF MonitorInv, TypeOK
<1>o. CallOK(a) /\ (a \in Threads => StateOK(a))
  BY DEF MonitorInv, CallsInvariant, StatesInvariant
<1>m. Mine(a)
  BY MineStep
<1>1. /\ pc'[a] = "cvlock" /\ call'[a] = "signal" /\ on'[a] = v /\ all'[a] = broadcast
      /\ UNCHANGED <<state, waitset>> /\ \A b \in Actors \ {a} : all'[b] = all[b]
      /\ IF a \in Threads THEN pc[a] = "kernel" ELSE pc[a] = "user"
  BY <1>t DEF kernel_signal, Go, ringVars
<1>2. call[a] = "none" /\ (a \in Threads => state[a] # "STOPPED")
  BY <1>o, <1>1 DEF CallOK, StateOK
<1>3. a \in Threads => /\ PlaceOf(a) = "in" /\ PlaceOf(a)' = "in" /\ ~ Waiting(a) /\ ~ Waiting(a)'
  BY <1>1, <1>2 DEF PlaceOf, In, Waiting, Releasing
<1>4. SendingOf(a) = M!Quiet /\ SendingOf(a)' = M!Sent(v, broadcast)
  BY <1>1, <1>2 DEF SendingOf, M!Quiet, M!Sent
<1>5. /\ a \in Threads => place' = [place EXCEPT ![a] = PlaceOf(a)']
      /\ a \notin Threads => place' = place
      /\ sending' = [sending EXCEPT ![a] = SendingOf(a)'] /\ Waiters' = Waiters
  BY <1>m, <1>1, <1>3, OwnStep
<1>6. place' = place
  BY <1>3, <1>5 DEF place
<1>7. waiters' = waiters
  BY <1>1, <1>5, SameWaiters
<1> QED BY <1>3, <1>4, <1>5, <1>6, <1>7 DEF M!Send, place, sending

LEMMA LockRefines ==
    ASSUME MonitorInv, MonitorInv', NEW a \in Actors, LockWaitset(a)
    PROVE  UNCHANGED M!vars
<1>t. pc \in [Actors -> Places]
  BY DEF MonitorInv, TypeOK
<1>o. a \in Threads => StateOK(a)
  BY DEF MonitorInv, StatesInvariant
<1>m. Mine(a)
  BY MineStep DEF SignalStep
<1>1. pc[a] = "cvlock" /\ pc'[a] = "cvpop" /\ UNCHANGED <<state, waitset, call, on, all>>
  BY <1>t DEF LockWaitset, Go, argVars
<1>2. a \in Threads => PlaceOf(a)' = PlaceOf(a) /\ (Waiting(a)' <=> Waiting(a))
  BY <1>o, <1>1 DEF PlaceOf, In, Waiting, Releasing
<1>3. SendingOf(a)' = SendingOf(a)
  BY <1>1 DEF SendingOf
<1>4. place' = place /\ sending' = sending /\ Waiters' = Waiters
  BY <1>m, <1>1, <1>2, <1>3, OwnStutter
<1> QED BY <1>1, <1>4, SameWaiters DEF M!vars

(* The end of cv_signal's loop: for a broadcast, or a signal that has      *)
(* found nobody asleep, nobody waits.                                      *)
LEMMA NoWaiterRefines ==
    ASSUME MonitorInv, MonitorInv', NEW a \in Actors, NoWaiter(a)
    PROVE  [M!Next]_(M!vars)
<1>t. pc \in [Actors -> Places]
  BY DEF MonitorInv, TypeOK
<1>o. CallOK(a) /\ (a \in Threads => StateOK(a))
  BY DEF MonitorInv, CallsInvariant, StatesInvariant
<1>m. Mine(a)
  BY MineStep DEF SignalStep
<1>1. /\ pc[a] = "cvpop" /\ pc'[a] = "cvdone" /\ UNCHANGED <<state, waitset, call, on, all>>
      /\ waitset[Signals(a)] = << >>
  BY <1>t DEF NoWaiter, Go, argVars, ringVars
<1>2. a \in Threads => PlaceOf(a)' = PlaceOf(a) /\ (Waiting(a)' <=> Waiting(a))
  BY <1>o, <1>1 DEF PlaceOf, In, Waiting, Releasing
<1>3. /\ a \in Threads => place' = [place EXCEPT ![a] = PlaceOf(a)']
      /\ a \notin Threads => place' = place
      /\ sending' = [sending EXCEPT ![a] = SendingOf(a)'] /\ Waiters' = Waiters
  BY <1>m, <1>1, <1>2, OwnStep
<1>4. place' = place
  BY <1>2, <1>3 DEF place
<1>5. waiters' = waiters
  BY <1>1, <1>3, SameWaiters
<1>6. CASE call[a] # "signal"
  <2>1. SendingOf(a)' = SendingOf(a)
    BY <1>1, <1>6 DEF SendingOf
  <2>2. sending' = sending
    BY <1>3, <2>1 DEF sending
  <2> QED BY <1>4, <1>5, <2>2 DEF M!vars
<1>7. CASE call[a] = "signal"
  <2>1. on[a] \in Channels /\ Signals(a) = on[a]
    BY <1>o, <1>7 DEF CallOK, Signals
  <2>2. SendingOf(a).channel = <<on[a]>> /\ SendingOf(a)' = M!Quiet
    BY <1>1, <1>7 DEF SendingOf, M!Quiet
  <2>3. waiters[on[a]] = << >>
    BY <1>1, <2>1, KeptEmpty DEF waiters
  <2>4. M!EndSend(a, on[a])
    BY <1>3, <1>4, <1>5, <2>2, <2>3 DEF M!EndSend, sending
  <2> QED BY <2>1, <2>4 DEF M!Next, Actors
<1> QED BY <1>6, <1>7

(* The caller of cv_signal continues: kernel_unlock and kernel_sleep leave *)
(* the monitor.                                                            *)
LEMMA AfterSignalRefines ==
    ASSUME MonitorInv, MonitorInv', NEW a \in Actors, AfterSignal(a)
    PROVE  [M!Next]_(M!vars)
<1>t. /\ pc \in [Actors -> Places] /\ call \in [Actors -> Calls]
      /\ state \in [Threads -> {"RUNNING", "STOPPED", "EXITED"}]
  BY DEF MonitorInv, TypeOK
<1>o. CallOK(a) /\ (a \in Threads => StateOK(a)) /\ (a \notin Threads => a \in Devices)
  BY DEF MonitorInv, CallsInvariant, StatesInvariant, Actors
<1>m. Mine(a)
  BY MineStep DEF SignalStep
<1>1. pc[a] = "cvdone" /\ UNCHANGED <<waitset, on, all>>
  BY DEF AfterSignal
<1>2. /\ call[a] \in {"unlock", "sleep", "wait", "signal"}
      /\ a \notin Threads => call[a] = "signal"
      /\ a \in Threads => state[a] # "STOPPED"
  BY <1>o, <1>t, <1>1 DEF CallOK, StateOK, Cv, Calls
<1>3. \A u \in Threads \ {a} : state'[u] = state[u]
  BY <1>2, <1>t DEF AfterSignal
<1>4. a \in Threads => PlaceOf(a) = "in" /\ ~ Waiting(a)
  BY <1>1, <1>2 DEF PlaceOf, In, Waiting, Releasing
<1>5. SendingOf(a) = M!Quiet
  BY <1>1 DEF SendingOf, M!Quiet
<1>6. CASE call[a] \in {"unlock", "sleep"}
  <2> DEFINE to == IF call[a] = "unlock" THEN "out" ELSE "gone"
  <2>1. /\ a \in Threads /\ call'[a] = "none"
        /\ pc'[a] = IF call[a] = "unlock" THEN "user" ELSE "gone"
        /\ state'[a] = IF call[a] = "unlock" THEN state[a] ELSE "EXITED"
    BY <1>2, <1>6, <1>t DEF AfterSignal, Go
  <2>2. PlaceOf(a)' = to /\ ~ Waiting(a)' /\ SendingOf(a)' = M!Quiet
    BY <1>2, <2>1 DEF PlaceOf, In, Waiting, Releasing, SendingOf, M!Quiet
  <2>3. /\ place' = [place EXCEPT ![a] = PlaceOf(a)'] /\ Waiters' = Waiters
        /\ sending' = [sending EXCEPT ![a] = SendingOf(a)']
    BY <1>m, <1>1, <1>3, <1>4, <2>1, <2>2, OwnStep
  <2>4. sending' = sending
    BY <1>5, <2>2, <2>3 DEF sending
  <2>5. waiters' = waiters
    BY <1>1, <2>3, SameWaiters
  <2>6. M!Leave(a, to) /\ waiters' = waiters
    BY <1>4, <1>5, <2>1, <2>2, <2>3, <2>4, <2>5 DEF M!Leave, M!Move, place, sending
  <2>7. M!Unlock(a) \/ M!Exit(a)
    BY <2>6 DEF M!Unlock, M!Exit
  <2> QED BY <2>1, <2>7 DEF M!Next
<1>7. CASE call[a] \in {"wait", "signal"}
  <2>1. /\ UNCHANGED state
        /\ call'[a] = IF call[a] = "wait" THEN "wait" ELSE "none"
        /\ pc'[a] = IF call[a] = "wait" THEN "push" ELSE IF a \in Threads THEN "kernel" ELSE "user"
    BY <1>7, <1>t DEF AfterSignal, Go
  <2>2. /\ a \in Threads => PlaceOf(a)' = "in" /\ ~ Waiting(a)'
        /\ SendingOf(a)' = M!Quiet
    BY <1>2, <2>1 DEF PlaceOf, In, Waiting, Releasing, SendingOf, M!Quiet
  <2>3. place' = place /\ sending' = sending /\ Waiters' = Waiters
    BY <1>m, <1>1, <1>3, <1>4, <1>5, <2>2, OwnStutter
  <2> QED BY <1>1, <2>3, SameWaiters DEF M!vars
<1> QED BY <1>2, <1>6, <1>7

(* One iteration of cv_signal.  Monitor sees it when a kernel_signal or a  *)
(* kernel_broadcast finds the first waiter asleep: that thread has waited  *)
(* longest, for those before it in the ring are gone.                      *)
LEMMA WakeRefines ==
    ASSUME MonitorInv, MonitorInv', NEW a \in Actors, cv_signal(a)
    PROVE  [M!Next]_(M!vars)
<1>t. /\ pc \in [Actors -> Places] /\ waitset \in [CVs -> Seq(Threads)]
      /\ state \in [Threads -> {"RUNNING", "STOPPED", "EXITED"}]
  BY DEF MonitorInv, TypeOK
<1>o. CallOK(a) /\ (a \in Threads => StateOK(a))
  BY DEF MonitorInv, CallsInvariant, StatesInvariant
<1>m. Mine(a)
  BY MineStep DEF SignalStep
<1>v. PICK v : v = Signals(a)
  OBVIOUS
<1>w. PICK w : w = Head(waitset[v])
  OBVIOUS
<1>1. /\ v \in CVs /\ waitset[v] \in Seq(Threads) /\ waitset[v] # << >>
      /\ w \in Threads /\ w \in Actors /\ w # a
      /\ on[w] = v /\ pc[w] = "woken" /\ state[w] \in {"RUNNING", "STOPPED"}
  BY <1>v, <1>w, HeadOfRing
<1>2. /\ pc[a] = "cvpop" /\ UNCHANGED <<call, on, all>>
      /\ pc' = [pc EXCEPT ![a] = IF SignalUsed(a, w) THEN "cvdone" ELSE "cvpop"]
      /\ waitset' = [waitset EXCEPT ![v] = Tail(@)]
      /\ state' = [state EXCEPT ![w] = IF @ = "STOPPED" THEN "RUNNING" ELSE @]
  BY <1>v, <1>w DEF cv_signal, Go, argVars
<1>3. pc'[a] = IF SignalUsed(a, w) THEN "cvdone" ELSE "cvpop"
  BY <1>2, <1>t
<1>4. /\ pc'[w] = "woken" /\ state'[w] = "RUNNING" /\ \A u \in Threads \ {w} : state'[u] = state[u]
  BY <1>1, <1>2, <1>t
<1>5. CallOK(w) /\ call[w] \in {"lock", "wait"}
  BY <1>1 DEF MonitorInv, CallsInvariant, CallOK, Wait
<1>6. a \in Threads => PlaceOf(a) = "in" /\ PlaceOf(a)' = "in" /\ ~ Waiting(a) /\ ~ Waiting(a)'
  <2>1. a \in Threads => state[a] # "STOPPED" /\ state'[a] = state[a]
    BY <1>o, <1>1, <1>2, <1>4 DEF StateOK
  <2>2. call[a] \in {"unlock", "sleep", "wait", "signal"}
    BY <1>o, <1>2 DEF CallOK, Cv, MonitorInv, TypeOK, Calls
  <2> QED BY <1>2, <1>3, <2>1, <2>2 DEF PlaceOf, In, Waiting, Releasing
<1>7. ASSUME NEW u \in Threads, u # w
      PROVE  PlaceOf(u)' = PlaceOf(u) /\ (Waiting(u)' <=> Waiting(u))
  <2>1. CASE u = a
    BY <1>6, <2>1
  <2>2. CASE u # a
    <3>1. pc'[u] = pc[u] /\ call'[u] = call[u] /\ state'[u] = state[u]
      BY <1>2, <1>4, <1>7, <2>2, <1>t DEF Actors
    <3> QED BY <3>1 DEF PlaceOf, In, Waiting, Releasing
  <2> QED BY <2>1, <2>2
<1>8. place' = [place EXCEPT ![w] = PlaceOf(w)']
  BY <1>1, <1>7 DEF place
<1>9. sending' = [sending EXCEPT ![a] = SendingOf(a)']
  <2>1. ASSUME NEW b \in Actors, b # a PROVE SendingOf(b)' = SendingOf(b)
    BY <1>2, <1>m, <2>1 DEF SendingOf, Mine
  <2> QED BY <2>1 DEF sending
<1>10. ASSUME ~ Waiting(w) PROVE place' = place /\ Waiters' = Waiters
  <2>1. PlaceOf(w)' = PlaceOf(w) /\ ~ Waiting(w)'
    BY <1>1, <1>2, <1>4, <1>5, <1>10 DEF PlaceOf, In, Waiting, Releasing
  <2>2. place' = place
    BY <1>8, <2>1 DEF place
  <2> QED BY <1>7, <1>10, <2>1, <2>2 DEF Waiters
<1>11. CASE call[a] # "signal"
  <2>1. v = kernel_sem_cv /\ v \notin Channels
    BY <1>v, <1>11, MonitorAssumption DEF Signals
  <2>2. ~ Waiting(w)
    BY <1>1, <1>5, <2>1 DEF CallOK, Waiting
  <2>3. SendingOf(a)' = SendingOf(a)
    BY <1>2, <1>11 DEF SendingOf
  <2>4. sending' = sending
    BY <1>9, <2>3 DEF sending
  <2>5. \A x \in Channels : waitset'[x] = waitset[x]
    BY <1>2, <1>t, <2>1 DEF CVs
  <2>6. waiters' = waiters
    BY <1>10, <2>2, <2>5 DEF waiters
  <2> QED BY <1>10, <2>2, <2>4, <2>6 DEF M!vars
<1>12. CASE call[a] = "signal"
  <2>1. v = on[a] /\ v \in Channels /\ v # kernel_sem_cv
    BY <1>v, <1>o, <1>12, MonitorAssumption DEF CallOK, Signals
  <2>2. call[w] = "wait"
    BY <1>1, <1>5, <2>1 DEF CallOK, Wait
  <2>3. waitset'[v] = Tail(waitset[v]) /\ \A x \in Channels : x # v => waitset'[x] = waitset[x]
    BY <1>1, <1>2, <1>t DEF CVs
  <2>4. CASE state[w] = "RUNNING"
    <3>1. ~ Waiting(w) /\ w \notin Waiters
      BY <1>1, <2>4 DEF Waiting, Waiters
    <3>2. SendingOf(a)' = SendingOf(a)
      BY <1>2, <1>3, <2>4 DEF SendingOf, SignalUsed
    <3>3. sending' = sending
      BY <1>9, <3>2 DEF sending
    <3>4. Kept(Tail(waitset[v]), Waiters) = Kept(waitset[v], Waiters)
      BY <1>1, <1>w, <3>1, KeptTail
    <3>5. waiters' = waiters
      BY <1>10, <2>3, <3>1, <3>4 DEF waiters
    <3> QED BY <1>10, <3>1, <3>3, <3>5 DEF M!vars
  <2>5. CASE state[w] = "STOPPED"
    <3>1. Waiting(w) /\ w \in Waiters /\ ~ Waiting(w)'
      BY <1>1, <1>4, <2>2, <2>5 DEF Waiting, Waiters
    <3>2. PlaceOf(w) = "waiting" /\ PlaceOf(w)' = "asking"
      BY <1>1, <1>2, <1>4, <2>2, <3>1 DEF PlaceOf, In, Releasing
    <3>3. Waiters' = Waiters \ {w}
      BY <1>7, <3>1 DEF Waiters
    <3>4. /\ Kept(waitset[v], Waiters) # << >>
          /\ Head(Kept(waitset[v], Waiters)) = w
          /\ Tail(Kept(waitset[v], Waiters)) = Kept(Tail(waitset[v]), Waiters \ {w})
      <4>1. IsInjective(waitset[v])
        BY <1>1 DEF MonitorInv, RingsInvariant
      <4> QED BY <1>1, <1>w, <3>1, <4>1, KeptPop
    <3>5. waiters[v] = Kept(waitset[v], Waiters)
      BY <2>1 DEF waiters
    <3>6. waiters' = [waiters EXCEPT ![v] = Tail(@)]
      <4>1. \A x \in Channels : x # v => Kept(waitset'[x], Waiters \ {w}) = waiters[x]
        BY <1>1, <2>1, <2>3, StopWaiting DEF waiters
      <4>2. Kept(waitset'[v], Waiters \ {w}) = Tail(waiters[v])
        BY <2>3, <3>4, <3>5
      <4>3. waiters' = [x \in Channels |-> Kept(waitset'[x], Waiters \ {w})]
        BY <3>3 DEF waiters
      <4> QED BY <4>1, <4>2, <4>3 DEF waiters
    <3>7. waiters[v] # << >> /\ M!Move(Head(waiters[v]), "waiting", "asking")
      <4>1. M!Move(w, "waiting", "asking")
        BY <1>1, <1>8, <3>2 DEF M!Move, place
      <4>2. waiters[v] # << >> /\ Head(waiters[v]) = w
        BY <3>4, <3>5
      <4> QED BY <4>1, <4>2
    <3>8. sending[a] = SendingOf(a) /\ SendingOf(a) = [channel |-> <<v>>, all |-> all[a]]
      BY <1>2, <1>12, <2>1 DEF sending, SendingOf
    <3>9. sending' = IF sending[a].all THEN sending ELSE [sending EXCEPT ![a] = M!Quiet]
      <4>1. CASE all[a]
        <5>1. SendingOf(a)' = SendingOf(a)
          BY <1>2, <1>3, <1>12, <4>1 DEF SendingOf, SignalUsed, Broadcasts
        <5>2. sending' = sending
          BY <1>9, <5>1 DEF sending
        <5> QED BY <3>8, <4>1, <5>2
      <4>2. CASE ~ all[a]
        <5>1. SendingOf(a)' = M!Quiet
          BY <1>3, <2>5, <4>2 DEF SendingOf, SignalUsed, Broadcasts, M!Quiet
        <5> QED BY <1>9, <3>8, <4>2, <5>1
      <4> QED BY <4>1, <4>2
    <3>10. M!WakeFirst(a, v)
      BY <3>6, <3>7, <3>8, <3>9 DEF M!WakeFirst
    <3> QED BY <2>1, <3>10 DEF M!Next, Actors
  <2> QED BY <1>1, <2>4, <2>5
<1> QED BY <1>11, <1>12

-----------------------------------------------------------------------------
LEMMA InitRefines == Init => M!Init
<1> SUFFICES ASSUME Init PROVE M!Init
  OBVIOUS
<1>1. \A t \in Threads : t \in Actors /\ pc[t] = "user" /\ call[t] = "none" /\ state[t] = "RUNNING"
  BY DEF Init, Actors
<1>2. \A t \in Threads : PlaceOf(t) = "out"
  BY <1>1 DEF PlaceOf, In, Waiting, Releasing
<1>3. \A v \in Channels : waitset[v] = << >>
  BY DEF Init, CVs
<1>4. \A a \in Actors : SendingOf(a) = M!Quiet
  BY DEF Init, SendingOf, M!Quiet
<1>5. place = [t \in Threads |-> "out"]
  BY <1>2 DEF place
<1>6. waiters = [v \in Channels |-> << >>]
  BY <1>3, KeptEmpty DEF waiters
<1>7. sending = [a \in Threads \cup Devices |-> M!Quiet]
  BY <1>4 DEF sending, Actors
<1> QED BY <1>5, <1>6, <1>7 DEF M!Init

LEMMA NextRefines == MonitorInv /\ MonitorInv' /\ [Next]_vars => [M!Next]_(M!vars)
<1>1. ASSUME MonitorInv, MonitorInv', UNCHANGED vars PROVE UNCHANGED M!vars
  <2>1. UNCHANGED <<waitset, state, pc, call, on, all>>
    BY <1>1 DEF vars, ringVars, argVars
  <2>2. Waiters' = Waiters
    BY <2>1 DEF Waiters, Waiting
  <2>3. place' = place
    BY <2>1 DEF place, PlaceOf, In, Waiting, Releasing
  <2>4. sending' = sending
    BY <2>1 DEF sending, SendingOf
  <2> QED BY <2>1, <2>2, <2>3, <2>4, SameWaiters DEF M!vars
<1>2. ASSUME MonitorInv, MonitorInv', NEW t \in Threads, Step(t) PROVE [M!Next]_(M!vars)
  <2>1. CASE \/ LockMutex(t) \/ WaitForSemaphore(t) \/ sleep_releasing(t) \/ RelockMutex(t)
             \/ UnlockMutex(t) /\ call[t] = "lock"
    BY <1>2, <2>1, InnerRefines
  <2>2. CASE EnterKernel(t)
    BY <1>2, <2>2, EnterRefines DEF M!Next
  <2>3. CASE PushWaiter(t)
    BY <1>2, <2>3, PushRefines
  <2>4. CASE LeaveRing(t)
    BY <1>2, <2>4, LeaveRefines
  <2>5. CASE UnlockMutex(t) /\ call[t] # "lock"
    <3>1. call[t] = "wait"
      BY <1>2, <2>5 DEF MonitorInv, CallsInvariant, CallOK, Wait, UnlockMutex, Actors
    <3> QED BY <1>2, <2>5, <3>1, WaitRefines DEF M!Next
  <2> QED BY <1>2, <2>1, <2>2, <2>3, <2>4, <2>5 DEF Step
<1>3. ASSUME MonitorInv, MonitorInv', NEW a \in Actors, SignalStep(a) PROVE [M!Next]_(M!vars)
  BY <1>3, LockRefines, WakeRefines, NoWaiterRefines, AfterSignalRefines DEF SignalStep
<1>4. ASSUME MonitorInv, MonitorInv', NEW a \in Actors, NEW v \in Channels, NEW broadcast \in BOOLEAN,
             kernel_signal(a, v, broadcast)
      PROVE  M!Next
  BY <1>4, SendRefines DEF M!Next, Actors
<1>5. ASSUME MonitorInv, MonitorInv', Next PROVE [M!Next]_(M!vars)
  <2>1. CASE \E t \in Threads : UserStep(t)
    BY <1>5, <2>1, UserRefines
  <2>2. CASE \E t \in Threads : Step(t)
    BY <1>2, <1>5, <2>2
  <2>3. CASE \E t \in Threads : Timeout(t)
    BY <1>5, <2>3, TimeoutRefines
  <2>4. CASE \E a \in Actors : SignalStep(a)
    BY <1>3, <1>5, <2>4
  <2>5. CASE \E a \in Actors, v \in Channels, broadcast \in BOOLEAN : kernel_signal(a, v, broadcast)
    BY <1>4, <1>5, <2>5
  <2>6. CASE Quiescent
    BY <1>1, <1>5, <2>6 DEF Quiescent
  <2> QED BY <1>5, <2>1, <2>2, <2>3, <2>4, <2>5, <2>6 DEF Next
<1> QED BY <1>1, <1>5

(* The semaphore and the condition variables of kernel_cc.c implement the  *)
(* monitor: at most one thread is in the kernel; kernel_wait gives up the  *)
(* lock and joins the waiters in one step; kernel_signal wakes the thread  *)
(* that has waited longest and is not spent on one that is awake; a        *)
(* broadcast ends when nobody waits; nothing else but a timeout ends a     *)
(* wait.                                                                   *)
THEOREM MonitorImplemented == Spec => ImplementsMonitor
<1>1. Spec => []MonitorInv
  BY MonitorInvariant
<1>2. Init => M!Init
  BY InitRefines
<1>3. MonitorInv /\ MonitorInv' /\ [Next]_vars => [M!Next]_(M!vars)
  BY NextRefines
<1> QED BY <1>1, <1>2, <1>3, PTL DEF Spec, ImplementsMonitor, M!Spec

=============================================================================
