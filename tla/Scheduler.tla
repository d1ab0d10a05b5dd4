------------------------------ MODULE Scheduler ------------------------------
(***************************************************************************)
(* The multicore scheduler of tinyos: kernel_sched.c, with the part of the *)
(* machine it drives (cpu_core_halt and the cpu_core_restart functions of  *)
(* bios.c).                                                                *)
(*                                                                         *)
(* A thread control block (TCB) is a member of Threads, or a member of     *)
(* Cores: the idle TCB that is embedded in the control block of a core has *)
(* the name of the core.  A member of Threads whose state is "FREE" stands *)
(* for memory that is not allocated.                                       *)
(*                                                                         *)
(* Every access to the fields below happens with sched_spinlock held, so   *)
(* one critical section is one step.  The exception is yield(), whose      *)
(* critical section runs a loop: it takes the spinlock in one step, wakes  *)
(* one expired sleeper per step, and releases the spinlock in Select.      *)
(* Between that and gain() the core runs without the spinlock.             *)
(***************************************************************************)
EXTENDS Integers, Sequences, FiniteSets, SequencesExt

CONSTANTS
    Cores,                \* the cores of the machine (and their idle TCBs)
    DeviceCores,          \* the cores that get the interrupts of the devices
    Threads,              \* the TCBs that spawn_thread may allocate
    NoCore,               \* sched_spinlock is free
    SCHED_MAX_LEVEL,      \* the number of queues
    SCHED_MAX_SCHEDULED,  \* decisions before `scheduled' wraps
    Durations,            \* the timeouts that sleepers pass
    MaxClock              \* bound on the clock

ASSUME SetsAssumption ==
    /\ Threads \cap Cores = {}
    /\ NoCore \notin Cores
    /\ DeviceCores \subseteq Cores
    /\ IsFiniteSet(Threads)

ASSUME NumbersAssumption ==
    /\ SCHED_MAX_LEVEL \in Nat \ {0}
    /\ SCHED_MAX_SCHEDULED \in Nat
    /\ Durations \subseteq Nat
    /\ MaxClock \in Nat

VARIABLES
    state,           \* TCB.state, "FREE" for a TCB that is not allocated
    phase,           \* TCB.phase
    priority,        \* TCB.priority
    wakeup_time,     \* TCB.wakeup_time
    SCHED,           \* the ready queues; SCHED[0] has the highest priority
    TIMEOUT_LIST,    \* the threads that sleep with a timeout
    scheduled,       \* decisions since the last wrap, saturating
    active_threads,  \* the number of allocated TCBs
    sched_spinlock,  \* the core that holds the spinlock, or NoCore
    clock,           \* bios_clock()
    curtime,         \* the local of sched_wakeup_expired_timeouts
    current,         \* CCB.current_thread of each core
    previous,        \* CCB.previous_thread of each core
    pc,              \* where each core is
    cause,           \* the argument of the yield that sleep_releasing calls
    idle_at,         \* where the idle thread of each core is
    halted_list      \* the cores that wait in cpu_core_halt

tcbVars  == <<state, phase, priority, wakeup_time>>
listVars == <<SCHED, TIMEOUT_LIST, scheduled>>
timeVars == <<clock, curtime>>
coreVars == <<current, previous, pc, cause, idle_at>>
vars     == <<tcbVars, listVars, active_threads, sched_spinlock, timeVars,
              coreVars, halted_list>>

TCBs       == Threads \cup Cores
Levels     == 0 .. SCHED_MAX_LEVEL - 1
NO_TIMEOUT == -1

States == {"FREE", "INIT", "READY", "RUNNING", "STOPPED", "EXITED"}
Phases == {"CLEAN", "DIRTY"}
Causes == {"QUANTUM", "IO", "MUTEX", "IDLE", "USER"}

(* The position of a core:                                                 *)
(*   boot    run_scheduler() has not started                               *)
(*   run     in the code of its current thread                             *)
(*   sleep   in sleep_releasing, between the spinlock and yield            *)
(*   wake    in yield, holding the spinlock                                *)
(*   gain    in yield, the spinlock released, gain() not yet done          *)
(*   halted  in cpu_core_halt                                              *)
(*   off     has left the scheduler                                        *)
Places == {"boot", "run", "sleep", "wake", "gain", "halted", "off"}

(* The position of an idle thread: before its first yield, at the loop     *)
(* test, about to call cpu_core_halt, and in cpu_core_halt or after it,    *)
(* its alarm still to come ("back") or already raised and missed.          *)
IdlePlaces == {"entry", "test", "halt", "back", "missed"}

-----------------------------------------------------------------------------
(* Running thread of a core, and whether the core executes a thread.       *)

InThread(c) == pc[c] = "run" /\ current[c] \in Threads

InIdle(c, place) == pc[c] = "run" /\ current[c] = c /\ idle_at[c] = place

-----------------------------------------------------------------------------
(* The queues.                                                             *)

(* Halting pushes at the front and restart_one pops the front.             *)
cpu_core_restart_one ==
    halted_list' = IF halted_list = << >> THEN halted_list ELSE Tail(halted_list)

(* Slip: push at the front of the queue.                                   *)
sched_queue_add_front(t) ==
    /\ SCHED' = [SCHED EXCEPT ![priority[t]] = <<t>> \o @]
    /\ cpu_core_restart_one

sched_queue_add(t) ==
    /\ SCHED' = [SCHED EXCEPT ![priority[t]] = Append(@, t)]
    /\ cpu_core_restart_one

(* Slip: new timeouts go to the end of the list.                           *)
TimeoutPlace_end(when) == Len(TIMEOUT_LIST) + 1

(* TIMEOUT_LIST is kept in the order of the wakeup times; a new entry goes *)
(* before the first entry that is due later.                               *)
TimeoutPlace(when) ==
    LET later == {i \in DOMAIN TIMEOUT_LIST :
                    when < wakeup_time[TIMEOUT_LIST[i]]}
    IN  CHOOSE i \in 1 .. Len(TIMEOUT_LIST) + 1 :
          /\ i \in later \/ i = Len(TIMEOUT_LIST) + 1
          /\ \A j \in later : i <= j

sched_register_timeout(t, timeout) ==
    IF timeout = NO_TIMEOUT
    THEN UNCHANGED <<wakeup_time, TIMEOUT_LIST>>
    ELSE /\ wakeup_time' = [wakeup_time EXCEPT ![t] = clock + timeout]
         /\ TIMEOUT_LIST' = InsertAt(TIMEOUT_LIST, TimeoutPlace(clock + timeout), t)

(* Slip: the node stays in the list.                                       *)
CancelTimeout_keep(t) ==
    /\ wakeup_time' = [wakeup_time EXCEPT ![t] = NO_TIMEOUT]
    /\ UNCHANGED TIMEOUT_LIST

TimeoutIndex(t) == CHOOSE i \in DOMAIN TIMEOUT_LIST : TIMEOUT_LIST[i] = t

CancelTimeout(t) ==
    IF wakeup_time[t] # NO_TIMEOUT
    THEN /\ TIMEOUT_LIST' = RemoveAt(TIMEOUT_LIST, TimeoutIndex(t))
         /\ wakeup_time' = [wakeup_time EXCEPT ![t] = NO_TIMEOUT]
    ELSE UNCHANGED <<TIMEOUT_LIST, wakeup_time>>

(* Slip: a thread is queued while a core still runs on its stack.          *)
ContextSaved_always(t) == TRUE

ContextSaved(t) == phase[t] = "CLEAN"

sched_make_ready(t) ==
    /\ CancelTimeout(t)
    /\ state' = [state EXCEPT ![t] = "READY"]
    /\ IF ContextSaved(t)
       THEN sched_queue_add(t)
       ELSE UNCHANGED <<SCHED, halted_list>>

(* The queue that sched_queue_select probes in iteration i of its loop.    *)
Probe(i) == IF scheduled <= SCHED_MAX_SCHEDULED THEN i ELSE i % 4

AnyReady == \E i \in Levels : SCHED[Probe(i)] # << >>

FirstReady ==
    Probe(CHOOSE i \in Levels :
            /\ SCHED[Probe(i)] # << >>
            /\ \A j \in 0 .. i - 1 : SCHED[Probe(j)] = << >>)

(* What sched_queue_select returns on core c.                              *)
sched_queue_select(c) ==
    IF AnyReady THEN Head(SCHED[FirstReady])
    ELSE IF state[current[c]] = "READY" THEN current[c] ELSE c

(* scheduled is reset when it exceeds the limit and a thread is found; it  *)
(* only matters whether it exceeds the limit, so it saturates there.       *)
NextScheduled ==
    LET s == IF AnyReady /\ scheduled > SCHED_MAX_SCHEDULED THEN 0 ELSE scheduled
    IN  IF s > SCHED_MAX_SCHEDULED THEN s ELSE s + 1

(* Slip: the lowest level is off by one.                                   *)
NextPriority_off_by_one(p, why) ==
    IF why \in {"QUANTUM", "MUTEX"} /\ p < SCHED_MAX_LEVEL THEN p + 1
    ELSE IF why = "IO" /\ p > 0 THEN p - 1
    ELSE p

(* The priority of a thread that yields for the given cause.               *)
NextPriority(p, why) ==
    IF why \in {"QUANTUM", "MUTEX"} /\ p < SCHED_MAX_LEVEL - 1 THEN p + 1
    ELSE IF why = "IO" /\ p > 0 THEN p - 1
    ELSE p

-----------------------------------------------------------------------------
(* boot_tinyos_kernel: core 0 has executed Exec for the init task, whose   *)
(* main thread is spawned and made ready; every core is at the barrier.    *)

Init ==
    /\ \E t \in Threads :
         /\ state = [u \in TCBs |-> IF u = t THEN "READY"
                                    ELSE IF u \in Threads THEN "FREE" ELSE "INIT"]
         /\ SCHED = [l \in Levels |-> IF l = 0 THEN <<t>> ELSE << >>]
    /\ phase = [u \in TCBs |-> "CLEAN"]
    /\ priority = [u \in TCBs |-> 0]
    /\ wakeup_time = [u \in TCBs |-> NO_TIMEOUT]
    /\ TIMEOUT_LIST = << >>
    /\ scheduled = 0
    /\ active_threads = 1
    /\ sched_spinlock = NoCore
    /\ clock = 0
    /\ curtime = 0
    /\ current = [c \in Cores |-> c]
    /\ previous = [c \in Cores |-> c]
    /\ pc = [c \in Cores |-> "boot"]
    /\ cause = [c \in Cores |-> "IDLE"]
    /\ idle_at = [c \in Cores |-> "entry"]
    /\ halted_list = << >>

run_scheduler(c) ==
    /\ pc[c] = "boot"
    /\ state' = [state EXCEPT ![c] = "RUNNING"]
    /\ phase' = [phase EXCEPT ![c] = "DIRTY"]
    /\ current' = [current EXCEPT ![c] = c]
    /\ pc' = [pc EXCEPT ![c] = "run"]
    /\ UNCHANGED <<priority, wakeup_time, listVars, active_threads,
                   sched_spinlock, timeVars, previous, cause, idle_at, halted_list>>

-----------------------------------------------------------------------------
(* Calls that the kernel makes in the running thread of core c.            *)

(* Slip: the new thread is not counted.                                    *)
spawn_thread_uncounted(c, t) ==
    /\ InThread(c)
    /\ state[t] = "FREE"
    /\ state' = [state EXCEPT ![t] = "INIT"]
    /\ phase' = [phase EXCEPT ![t] = "CLEAN"]
    /\ wakeup_time' = [wakeup_time EXCEPT ![t] = NO_TIMEOUT]
    /\ priority' = [priority EXCEPT ![t] = 0]
    /\ UNCHANGED <<active_threads, listVars, sched_spinlock, timeVars, coreVars,
                   halted_list>>

spawn_thread(c, t) ==
    /\ InThread(c)
    /\ state[t] = "FREE"
    /\ state' = [state EXCEPT ![t] = "INIT"]
    /\ phase' = [phase EXCEPT ![t] = "CLEAN"]
    /\ wakeup_time' = [wakeup_time EXCEPT ![t] = NO_TIMEOUT]
    /\ priority' = [priority EXCEPT ![t] = 0]
    /\ active_threads' = active_threads + 1
    /\ UNCHANGED <<listVars, sched_spinlock, timeVars, coreVars, halted_list>>

(* Besides the calls of a thread there are those of serial_rx_handler,     *)
(* which interrupts a core of the devices also in its idle thread.  The    *)
(* call returns 0 and changes nothing for any other state.                 *)
wakeup(c, t) ==
    /\ InThread(c) \/ (c \in DeviceCores /\ pc[c] = "run")
    /\ sched_spinlock = NoCore
    /\ state[t] \in {"STOPPED", "INIT"}
    /\ sched_make_ready(t)
    /\ UNCHANGED <<phase, priority, scheduled, active_threads, sched_spinlock,
                   timeVars, coreVars>>

(* The mutex argument belongs to the caller (see KernelMonitor).           *)
sleep_releasing(c, newstate, why, timeout) ==
    /\ InThread(c)
    /\ sched_spinlock = NoCore
    /\ state' = [state EXCEPT ![current[c]] = newstate]
    /\ IF newstate # "EXITED"
       THEN sched_register_timeout(current[c], timeout)
       ELSE UNCHANGED <<wakeup_time, TIMEOUT_LIST>>
    /\ cause' = [cause EXCEPT ![c] = why]
    /\ pc' = [pc EXCEPT ![c] = "sleep"]
    /\ UNCHANGED <<phase, priority, SCHED, scheduled, active_threads,
                   sched_spinlock, timeVars, current, previous, idle_at, halted_list>>

-----------------------------------------------------------------------------
(* yield(): from the call to the loop over TIMEOUT_LIST.                   *)

EnterYield(c, why) ==
    /\ sched_spinlock = NoCore
    /\ sched_spinlock' = c
    /\ state' = [state EXCEPT ![current[c]] = IF @ = "RUNNING" THEN "READY" ELSE @]
    /\ priority' = [priority EXCEPT ![current[c]] = NextPriority(@, why)]
    /\ curtime' = clock
    /\ pc' = [pc EXCEPT ![c] = "wake"]
    /\ cause' = [cause EXCEPT ![c] = "IDLE"]
    /\ UNCHANGED <<phase, wakeup_time, listVars, active_threads, clock,
                   current, previous, halted_list>>

(* The ALARM handler.                                                      *)
yield_handler(c) ==
    /\ pc[c] = "run"
    /\ EnterYield(c, "QUANTUM")
    /\ UNCHANGED idle_at

(* Mutex_Lock under contention, and serial_write on a busy device.         *)
YieldInKernel(c, why) ==
    /\ InThread(c)
    /\ EnterYield(c, why)
    /\ UNCHANGED idle_at

YieldSleeping(c) ==
    /\ pc[c] = "sleep"
    /\ EnterYield(c, cause[c])
    /\ UNCHANGED idle_at

YieldIdle(c) ==
    /\ \E place \in {"entry", "back", "missed"} : InIdle(c, place)
    /\ EnterYield(c, "IDLE")
    /\ idle_at' = [idle_at EXCEPT ![c] = "test"]

(* Slip: a thread that is due now stays asleep.                            *)
Expired_strict == /\ TIMEOUT_LIST # << >>
                  /\ wakeup_time[Head(TIMEOUT_LIST)] < curtime

(* One iteration of the loop of sched_wakeup_expired_timeouts.             *)
Expired == /\ TIMEOUT_LIST # << >>
           /\ wakeup_time[Head(TIMEOUT_LIST)] <= curtime

sched_wakeup_expired_timeouts(c) ==
    /\ pc[c] = "wake"
    /\ Expired
    /\ sched_make_ready(Head(TIMEOUT_LIST))
    /\ UNCHANGED <<phase, priority, scheduled, active_threads, sched_spinlock,
                   timeVars, coreVars>>

(* The rest of the critical section of yield, and the context switch.      *)
Select(c) ==
    /\ pc[c] = "wake"
    /\ ~ Expired
    /\ SCHED' = IF AnyReady THEN [SCHED EXCEPT ![FirstReady] = Tail(@)] ELSE SCHED
    /\ scheduled' = NextScheduled
    /\ previous' = [previous EXCEPT ![c] = current[c]]
    /\ current' = [current EXCEPT ![c] = sched_queue_select(c)]
    /\ sched_spinlock' = NoCore
    /\ curtime' = 0
    /\ pc' = [pc EXCEPT ![c] = "gain"]
    /\ UNCHANGED <<tcbVars, TIMEOUT_LIST, active_threads, clock, cause, idle_at,
                   halted_list>>

Switched(c) == current[c] # previous[c]

(* Slip: a thread that was woken before gain() is not queued.              *)
RequeuePrevious_never(c) == UNCHANGED <<SCHED, halted_list>>

(* A thread that is switched off is queued if it is ready by now.          *)
RequeuePrevious(c) ==
    IF Switched(c) /\ state[previous[c]] = "READY" /\ previous[c] \in Threads
    THEN sched_queue_add(previous[c])
    ELSE UNCHANGED <<SCHED, halted_list>>

(* Slip: every thread that is switched off and not ready is released.      *)
ReleasesPrevious_stopped(c) ==
    Switched(c) /\ state[previous[c]] \in {"EXITED", "STOPPED"}

ReleasesPrevious(c) == Switched(c) /\ state[previous[c]] = "EXITED"

release_TCB == active_threads' = active_threads - 1

gain(c) ==
    /\ pc[c] = "gain"
    /\ sched_spinlock = NoCore
    /\ pc' = [pc EXCEPT ![c] = "run"]
    /\ phase' = [u \in TCBs |-> IF u = current[c] THEN "DIRTY"
                                ELSE IF u = previous[c] THEN "CLEAN" ELSE phase[u]]
    /\ RequeuePrevious(c)
    /\ IF ReleasesPrevious(c)
       THEN /\ state' = [state EXCEPT ![current[c]] = "RUNNING", ![previous[c]] = "FREE"]
            /\ release_TCB
       ELSE /\ state' = [state EXCEPT ![current[c]] = "RUNNING"]
            /\ UNCHANGED active_threads
    /\ UNCHANGED <<priority, wakeup_time, TIMEOUT_LIST, scheduled, sched_spinlock,
                   timeVars, current, previous, cause, idle_at>>

-----------------------------------------------------------------------------
(* The loop of the idle thread.                                            *)

(* Slip: the loop goes on with no thread left.                             *)
idle_thread_continue_at_zero(c) ==
    /\ InIdle(c, "test")
    /\ active_threads >= 0
    /\ idle_at' = [idle_at EXCEPT ![c] = "halt"]
    /\ UNCHANGED <<tcbVars, listVars, active_threads, sched_spinlock, timeVars,
                   current, previous, pc, cause, halted_list>>

idle_thread_continue(c) ==
    /\ InIdle(c, "test")
    /\ active_threads > 0
    /\ idle_at' = [idle_at EXCEPT ![c] = "halt"]
    /\ UNCHANGED <<tcbVars, listVars, active_threads, sched_spinlock, timeVars,
                   current, previous, pc, cause, halted_list>>

(* cpu_core_restart_all, and the core leaves the scheduler.                *)
idle_thread_leave(c) ==
    /\ InIdle(c, "test")
    /\ active_threads <= 0
    /\ halted_list' = << >>
    /\ pc' = [pc EXCEPT ![c] = "off"]
    /\ UNCHANGED <<tcbVars, listVars, active_threads, sched_spinlock, timeVars,
                   current, previous, cause, idle_at>>

(* The alarm that gain() has set may be raised between the blocking of the *)
(* signal and the setting of halted: cpu_core_restart finds a core that is *)
(* not halted yet, and the alarm stays pending behind the blocked signal.  *)
cpu_core_halt(c) ==
    /\ InIdle(c, "halt")
    /\ halted_list' = <<c>> \o halted_list
    /\ pc' = [pc EXCEPT ![c] = "halted"]
    /\ \E alarm \in {"back", "missed"} : idle_at' = [idle_at EXCEPT ![c] = alarm]
    /\ UNCHANGED <<tcbVars, listVars, active_threads, sched_spinlock, timeVars,
                   current, previous, cause>>

(* cpu_core_halt returns: the loop on core->halted ends.                   *)
HaltReturns(c) ==
    /\ pc[c] = "halted"
    /\ c \notin ToSet(halted_list)
    /\ pc' = [pc EXCEPT ![c] = "run"]
    /\ UNCHANGED <<tcbVars, listVars, active_threads, sched_spinlock, timeVars,
                   current, previous, cause, idle_at, halted_list>>

(* An interrupt is raised for a halted core, which is restarted: its alarm *)
(* unless it was missed, or that of a device.                              *)
raise_interrupt(c) ==
    /\ idle_at[c] = "back" \/ c \in DeviceCores
    /\ \E i \in DOMAIN halted_list :
         /\ halted_list[i] = c
         /\ halted_list' = RemoveAt(halted_list, i)
    /\ UNCHANGED <<tcbVars, listVars, active_threads, sched_spinlock, timeVars,
                   coreVars>>

Tick ==
    /\ clock < MaxClock
    /\ clock' = clock + 1
    /\ UNCHANGED <<tcbVars, listVars, active_threads, sched_spinlock, curtime,
                   coreVars, halted_list>>

(* Core c is in the loop on core->halted, has missed its alarm and gets no *)
(* interrupt of a device: only another core can restart it.                *)
Stranded(c) ==
    /\ c \in ToSet(halted_list)
    /\ idle_at[c] = "missed"
    /\ c \notin DeviceCores

(* Every core has left the scheduler or stays in cpu_core_halt for ever.   *)
Finished ==
    /\ \A c \in Cores : pc[c] = "off" \/ Stranded(c)
    /\ UNCHANGED vars

-----------------------------------------------------------------------------
KernelCall(c) ==
    \/ \E t \in Threads : spawn_thread(c, t) \/ wakeup(c, t)
    \/ \E d \in Durations \cup {NO_TIMEOUT}, why \in {"IO", "USER"} :
         sleep_releasing(c, "STOPPED", why, d)
    \/ sleep_releasing(c, "EXITED", "USER", NO_TIMEOUT)

Schedule(c) ==
    \/ yield_handler(c)
    \/ \E why \in {"MUTEX", "IO"} : YieldInKernel(c, why)
    \/ YieldSleeping(c)
    \/ YieldIdle(c)
    \/ sched_wakeup_expired_timeouts(c)
    \/ Select(c)
    \/ gain(c)

Idle(c) ==
    \/ run_scheduler(c)
    \/ idle_thread_continue(c)
    \/ idle_thread_leave(c)
    \/ cpu_core_halt(c)
    \/ HaltReturns(c)
    \/ raise_interrupt(c)

Next ==
    \/ \E c \in Cores : KernelCall(c) \/ Schedule(c) \/ Idle(c)
    \/ Tick
    \/ Finished

Spec == Init /\ [][Next]_vars

(* Fairness.  A core keeps executing.  The steps that only the core itself *)
(* can delay are weakly fair.  Those that need the spinlock are strongly   *)
(* fair, since a test-and-set wins eventually, and so are the steps of the *)
(* idle loop, since a quantum is longer than the code between two alarms.  *)
(* The alarm that gain() arms does arrive, and restarts a halted core that *)
(* has not missed it; a core that has missed it is restarted by another    *)
(* core, or by the devices, whose interrupts the PIC daemon raises every   *)
(* SERIAL_TIMEOUT, or never.  Nothing is assumed of the calls that a       *)
(* thread makes.  In each disjunction at most one disjunct is enabled in   *)
(* any state.                                                              *)
OwnStep(c) ==
    \/ run_scheduler(c)
    \/ sched_wakeup_expired_timeouts(c)
    \/ Select(c)
    \/ HaltReturns(c)
    \/ raise_interrupt(c)

LockStep(c) == yield_handler(c) \/ YieldSleeping(c) \/ gain(c)

IdleStep(c) ==
    \/ YieldIdle(c)
    \/ idle_thread_continue(c)
    \/ idle_thread_leave(c)
    \/ cpu_core_halt(c)

Fairness ==
    \A c \in Cores :
      WF_vars(OwnStep(c)) /\ SF_vars(LockStep(c)) /\ SF_vars(IdleStep(c))

FairSpec == Spec /\ Fairness

-----------------------------------------------------------------------------
(* Properties.                                                             *)

(* Every variable has its type; the priority of a TCB always indexes a     *)
(* queue of SCHED (yield() changes it, sched_queue_add uses it).           *)
TypeOK ==
    /\ state \in [TCBs -> States]
    /\ phase \in [TCBs -> Phases]
    /\ priority \in [TCBs -> Levels]
    /\ wakeup_time \in [TCBs -> Nat \cup {NO_TIMEOUT}]
    /\ SCHED \in [Levels -> Seq(Threads)]
    /\ TIMEOUT_LIST \in Seq(Threads)
    /\ scheduled \in 0 .. SCHED_MAX_SCHEDULED + 1
    /\ active_threads \in Nat
    /\ sched_spinlock \in Cores \cup {NoCore}
    /\ clock \in Nat
    /\ curtime \in Nat
    /\ current \in [Cores -> TCBs]
    /\ previous \in [Cores -> TCBs]
    /\ pc \in [Cores -> Places]
    /\ cause \in [Cores -> Causes]
    /\ idle_at \in [Cores -> IdlePlaces]
    /\ halted_list \in Seq(Cores)

InQueue(t) == \E l \in Levels : Contains(SCHED[l], t)

(* Core c has taken t off the queue and is on its way to gain().           *)
Selected(c, t) == pc[c] = "gain" /\ current[c] = t

(* A TCB is in the queue if and only if it is READY and its context clean, *)
(* as kernel_sched.h says, except for the thread that a core has selected  *)
(* and not yet gained: for that one the documented invariant is broken.    *)
(* Both ways matter: a READY thread that is in no queue is lost for ever,  *)
(* and a queued thread whose context is in use would run twice.            *)
QueueInvariant ==
    \A t \in Threads :
      InQueue(t) <=> /\ state[t] = "READY"
                     /\ phase[t] = "CLEAN"
                     /\ \A c \in Cores : ~ Selected(c, t)

(* The intrusive node of a TCB is in one list at a time, once, and in the  *)
(* queue of its priority.                                                  *)
OneNode ==
    /\ \A l \in Levels : \A t \in Threads : Contains(SCHED[l], t) => priority[t] = l
    /\ \A l \in Levels : IsInjective(SCHED[l])
    /\ IsInjective(TIMEOUT_LIST)
    /\ \A t \in Threads : ~ (InQueue(t) /\ Contains(TIMEOUT_LIST, t))

(* Core c executes on the stack of t, or is switching to or from it.       *)
Holds(c, t) ==
    /\ pc[c] # "boot"
    /\ current[c] = t \/ (pc[c] = "gain" /\ previous[c] = t)

(* The context of t, as saved in its TCB, is out of date: core c runs on   *)
(* its stack, until another thread of c has gained the core.               *)
Loaded(c, t) ==
    IF pc[c] = "gain" THEN previous[c] = t ELSE pc[c] # "boot" /\ current[c] = t

(* A thread is on one core at a time, cpu_swap_context loads only a        *)
(* context that no core is still using, and a context is marked dirty      *)
(* exactly while a core runs on it (otherwise wakeup() would lose the      *)
(* thread: it leaves a dirty one to the gain() of that core).              *)
OneCorePerThread ==
    /\ \A c, d \in Cores : \A t \in TCBs : Holds(c, t) /\ Holds(d, t) => c = d
    /\ \A c \in Cores :
         pc[c] = "gain" /\ current[c] # previous[c] => phase[current[c]] = "CLEAN"
    /\ \A t \in TCBs : phase[t] = "DIRTY" <=> \E c \in Cores : Loaded(c, t)

(* TIMEOUT_LIST holds exactly the threads with a wakeup time, all of them  *)
(* blocked, the earliest first.                                            *)
TimeoutInvariant ==
    /\ \A t \in TCBs : Contains(TIMEOUT_LIST, t) <=> wakeup_time[t] # NO_TIMEOUT
    /\ \A t \in TCBs : wakeup_time[t] # NO_TIMEOUT => state[t] = "STOPPED"
    /\ \A i, j \in DOMAIN TIMEOUT_LIST :
         i < j => wakeup_time[TIMEOUT_LIST[i]] <= wakeup_time[TIMEOUT_LIST[j]]

(* No scheduling decision is made while a thread sleeps past its time: the *)
(* loop of sched_wakeup_expired_timeouts reaches every expired thread.     *)
NoOversleep ==
    [][\A c \in Cores : Select(c) =>
         \A t \in Threads : wakeup_time[t] # NO_TIMEOUT => wakeup_time[t] > curtime]_vars

(* Memory that release_TCB has freed is in no list and on no core.         *)
NoDanglingTCB ==
    \A t \in Threads : state[t] = "FREE" =>
      /\ ~ InQueue(t)
      /\ ~ Contains(TIMEOUT_LIST, t)
      /\ \A c \in Cores : ~ Holds(c, t)

(* A core leaves the scheduler only when no thread is left, so that the    *)
(* machine never stops under a thread that is ready or blocked.            *)
LeaveWhenDone ==
    \A c \in Cores : pc[c] = "off" => \A t \in Threads : state[t] = "FREE"

(* When the last thread is gone the cores leave the scheduler, halted or   *)
(* not: all cores of the devices, and every other core unless it halted    *)
(* after the cores that left had restarted the halted ones, and missed its *)
(* alarm in cpu_core_halt (the window of bios.c:740-742).                  *)
Shutdown ==
    (\A t \in Threads : state[t] = "FREE")
      ~> (\A c \in Cores : pc[c] = "off" \/ Stranded(c))

(* A thread that is ready at the highest priority is eventually executed,  *)
(* whatever the other threads do.                                          *)
TopLevelRuns ==
    \A t \in Threads : Contains(SCHED[0], t) ~> state[t] = "RUNNING"

-----------------------------------------------------------------------------
(* What the proofs of the invariants need besides them.                    *)

(* The spinlock is held exactly inside the critical section of yield.      *)
LockInv == \A c \in Cores : sched_spinlock = c <=> pc[c] = "wake"

(* What the position of a core says about the thread it executes.          *)
CoreOK(c) ==
    /\ current[c] \in Threads \cup {c}
    /\ previous[c] \in Threads \cup {c}
    /\ pc[c] = "sleep" => current[c] \in Threads
    /\ pc[c] \in {"boot", "halted", "off"} => current[c] = c
    /\ pc[c] \in {"run", "halted", "off"} => state[current[c]] = "RUNNING"
    /\ pc[c] \in {"sleep", "wake"} =>
         state[current[c]] \in {"READY", "STOPPED", "EXITED"}
    /\ pc[c] = "wake" /\ current[c] = c => state[c] = "READY"
    /\ pc[c] = "gain" => /\ state[current[c]] = "READY"
                         /\ state[previous[c]] \in {"READY", "STOPPED", "EXITED"}
                         /\ previous[c] = c => state[c] = "READY"

CoreInv == \A c \in Cores : CoreOK(c)

(* An idle thread that its core does not execute can be switched to.       *)
IdleInv ==
    \A c \in Cores :
      pc[c] = "boot" \/ Holds(c, c) \/ (state[c] = "READY" /\ phase[c] = "CLEAN")

(* active_threads counts the TCBs that are allocated.                      *)
Allocated == {t \in Threads : state[t] # "FREE"}

CountInv == active_threads = Cardinality(Allocated)

SchedulerInv ==
    /\ TypeOK
    /\ LockInv /\ CoreInv /\ IdleInv /\ OneCorePerThread
    /\ QueueInvariant /\ OneNode /\ TimeoutInvariant
    /\ CountInv /\ LeaveWhenDone
=============================================================================
