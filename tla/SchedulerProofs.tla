--------------------------- MODULE SchedulerProofs ---------------------------
(***************************************************************************)
(* SchedulerInv is an inductive invariant of Scheduler, for every number   *)
(* of cores, threads and levels; the safety properties follow from it.     *)
(* One lemma per action says that the action preserves it.                 *)
(***************************************************************************)
EXTENDS Scheduler, ListLemmas, FiniteSetTheorems, TLAPS

USE SetsAssumption, NumbersAssumption

(* The ready queues and the timeout list, as one group of invariants.      *)
ListInv == QueueInvariant /\ OneNode /\ TimeoutInvariant

(* The cores and the contexts, as one group.                               *)
CoresInv == LockInv /\ CoreInv /\ IdleInv /\ OneCorePerThread

(* The number of threads, as one group.                                    *)
CountsInv == CountInv /\ LeaveWhenDone

-----------------------------------------------------------------------------
(* The initial states.                                                     *)

LEMMA InitInv == Init => SchedulerInv
<1> SUFFICES ASSUME Init PROVE SchedulerInv
  OBVIOUS
<1>1. PICK t \in Threads :
         /\ state = [u \in TCBs |-> IF u = t THEN "READY"
                                    ELSE IF u \in Threads THEN "FREE" ELSE "INIT"]
         /\ SCHED = [l \in Levels |-> IF l = 0 THEN <<t>> ELSE << >>]
  BY DEF Init
<1>2. TypeOK
  BY <1>1 DEF Init, TypeOK, TCBs, Levels, States, Phases, Places, Causes,
              IdlePlaces, NO_TIMEOUT
<1>3. CoresInv
  BY <1>1 DEF Init, CoresInv, LockInv, CoreInv, CoreOK, IdleInv,
              OneCorePerThread, Holds, Loaded, TCBs
<1>4. \A l \in Levels : \A u : Contains(SCHED[l], u) <=> l = 0 /\ u = t
  BY <1>1 DEF Contains
<1>5. \A l \in Levels : IsInjective(SCHED[l])
  BY <1>1 DEF IsInjective
<1>6. 0 \in Levels
  BY DEF Levels
<1>7. ListInv
  <2>1. QueueInvariant
    BY <1>1, <1>4, <1>6 DEF Init, QueueInvariant, InQueue, Selected, TCBs
  <2>2. OneNode
    BY <1>1, <1>4, <1>5
       DEF Init, OneNode, InQueue, TCBs, Contains, IsInjective
  <2>3. TimeoutInvariant
    BY DEF Init, TimeoutInvariant, Contains, NO_TIMEOUT, TCBs
  <2> QED
    BY <2>1, <2>2, <2>3 DEF ListInv
<1>8. CountsInv
  <2>1. Allocated = {t}
    BY <1>1 DEF Allocated, TCBs
  <2>2. CountInv
    BY <2>1, FS_Singleton DEF CountInv, Init
  <2>3. LeaveWhenDone
    BY DEF LeaveWhenDone, Init
  <2> QED
    BY <2>2, <2>3 DEF CountsInv
<1> QED
  BY <1>2, <1>3, <1>7, <1>8 DEF SchedulerInv, ListInv, CoresInv, CountsInv

-----------------------------------------------------------------------------
(* Steps that change no TCB and no list of TCBs.                           *)

LEMMA SameLists ==
    ASSUME ListInv, UNCHANGED <<state, phase, priority, wakeup_time, SCHED, TIMEOUT_LIST>>,
           UNCHANGED current, \A c \in Cores : pc'[c] = "gain" <=> pc[c] = "gain"
    PROVE  ListInv'
<1>1. QueueInvariant'
  BY DEF ListInv, QueueInvariant, InQueue, Selected
<1>2. OneNode'
  BY DEF ListInv, OneNode, InQueue
<1>3. TimeoutInvariant'
  BY DEF ListInv, TimeoutInvariant
<1> QED
  BY <1>1, <1>2, <1>3 DEF ListInv

(* A core that neither boots nor switches keeps its context.               *)
LEMMA SameContexts ==
    ASSUME OneCorePerThread, UNCHANGED <<phase, current, previous>>,
           \A c \in Cores : /\ pc'[c] = "boot" <=> pc[c] = "boot"
                            /\ pc'[c] = "gain" <=> pc[c] = "gain"
    PROVE  OneCorePerThread'
<1>1. \A c, d \in Cores : \A t \in TCBs : Holds(c, t)' /\ Holds(d, t)' => c = d
  BY DEF OneCorePerThread, Holds
<1>2. \A c \in Cores :
        pc'[c] = "gain" /\ current'[c] # previous'[c] => phase'[current'[c]] = "CLEAN"
  BY DEF OneCorePerThread
<1>3. \A t \in TCBs : phase'[t] = "DIRTY" <=> \E c \in Cores : Loaded(c, t)'
  <2> SUFFICES ASSUME NEW t \in TCBs
               PROVE  phase'[t] = "DIRTY" <=> \E c \in Cores : Loaded(c, t)'
    OBVIOUS
  <2>1. \A c \in Cores : Loaded(c, t)' <=> Loaded(c, t)
    BY DEF Loaded
  <2> QED
    BY <2>1 DEF OneCorePerThread
<1> QED
  BY <1>1, <1>2, <1>3 DEF OneCorePerThread

(* Only members of Threads are ever put to sleep.                          *)
LEMMA IdleNoTimeout ==
    ASSUME TypeOK, TimeoutInvariant, NEW c \in Cores
    PROVE  wakeup_time[c] = NO_TIMEOUT
<1>1. \A i \in 1 .. Len(TIMEOUT_LIST) : TIMEOUT_LIST[i] \in Threads
  BY DEF TypeOK
<1>2. ~ Contains(TIMEOUT_LIST, c)
  BY <1>1 DEF Contains
<1> QED
  BY <1>2 DEF TimeoutInvariant, TCBs

LEMMA SameCount ==
    ASSUME CountsInv, UNCHANGED active_threads,
           \A t \in Threads : state[t] = "FREE" <=> state'[t] = "FREE",
           \A c \in Cores : pc'[c] = "off" => pc[c] = "off"
    PROVE  CountsInv'
<1>1. Allocated' = Allocated
  BY DEF Allocated
<1> QED
  BY <1>1 DEF CountsInv, CountInv, LeaveWhenDone

(* The steps that move a core and nothing else keep every group.           *)
LEMMA BootInv ==
    ASSUME SchedulerInv, NEW c \in Cores, run_scheduler(c)
    PROVE  SchedulerInv'
<1> USE DEF run_scheduler, listVars, timeVars
<1>1. /\ TypeOK /\ LockInv /\ CoreInv /\ IdleInv /\ OneCorePerThread
      /\ ListInv /\ CountsInv
  BY DEF SchedulerInv, ListInv, CountsInv
<1>2. TypeOK'
  BY <1>1 DEF TypeOK, TCBs, States, Phases, Places
<1>3. /\ pc'[c] = "run" /\ current'[c] = c /\ current' = current
      /\ \A d \in Cores \ {c} : pc'[d] = pc[d] /\ state'[d] = state[d] /\ phase'[d] = phase[d]
      /\ \A t \in Threads : state'[t] = state[t] /\ phase'[t] = phase[t]
      /\ state'[c] = "RUNNING" /\ phase'[c] = "DIRTY"
  BY <1>1 DEF TypeOK, TCBs, CoreInv, CoreOK
<1>4. CoreInv'
  <2> SUFFICES ASSUME NEW d \in Cores PROVE CoreOK(d)'
    BY DEF CoreInv
  <2> QED
    BY <1>1, <1>3 DEF CoreInv, CoreOK
<1>5. LockInv' /\ IdleInv'
  BY <1>1, <1>3 DEF LockInv, CoreInv, CoreOK, IdleInv, Holds
<1>6. \A d \in Cores, t \in TCBs : d # c => /\ Holds(d, t)' <=> Holds(d, t)
                                           /\ Loaded(d, t)' <=> Loaded(d, t)
  BY <1>3 DEF Holds, Loaded
<1>7. \A t \in TCBs : /\ Holds(c, t)' <=> t = c
                      /\ Loaded(c, t)' <=> t = c
                      /\ ~ Holds(c, t) /\ ~ Loaded(c, t)
  BY <1>3 DEF Holds, Loaded
<1>8. \A d \in Cores : d # c => ~ Holds(d, c) /\ ~ Loaded(d, c)
  BY <1>1 DEF CoreInv, CoreOK, Holds, Loaded
<1>9. OneCorePerThread'
  <2>1. \A d, e \in Cores : \A t \in TCBs : Holds(d, t)' /\ Holds(e, t)' => d = e
    BY <1>1, <1>6, <1>7, <1>8 DEF OneCorePerThread, TCBs, Holds, Loaded
  <2>2. ASSUME NEW d \in Cores, pc'[d] = "gain", current'[d] # previous'[d]
        PROVE  phase'[current'[d]] = "CLEAN"
    BY <1>1, <1>3, <2>2 DEF OneCorePerThread, CoreInv, CoreOK
  <2>3. ASSUME NEW t \in TCBs
        PROVE  phase'[t] = "DIRTY" <=> \E d \in Cores : Loaded(d, t)'
    <3>1. CASE t = c
      BY <1>3, <1>7, <3>1
    <3>2. CASE t # c
      <4>1. phase'[t] = phase[t]
        BY <1>3, <3>2 DEF TCBs
      <4>2. \A d \in Cores : Loaded(d, t)' <=> Loaded(d, t)
        BY <1>6, <1>7, <3>2 DEF Loaded, Holds
      <4> QED
        BY <1>1, <4>1, <4>2 DEF OneCorePerThread
    <3> QED
      BY <3>1, <3>2
  <2> QED
    BY <2>1, <2>2, <2>3 DEF OneCorePerThread
<1>10. ListInv'
  <2>1. QueueInvariant'
    BY <1>1, <1>3 DEF ListInv, QueueInvariant, InQueue, Selected
  <2>2. OneNode'
    BY <1>1 DEF ListInv, OneNode, InQueue
  <2>3. wakeup_time[c] = NO_TIMEOUT
    BY <1>1, IdleNoTimeout DEF ListInv
  <2>4. TimeoutInvariant'
    BY <1>1, <1>3, <2>3 DEF ListInv, TimeoutInvariant, TCBs
  <2> QED
    BY <2>1, <2>2, <2>4 DEF ListInv
<1>11. CountsInv'
  BY <1>1, <1>3, SameCount
<1> QED
  BY <1>2, <1>4, <1>5, <1>9, <1>10, <1>11 DEF SchedulerInv, ListInv, CountsInv

(* The loop of the idle thread, up to its end; interrupts; the clock.      *)
LEMMA IdleLoopInv ==
    ASSUME SchedulerInv, NEW c \in Cores,
           \/ idle_thread_continue(c)
           \/ cpu_core_halt(c)
           \/ HaltReturns(c)
           \/ raise_interrupt(c)
    PROVE  SchedulerInv'
<1> USE DEF idle_thread_continue, cpu_core_halt, HaltReturns, raise_interrupt,
            InIdle, tcbVars, listVars, timeVars, coreVars
<1>1. /\ TypeOK /\ LockInv /\ CoreInv /\ IdleInv /\ OneCorePerThread
      /\ ListInv /\ CountsInv
  BY DEF SchedulerInv, ListInv, CountsInv
<1>2. halted_list' \in Seq(Cores)
  <2>1. CASE raise_interrupt(c)
    BY <1>1, <2>1, RemoveAtProperties DEF TypeOK
  <2>2. CASE cpu_core_halt(c)
    BY <1>1, <2>2 DEF TypeOK
  <2>3. CASE idle_thread_continue(c) \/ HaltReturns(c)
    BY <1>1, <2>3 DEF TypeOK
  <2> QED
    BY <2>1, <2>2, <2>3
<1>3. TypeOK'
  <2>1. idle_at' \in [Cores -> IdlePlaces]
    BY <1>1 DEF TypeOK, IdlePlaces
  <2>2. pc' \in [Cores -> Places]
    BY <1>1 DEF TypeOK, Places
  <2>3. UNCHANGED <<tcbVars, listVars, active_threads, sched_spinlock, timeVars,
                    current, previous, cause>>
    OBVIOUS
  <2> QED
    BY <1>1, <1>2, <2>1, <2>2, <2>3 DEF TypeOK
<1>4. /\ \A d \in Cores : d # c => pc'[d] = pc[d]
      /\ \/ pc'[c] = pc[c]
         \/ /\ pc[c] \in {"run", "halted"}
            /\ pc'[c] \in {"run", "halted"}
            /\ current[c] = c
  BY <1>1 DEF TypeOK, CoreInv, CoreOK
<1>5. CoreInv'
  <2> SUFFICES ASSUME NEW d \in Cores PROVE CoreOK(d)'
    BY DEF CoreInv
  <2> QED
    BY <1>1, <1>4 DEF CoreInv, CoreOK
<1>6. LockInv' /\ IdleInv'
  BY <1>1, <1>4 DEF LockInv, IdleInv, Holds
<1>7. OneCorePerThread'
  BY <1>1, <1>4, SameContexts
<1>8. ListInv'
  BY <1>1, <1>4, SameLists
<1>9. CountsInv'
  BY <1>1, <1>4, SameCount
<1> QED
  BY <1>3, <1>5, <1>6, <1>7, <1>8, <1>9 DEF SchedulerInv, ListInv, CountsInv

(* A core leaves when it has read active_threads = 0.                      *)
LEMMA LeaveInv ==
    ASSUME SchedulerInv, NEW c \in Cores, idle_thread_leave(c)
    PROVE  SchedulerInv'
<1> USE DEF idle_thread_leave, InIdle, tcbVars, listVars, timeVars
<1>1. /\ TypeOK /\ LockInv /\ CoreInv /\ IdleInv /\ OneCorePerThread
      /\ ListInv /\ CountsInv
  BY DEF SchedulerInv, ListInv, CountsInv
<1>2. TypeOK'
  BY <1>1 DEF TypeOK, Places
<1>3. /\ \A d \in Cores : d # c => pc'[d] = pc[d]
      /\ pc'[c] = "off" /\ pc[c] = "run" /\ current[c] = c
  BY <1>1 DEF TypeOK
<1>4. CoreInv'
  <2> SUFFICES ASSUME NEW d \in Cores PROVE CoreOK(d)'
    BY DEF CoreInv
  <2> QED
    BY <1>1, <1>3 DEF CoreInv, CoreOK
<1>5. LockInv' /\ IdleInv'
  BY <1>1, <1>3 DEF LockInv, IdleInv, Holds
<1>6. OneCorePerThread'
  BY <1>1, <1>3, SameContexts
<1>7. ListInv'
  BY <1>1, <1>3, SameLists
<1>8. CountsInv'
  <2>1. Allocated \in SUBSET Threads /\ Allocated' = Allocated
    BY DEF Allocated
  <2>2. IsFiniteSet(Allocated) /\ Cardinality(Allocated) = 0
    BY <1>1, <2>1, FS_Subset DEF CountsInv, CountInv, TypeOK
  <2>3. Allocated = {}
    BY <2>2, FS_EmptySet
  <2> QED
    BY <1>1, <2>1, <2>3 DEF CountsInv, CountInv, LeaveWhenDone, Allocated
<1> QED
  BY <1>2, <1>4, <1>5, <1>6, <1>7, <1>8 DEF SchedulerInv, ListInv, CountsInv

LEMMA TickInv ==
    ASSUME SchedulerInv, Tick \/ UNCHANGED vars
    PROVE  SchedulerInv'
<1> USE DEF Tick, vars, tcbVars, listVars, timeVars, coreVars
<1>1. /\ TypeOK /\ LockInv /\ CoreInv /\ IdleInv /\ OneCorePerThread
      /\ ListInv /\ CountsInv
  BY DEF SchedulerInv, ListInv, CountsInv
<1>2. TypeOK'
  BY <1>1 DEF TypeOK
<1>3. LockInv' /\ CoreInv' /\ IdleInv'
  BY <1>1 DEF LockInv, CoreInv, CoreOK, IdleInv, Holds
<1>4. OneCorePerThread'
  BY <1>1, SameContexts
<1>5. ListInv'
  BY <1>1, SameLists
<1>6. CountsInv'
  BY <1>1, SameCount
<1> QED
  BY <1>2, <1>3, <1>4, <1>5, <1>6 DEF SchedulerInv, ListInv, CountsInv

-----------------------------------------------------------------------------
(* spawn_thread.                                                           *)

LEMMA SpawnInv ==
    ASSUME SchedulerInv, NEW c \in Cores, NEW t \in Threads, spawn_thread(c, t)
    PROVE  SchedulerInv'
<1> USE DEF spawn_thread, InThread, tcbVars, listVars, timeVars, coreVars
<1>1. /\ TypeOK /\ LockInv /\ CoreInv /\ IdleInv /\ OneCorePerThread
      /\ QueueInvariant /\ OneNode /\ TimeoutInvariant /\ CountInv /\ LeaveWhenDone
  BY DEF SchedulerInv
<1>2. /\ t \in TCBs /\ t \notin Cores
      /\ state'[t] = "INIT" /\ priority'[t] = 0
      /\ \A u \in TCBs : u # t => state'[u] = state[u] /\ priority'[u] = priority[u]
  BY <1>1 DEF TypeOK, TCBs
<1>3. \A d \in Cores : ~ Holds(d, t) /\ ~ Loaded(d, t)
  <2> SUFFICES ASSUME NEW d \in Cores PROVE ~ Holds(d, t) /\ ~ Loaded(d, t)
    OBVIOUS
  <2>1. CoreOK(d) /\ pc[d] \in Places
    BY <1>1 DEF CoreInv, TypeOK
  <2> QED
    BY <2>1 DEF CoreOK, Holds, Loaded, Places
<1>4. phase[t] = "CLEAN" /\ wakeup_time[t] = NO_TIMEOUT
  BY <1>1, <1>2, <1>3 DEF OneCorePerThread, TimeoutInvariant, TypeOK, Phases
<1>5. phase' = phase /\ wakeup_time' = wakeup_time
  BY <1>1, <1>2, <1>4 DEF TypeOK
<1>6. TypeOK'
  <2>1. state' \in [TCBs -> States]
    BY <1>1 DEF TypeOK, States
  <2>2. 0 \in Levels
    BY DEF Levels
  <2>3. priority' \in [TCBs -> Levels]
    BY <1>1, <2>2 DEF TypeOK
  <2> QED
    BY <1>1, <1>5, <2>1, <2>3 DEF TypeOK
<1>7. CoreInv'
  <2> SUFFICES ASSUME NEW d \in Cores PROVE CoreOK(d)'
    BY DEF CoreInv
  <2>1. CoreOK(d) /\ d \in TCBs /\ current[d] \in TCBs /\ previous[d] \in TCBs
    BY <1>1 DEF CoreInv, TypeOK, TCBs
  <2> QED
    BY <1>2, <1>3, <2>1 DEF CoreOK, Holds
<1>8. LockInv' /\ IdleInv'
  BY <1>1, <1>2, <1>5 DEF LockInv, IdleInv, Holds, TCBs
<1>9. OneCorePerThread'
  BY <1>1, <1>5, SameContexts
<1>10. ~ InQueue(t)
  BY <1>1 DEF QueueInvariant
<1>11. QueueInvariant' /\ OneNode' /\ TimeoutInvariant'
  <2>1. QueueInvariant'
    BY <1>1, <1>2, <1>5, <1>10 DEF QueueInvariant, InQueue, Selected, TCBs
  <2>2. OneNode'
    BY <1>1, <1>2, <1>10 DEF OneNode, InQueue, TCBs
  <2>3. TimeoutInvariant'
    BY <1>1, <1>2, <1>4, <1>5 DEF TimeoutInvariant
  <2> QED
    BY <2>1, <2>2, <2>3
<1>12. CountInv'
  <2>1. Allocated' = Allocated \cup {t} /\ t \notin Allocated
    BY <1>2 DEF Allocated, TCBs
  <2>2. IsFiniteSet(Allocated)
    BY FS_Subset DEF Allocated
  <2> QED
    BY <1>1, <2>1, <2>2, FS_AddElement DEF CountInv
<1>13. LeaveWhenDone'
  BY <1>1 DEF LeaveWhenDone, CoreInv, CoreOK
<1> QED
  BY <1>6, <1>7, <1>8, <1>9, <1>11, <1>12, <1>13 DEF SchedulerInv

-----------------------------------------------------------------------------
(* sched_make_ready: what it does to the lists.                            *)

LEMMA QueueAdd ==
    ASSUME TypeOK, OneNode, NEW t \in Threads, ~ InQueue(t), sched_queue_add(t)
    PROVE  /\ SCHED' \in [Levels -> Seq(Threads)]
           /\ halted_list' \in Seq(Cores)
           /\ \A l \in Levels, u \in Threads :
                Contains(SCHED'[l], u) <=> Contains(SCHED[l], u) \/ (u = t /\ l = priority[t])
           /\ \A l \in Levels : IsInjective(SCHED'[l])
<1> DEFINE p == priority[t]
<1>1. p \in Levels /\ SCHED[p] \in Seq(Threads) /\ ~ Contains(SCHED[p], t)
  BY DEF TypeOK, TCBs, InQueue
<1>2. /\ Append(SCHED[p], t) \in Seq(Threads)
      /\ \A u : Contains(Append(SCHED[p], t), u) <=> Contains(SCHED[p], u) \/ u = t
      /\ IsInjective(Append(SCHED[p], t))
  BY <1>1, AppendMembers DEF OneNode
<1>3. /\ SCHED' = [SCHED EXCEPT ![p] = Append(SCHED[p], t)]
      /\ SCHED \in [Levels -> Seq(Threads)]
  BY DEF sched_queue_add, TypeOK
<1>4. halted_list' \in Seq(Cores)
  BY DEF sched_queue_add, cpu_core_restart_one, TypeOK
<1> HIDE DEF p
<1>5. \A l \in Levels : SCHED'[l] = IF l = p THEN Append(SCHED[p], t) ELSE SCHED[l]
  BY <1>1, <1>3
<1>6. SCHED' \in [Levels -> Seq(Threads)]
  BY <1>1, <1>2, <1>3
<1>7. \A l \in Levels : IsInjective(SCHED'[l])
  BY <1>2, <1>5 DEF OneNode
<1>8. \A l \in Levels, u \in Threads :
        Contains(SCHED'[l], u) <=> Contains(SCHED[l], u) \/ (u = t /\ l = p)
  BY <1>2, <1>5
<1> QED
  BY <1>4, <1>6, <1>7, <1>8 DEF p

LEMMA CancelTimeoutKeeps ==
    ASSUME TypeOK, OneNode, TimeoutInvariant, NEW t \in Threads, CancelTimeout(t)
    PROVE  /\ TIMEOUT_LIST' \in Seq(Threads)
           /\ wakeup_time' = [wakeup_time EXCEPT ![t] = NO_TIMEOUT]
           /\ \A u \in TCBs : Contains(TIMEOUT_LIST', u) <=> Contains(TIMEOUT_LIST, u) /\ u # t
           /\ IsInjective(TIMEOUT_LIST')
           /\ \A i, j \in DOMAIN TIMEOUT_LIST' :
                i < j => wakeup_time'[TIMEOUT_LIST'[i]] <= wakeup_time'[TIMEOUT_LIST'[j]]
<1>1. CASE wakeup_time[t] = NO_TIMEOUT
  <2>1. TIMEOUT_LIST' = TIMEOUT_LIST /\ wakeup_time' = wakeup_time
    BY <1>1 DEF CancelTimeout
  <2>2. ~ Contains(TIMEOUT_LIST, t)
    BY <1>1 DEF TimeoutInvariant, TCBs
  <2>3. wakeup_time = [wakeup_time EXCEPT ![t] = NO_TIMEOUT]
    BY <1>1 DEF TypeOK
  <2> QED
    BY <2>1, <2>2, <2>3 DEF TypeOK, OneNode, TimeoutInvariant
<1>2. CASE wakeup_time[t] # NO_TIMEOUT
  <2> DEFINE q == TIMEOUT_LIST
             k == TimeoutIndex(t)
             r == RemoveAt(q, k)
  <2>1. TIMEOUT_LIST' = r /\ wakeup_time' = [wakeup_time EXCEPT ![t] = NO_TIMEOUT]
    BY <1>2 DEF CancelTimeout
  <2>2. q \in Seq(Threads) /\ DOMAIN q = 1 .. Len(q) /\ Len(q) \in Nat /\ IsInjective(q)
    BY DEF TypeOK, OneNode
  <2>3. k \in 1 .. Len(q) /\ q[k] = t
    <3>1. \E i \in DOMAIN q : q[i] = t
      BY <1>2, <2>2 DEF TimeoutInvariant, Contains, TCBs
    <3> QED
      BY <2>2, <3>1 DEF TimeoutIndex
  <2> HIDE DEF k
  <2>4. /\ r \in Seq(Threads)
        /\ \A u : Contains(r, u) <=> Contains(q, u) /\ u # t
        /\ IsInjective(r)
    BY <2>2, <2>3, RemoveMembers
  <2>5. /\ Len(r) = Len(q) - 1
        /\ \A j \in 1 .. Len(q) - 1 : r[j] = IF j < k THEN q[j] ELSE q[j + 1]
    BY <2>2, <2>3, RemoveAtProperties
  <2>6. DOMAIN r = 1 .. Len(q) - 1
    BY <2>4, <2>5
  <2> HIDE DEF r
  <2>7. ASSUME NEW i \in DOMAIN r, NEW j \in DOMAIN r, i < j
        PROVE  wakeup_time'[r[i]] <= wakeup_time'[r[j]]
    <3> DEFINE at(n) == IF n < k THEN n ELSE n + 1
    <3>1. /\ r[i] = q[at(i)] /\ r[j] = q[at(j)]
          /\ at(i) \in DOMAIN q /\ at(j) \in DOMAIN q /\ at(i) < at(j)
          /\ at(i) # k /\ at(j) # k
      BY <2>2, <2>3, <2>5, <2>6, <2>7
    <3> HIDE DEF at
    <3>2. wakeup_time[r[i]] <= wakeup_time[r[j]]
      BY <3>1 DEF TimeoutInvariant
    <3>3. r[i] # t /\ r[j] # t
      BY <2>2, <2>3, <3>1 DEF IsInjective
    <3>4. wakeup_time'[r[i]] = wakeup_time[r[i]] /\ wakeup_time'[r[j]] = wakeup_time[r[j]]
      <4>1. r[i] \in TCBs /\ r[j] \in TCBs
        BY <2>4, <2>7 DEF TCBs
      <4> QED
        BY <2>1, <3>3, <4>1 DEF TypeOK
    <3> QED
      BY <3>2, <3>4
  <2> QED
    BY <2>1, <2>4, <2>7
<1> QED
  BY <1>1, <1>2

(* The whole of sched_make_ready, as wakeup and yield call it.             *)
LEMMA MakeReadyInv ==
    ASSUME SchedulerInv, NEW t \in Threads, state[t] \in {"STOPPED", "INIT"},
           sched_make_ready(t),
           UNCHANGED <<phase, priority, scheduled, active_threads, sched_spinlock,
                       clock, curtime, current, previous, pc, cause, idle_at>>
    PROVE  SchedulerInv'
<1>1. /\ TypeOK /\ LockInv /\ CoreInv /\ IdleInv /\ OneCorePerThread
      /\ QueueInvariant /\ OneNode /\ TimeoutInvariant /\ CountsInv
  BY DEF SchedulerInv, CountsInv
<1>2. /\ t \in TCBs /\ t \notin Cores /\ state'[t] = "READY"
      /\ \A u \in TCBs : u # t => state'[u] = state[u]
      /\ state' \in [TCBs -> States]
  BY <1>1 DEF TypeOK, TCBs, States, sched_make_ready
<1>3. /\ TIMEOUT_LIST' \in Seq(Threads)
      /\ wakeup_time' = [wakeup_time EXCEPT ![t] = NO_TIMEOUT]
      /\ \A u \in TCBs : Contains(TIMEOUT_LIST', u) <=> Contains(TIMEOUT_LIST, u) /\ u # t
      /\ IsInjective(TIMEOUT_LIST')
      /\ \A i, j \in DOMAIN TIMEOUT_LIST' :
           i < j => wakeup_time'[TIMEOUT_LIST'[i]] <= wakeup_time'[TIMEOUT_LIST'[j]]
  BY <1>1, CancelTimeoutKeeps DEF sched_make_ready
<1>4. ~ InQueue(t)
  BY <1>1 DEF QueueInvariant
<1>5. /\ SCHED' \in [Levels -> Seq(Threads)]
      /\ halted_list' \in Seq(Cores)
      /\ \A l \in Levels, u \in Threads :
           Contains(SCHED'[l], u) <=>
             \/ Contains(SCHED[l], u)
             \/ phase[t] = "CLEAN" /\ u = t /\ l = priority[t]
      /\ \A l \in Levels : IsInjective(SCHED'[l])
  <2>1. CASE phase[t] = "CLEAN"
    BY <1>1, <1>4, <2>1, QueueAdd DEF sched_make_ready, ContextSaved
  <2>2. CASE phase[t] # "CLEAN"
    BY <1>1, <2>2 DEF sched_make_ready, ContextSaved, TypeOK, OneNode
  <2> QED
    BY <2>1, <2>2
<1>6. TypeOK'
  <2>1. wakeup_time' \in [TCBs -> Nat \cup {NO_TIMEOUT}]
    BY <1>1, <1>3 DEF TypeOK
  <2> QED
    BY <1>1, <1>2, <1>3, <1>5, <2>1 DEF TypeOK
<1>7. CoreInv'
  <2> SUFFICES ASSUME NEW d \in Cores PROVE CoreOK(d)'
    BY DEF CoreInv
  <2>1. CoreOK(d) /\ d \in TCBs /\ current[d] \in TCBs /\ previous[d] \in TCBs
    BY <1>1 DEF CoreInv, TypeOK, TCBs
  <2> QED
    BY <1>2, <2>1 DEF CoreOK
<1>8. LockInv' /\ IdleInv'
  BY <1>1, <1>2 DEF LockInv, IdleInv, Holds, TCBs
<1>9. OneCorePerThread'
  BY <1>1, SameContexts
<1>10. \A c \in Cores : ~ Selected(c, t)
  BY <1>1 DEF CoreInv, CoreOK, Selected
<1>11. QueueInvariant'
  <2> SUFFICES ASSUME NEW u \in Threads
               PROVE  InQueue(u)' <=> /\ state'[u] = "READY"
                                      /\ phase'[u] = "CLEAN"
                                      /\ \A c \in Cores : ~ Selected(c, u)'
    BY DEF QueueInvariant
  <2>1. InQueue(u)' <=> InQueue(u) \/ (phase[t] = "CLEAN" /\ u = t)
    <3>1. priority[t] \in Levels
      BY <1>1, <1>2 DEF TypeOK
    <3> QED
      BY <1>5, <3>1 DEF InQueue
  <2>2. (\A c \in Cores : ~ Selected(c, u)') <=> (\A c \in Cores : ~ Selected(c, u))
    BY DEF Selected
  <2>3. CASE u = t
    BY <1>2, <1>4, <1>10, <2>1, <2>2, <2>3
  <2>4. CASE u # t
    BY <1>1, <1>2, <2>1, <2>2, <2>4 DEF QueueInvariant, TCBs
  <2> QED
    BY <2>3, <2>4
<1>12. OneNode'
  <2>1. \A l \in Levels, u \in Threads : Contains(SCHED'[l], u) => priority'[u] = l
    BY <1>1, <1>5 DEF OneNode
  <2>2. ASSUME NEW u \in Threads, InQueue(u)', Contains(TIMEOUT_LIST', u)
        PROVE  FALSE
    <3>1. u # t /\ Contains(TIMEOUT_LIST, u)
      BY <1>3, <2>2 DEF TCBs
    <3>2. InQueue(u)
      BY <1>5, <2>2, <3>1 DEF InQueue
    <3> QED
      BY <1>1, <3>1, <3>2 DEF OneNode
  <2> QED
    BY <1>3, <1>5, <2>1, <2>2 DEF OneNode
<1>13. TimeoutInvariant'
  <2>1. wakeup_time'[t] = NO_TIMEOUT /\ \A u \in TCBs : u # t => wakeup_time'[u] = wakeup_time[u]
    BY <1>1, <1>2, <1>3 DEF TypeOK
  <2>2. ASSUME NEW u \in TCBs
        PROVE  /\ Contains(TIMEOUT_LIST', u) <=> wakeup_time'[u] # NO_TIMEOUT
               /\ wakeup_time'[u] # NO_TIMEOUT => state'[u] = "STOPPED"
    BY <1>1, <1>2, <1>3, <2>1 DEF TimeoutInvariant
  <2> QED
    BY <1>3, <2>2 DEF TimeoutInvariant
<1>14. CountsInv'
  BY <1>1, <1>2, SameCount DEF TCBs
<1> QED
  BY <1>6, <1>7, <1>8, <1>9, <1>11, <1>12, <1>13, <1>14 DEF SchedulerInv, CountsInv

LEMMA WakeupInv ==
    ASSUME SchedulerInv, NEW c \in Cores, NEW t \in Threads, wakeup(c, t)
    PROVE  SchedulerInv'
BY MakeReadyInv DEF wakeup, timeVars, coreVars

LEMMA WakeExpiredInv ==
    ASSUME SchedulerInv, NEW c \in Cores, sched_wakeup_expired_timeouts(c)
    PROVE  SchedulerInv'
<1> DEFINE t == Head(TIMEOUT_LIST)
<1>1. /\ t \in Threads /\ Contains(TIMEOUT_LIST, t)
  BY TailMembers DEF sched_wakeup_expired_timeouts, Expired, SchedulerInv, TypeOK, OneNode
<1>2. state[t] = "STOPPED"
  BY <1>1 DEF SchedulerInv, TimeoutInvariant, TCBs
<1>3. sched_make_ready(t)
  BY DEF sched_wakeup_expired_timeouts
<1> HIDE DEF t
<1> QED
  BY <1>1, <1>2, <1>3, MakeReadyInv DEF sched_wakeup_expired_timeouts, timeVars, coreVars

-----------------------------------------------------------------------------
(* sleep_releasing: the place that sched_register_timeout finds.           *)

LEMMA TimeoutPlaceFits ==
    ASSUME TypeOK, TimeoutInvariant, NEW w \in Nat
    PROVE  LET p == TimeoutPlace(w) IN
           /\ p \in 1 .. Len(TIMEOUT_LIST) + 1
           /\ \A i \in DOMAIN TIMEOUT_LIST :
                /\ i < p => wakeup_time[TIMEOUT_LIST[i]] <= w
                /\ i >= p => w <= wakeup_time[TIMEOUT_LIST[i]]
<1> DEFINE q == TIMEOUT_LIST
           n == Len(q)
           later == {i \in DOMAIN q : w < wakeup_time[q[i]]}
           p == TimeoutPlace(w)
<1>1. /\ q \in Seq(Threads) /\ n \in Nat /\ DOMAIN q = 1 .. n
      /\ \A i \in 1 .. n : wakeup_time[q[i]] \in Nat \cup {NO_TIMEOUT}
  BY DEF TypeOK, TCBs
<1>2. \E i \in 1 .. n + 1 : (i \in later \/ i = n + 1) /\ \A j \in later : i <= j
  <2>1. CASE later = {}
    BY <1>1, <2>1
  <2>2. CASE later # {}
    <3>1. later \subseteq Nat
      BY <1>1
    <3> HIDE DEF later
    <3>2. PICK i \in later : \A j \in later : i <= j
      BY <2>2, <3>1, LeastMember
    <3>3. i \in 1 .. n + 1
      BY <1>1, <3>2 DEF later
    <3> QED
      BY <3>2, <3>3
  <2> QED
    BY <2>1, <2>2
<1>3. /\ p \in 1 .. n + 1
      /\ p \in later \/ p = n + 1
      /\ \A j \in later : p <= j
  BY <1>2 DEF TimeoutPlace
<1> HIDE DEF p
<1>4. ASSUME NEW i \in 1 .. n, i < p PROVE wakeup_time[q[i]] <= w
  BY <1>1, <1>3, <1>4 DEF NO_TIMEOUT
<1>5. ASSUME NEW i \in 1 .. n, i >= p PROVE w <= wakeup_time[q[i]]
  <2>1. p \in DOMAIN q /\ w < wakeup_time[q[p]]
    BY <1>1, <1>3, <1>5
  <2>2. i = p \/ wakeup_time[q[p]] <= wakeup_time[q[i]]
    BY <1>1, <1>3, <1>5, <2>1 DEF TimeoutInvariant
  <2> QED
    BY <1>1, <2>1, <2>2 DEF NO_TIMEOUT
<1> QED
  BY <1>1, <1>3, <1>4, <1>5 DEF p

(* The list with the new entry, when t was not in it.                      *)
LEMMA RegisterTimeoutKeeps ==
    ASSUME TypeOK, OneNode, TimeoutInvariant, NEW t \in Threads,
           NEW timeout \in Durations \cup {NO_TIMEOUT},
           wakeup_time[t] = NO_TIMEOUT, sched_register_timeout(t, timeout)
    PROVE  /\ TIMEOUT_LIST' \in Seq(Threads)
           /\ wakeup_time' \in [TCBs -> Nat \cup {NO_TIMEOUT}]
           /\ \A u \in TCBs : u # t => wakeup_time'[u] = wakeup_time[u]
           /\ \A u \in TCBs : Contains(TIMEOUT_LIST', u) <=> wakeup_time'[u] # NO_TIMEOUT
           /\ IsInjective(TIMEOUT_LIST')
           /\ \A i, j \in DOMAIN TIMEOUT_LIST' :
                i < j => wakeup_time'[TIMEOUT_LIST'[i]] <= wakeup_time'[TIMEOUT_LIST'[j]]
<1>1. CASE timeout = NO_TIMEOUT
  BY <1>1 DEF sched_register_timeout, TypeOK, OneNode, TimeoutInvariant
<1>2. CASE timeout # NO_TIMEOUT
  <2> DEFINE q == TIMEOUT_LIST
             w == clock + timeout
             p == TimeoutPlace(w)
             r == InsertAt(q, p, t)
  <2>1. w \in Nat
    BY <1>2 DEF TypeOK
  <2>2. TIMEOUT_LIST' = r /\ wakeup_time' = [wakeup_time EXCEPT ![t] = w]
    BY <1>2 DEF sched_register_timeout
  <2> HIDE DEF w
  <2>3. /\ wakeup_time' \in [TCBs -> Nat \cup {NO_TIMEOUT}]
        /\ wakeup_time'[t] = w
        /\ \A u \in TCBs : u # t => wakeup_time'[u] = wakeup_time[u]
    BY <2>1, <2>2 DEF TypeOK, TCBs
  <2>4. q \in Seq(Threads) /\ DOMAIN q = 1 .. Len(q) /\ Len(q) \in Nat
    BY DEF TypeOK
  <2>5. /\ p \in 1 .. Len(q) + 1
        /\ \A i \in DOMAIN q : /\ i < p => wakeup_time[q[i]] <= w
                               /\ i >= p => w <= wakeup_time[q[i]]
    BY <2>1, TimeoutPlaceFits
  <2> HIDE DEF p
  <2>6. ~ Contains(q, t) /\ IsInjective(q)
    BY DEF TimeoutInvariant, OneNode, TCBs
  <2>7. /\ r \in Seq(Threads)
        /\ \A u : Contains(r, u) <=> Contains(q, u) \/ u = t
        /\ IsInjective(r)
    BY <2>4, <2>5, <2>6, InsertMembers
  <2>8. /\ Len(r) = Len(q) + 1
        /\ \A j \in 1 .. Len(q) + 1 :
             r[j] = IF j < p THEN q[j] ELSE IF j = p THEN t ELSE q[j - 1]
    BY <2>4, <2>5, InsertAtProperties
  <2>9. DOMAIN r = 1 .. Len(q) + 1
    BY <2>7, <2>8
  <2> HIDE DEF r
  <2>10. \A i \in DOMAIN q : q[i] \in TCBs /\ q[i] # t
    BY <2>4, <2>6 DEF Contains, TCBs
  <2>11. ASSUME NEW i \in DOMAIN r, NEW j \in DOMAIN r, i < j
         PROVE  wakeup_time'[r[i]] <= wakeup_time'[r[j]]
    <3> DEFINE at(n) == IF n < p THEN n ELSE n - 1
    <3>1. /\ i # p => r[i] = q[at(i)] /\ at(i) \in DOMAIN q
          /\ j # p => r[j] = q[at(j)] /\ at(j) \in DOMAIN q
      BY <2>4, <2>5, <2>8, <2>9
    <3>2. CASE i # p /\ j # p
      <4>1. at(i) < at(j)
        BY <2>4, <2>5, <2>9, <2>11, <3>2
      <4> HIDE DEF at
      <4>2. wakeup_time[q[at(i)]] <= wakeup_time[q[at(j)]]
        BY <3>1, <3>2, <4>1 DEF TimeoutInvariant
      <4> QED
        BY <2>3, <2>10, <3>1, <3>2, <4>2
    <3>3. CASE i = p
      <4>1. j # p /\ at(j) \in DOMAIN q /\ at(j) >= p /\ r[j] = q[at(j)] /\ r[i] = t
        BY <2>4, <2>5, <2>8, <2>9, <2>11, <3>1, <3>3
      <4> HIDE DEF at
      <4> QED
        BY <2>3, <2>5, <2>10, <4>1
    <3>4. CASE j = p
      <4>1. i # p /\ at(i) \in DOMAIN q /\ at(i) < p /\ r[i] = q[at(i)] /\ r[j] = t
        BY <2>4, <2>5, <2>8, <2>9, <2>11, <3>1, <3>4
      <4> HIDE DEF at
      <4> QED
        BY <2>3, <2>5, <2>10, <4>1
    <3> QED
      BY <3>2, <3>3, <3>4
  <2>12. ASSUME NEW u \in TCBs
         PROVE  Contains(r, u) <=> wakeup_time'[u] # NO_TIMEOUT
    <3>1. CASE u = t
      BY <2>1, <2>3, <2>7, <3>1 DEF NO_TIMEOUT
    <3>2. CASE u # t
      BY <2>3, <2>7, <3>2 DEF TimeoutInvariant
    <3> QED
      BY <3>1, <3>2
  <2> QED
    BY <2>2, <2>3, <2>7, <2>11, <2>12
<1> QED
  BY <1>1, <1>2

LEMMA SleepInv ==
    ASSUME SchedulerInv, NEW c \in Cores, NEW new \in {"STOPPED", "EXITED"},
           NEW why \in Causes, NEW timeout \in Durations \cup {NO_TIMEOUT},
           sleep_releasing(c, new, why, timeout)
    PROVE  SchedulerInv'
<1> DEFINE t == current[c]
<1> USE DEF sleep_releasing, InThread, timeVars
<1>1. /\ TypeOK /\ LockInv /\ CoreInv /\ IdleInv /\ OneCorePerThread
      /\ QueueInvariant /\ OneNode /\ TimeoutInvariant /\ CountsInv
  BY DEF SchedulerInv, CountsInv
<1>2. /\ t \in Threads /\ t \in TCBs /\ t \notin Cores
      /\ state[t] = "RUNNING" /\ state'[t] = new
      /\ \A u \in TCBs : u # t => state'[u] = state[u]
      /\ state' \in [TCBs -> States]
  BY <1>1 DEF TypeOK, TCBs, States, CoreInv, CoreOK
<1>3. pc[c] = "run" /\ pc'[c] = "sleep" /\ \A d \in Cores : d # c => pc'[d] = pc[d]
  BY <1>1 DEF TypeOK
<1>4. wakeup_time[t] = NO_TIMEOUT
  BY <1>1, <1>2 DEF TimeoutInvariant
<1>5. /\ TIMEOUT_LIST' \in Seq(Threads)
      /\ wakeup_time' \in [TCBs -> Nat \cup {NO_TIMEOUT}]
      /\ \A u \in TCBs : u # t => wakeup_time'[u] = wakeup_time[u]
      /\ new = "EXITED" => wakeup_time'[t] = NO_TIMEOUT
      /\ \A u \in TCBs : Contains(TIMEOUT_LIST', u) <=> wakeup_time'[u] # NO_TIMEOUT
      /\ IsInjective(TIMEOUT_LIST')
      /\ \A i, j \in DOMAIN TIMEOUT_LIST' :
           i < j => wakeup_time'[TIMEOUT_LIST'[i]] <= wakeup_time'[TIMEOUT_LIST'[j]]
  <2>1. CASE new = "STOPPED"
    BY <1>1, <1>2, <1>4, <2>1, RegisterTimeoutKeeps
  <2>2. CASE new = "EXITED"
    BY <1>1, <1>4, <2>2 DEF TypeOK, OneNode, TimeoutInvariant
  <2> QED
    BY <2>1, <2>2
<1> HIDE DEF t
<1>6. TypeOK'
  <2>1. pc' \in [Cores -> Places] /\ cause' \in [Cores -> Causes]
    BY <1>1 DEF TypeOK, Places
  <2> QED
    BY <1>1, <1>2, <1>5, <2>1 DEF TypeOK
<1>7. \A d \in Cores : d # c => ~ Holds(d, t)
  BY <1>1, <1>2, <1>3 DEF OneCorePerThread, Holds, t
<1>8. CoreInv'
  <2> SUFFICES ASSUME NEW d \in Cores PROVE CoreOK(d)'
    BY DEF CoreInv
  <2>1. CoreOK(d) /\ d \in TCBs /\ current[d] \in TCBs /\ previous[d] \in TCBs
    BY <1>1 DEF CoreInv, TypeOK, TCBs
  <2>2. CASE d = c
    BY <1>2, <1>3, <2>1, <2>2 DEF CoreOK, t
  <2>3. CASE d # c
    BY <1>2, <1>3, <1>7, <2>1, <2>3 DEF CoreOK, Holds
  <2> QED
    BY <2>2, <2>3
<1>9. LockInv' /\ IdleInv'
  BY <1>1, <1>2, <1>3 DEF LockInv, IdleInv, Holds, TCBs
<1>10. OneCorePerThread'
  BY <1>1, <1>3, SameContexts
<1>11. ~ InQueue(t)
  BY <1>1, <1>2 DEF QueueInvariant
<1>12. QueueInvariant'
  BY <1>1, <1>2, <1>3, <1>11 DEF QueueInvariant, InQueue, Selected, TCBs
<1>13. OneNode'
  <2>1. ASSUME NEW u \in Threads, InQueue(u)
        PROVE  ~ Contains(TIMEOUT_LIST', u)
    BY <1>1, <1>2, <1>5, <1>11, <2>1 DEF OneNode, TimeoutInvariant, TCBs
  <2> QED
    BY <1>1, <1>5, <2>1 DEF OneNode, InQueue
<1>14. TimeoutInvariant'
  <2>1. ASSUME NEW u \in TCBs, wakeup_time'[u] # NO_TIMEOUT
        PROVE  state'[u] = "STOPPED"
    BY <1>1, <1>2, <1>5, <2>1 DEF TimeoutInvariant
  <2> QED
    BY <1>5, <2>1 DEF TimeoutInvariant
<1>15. CountsInv'
  BY <1>1, <1>2, <1>3, SameCount DEF TCBs
<1> QED
  BY <1>6, <1>8, <1>9, <1>10, <1>12, <1>13, <1>14, <1>15 DEF SchedulerInv, CountsInv

-----------------------------------------------------------------------------
(* yield(), up to the loop over TIMEOUT_LIST.                              *)

LEMMA NextPriorityInLevels ==
    ASSUME NEW p \in Levels, NEW why
    PROVE  NextPriority(p, why) \in Levels
BY DEF NextPriority, Levels

LEMMA EnterYieldInv ==
    ASSUME SchedulerInv, NEW c \in Cores, NEW why \in Causes, EnterYield(c, why),
           pc[c] \in {"run", "sleep"}, idle_at' \in [Cores -> IdlePlaces]
    PROVE  SchedulerInv'
<1> DEFINE t == current[c]
<1> USE DEF EnterYield, listVars
<1>1. /\ TypeOK /\ LockInv /\ CoreInv /\ IdleInv /\ OneCorePerThread
      /\ QueueInvariant /\ OneNode /\ TimeoutInvariant /\ CountsInv
  BY DEF SchedulerInv, CountsInv
<1>2. /\ t \in TCBs /\ CoreOK(c)
      /\ state'[t] = IF state[t] = "RUNNING" THEN "READY" ELSE state[t]
      /\ \A u \in TCBs : u # t => state'[u] = state[u] /\ priority'[u] = priority[u]
      /\ state' \in [TCBs -> States]
  BY <1>1 DEF TypeOK, TCBs, States, CoreInv
<1>3. pc'[c] = "wake" /\ \A d \in Cores : d # c => pc'[d] = pc[d]
  BY <1>1 DEF TypeOK
<1>4. priority' \in [TCBs -> Levels]
  BY <1>1, <1>2, NextPriorityInLevels DEF TypeOK
<1>5. TypeOK'
  <2>1. /\ pc' \in [Cores -> Places] /\ cause' \in [Cores -> Causes]
        /\ curtime' \in Nat /\ sched_spinlock' \in Cores \cup {NoCore}
    BY <1>1 DEF TypeOK, Places, Causes
  <2> QED
    BY <1>1, <1>2, <1>4, <2>1 DEF TypeOK
<1>6. phase[t] = "DIRTY" /\ \A d \in Cores : d # c => ~ Holds(d, t)
  <2>1. Loaded(c, t) /\ Holds(c, t)
    BY DEF Loaded, Holds
  <2> QED
    BY <1>1, <1>2, <2>1 DEF OneCorePerThread
<1> HIDE DEF t
<1>7. CoreInv'
  <2> SUFFICES ASSUME NEW d \in Cores PROVE CoreOK(d)'
    BY DEF CoreInv
  <2>1. CoreOK(d) /\ d \in TCBs /\ current[d] \in TCBs /\ previous[d] \in TCBs
    BY <1>1 DEF CoreInv, TypeOK, TCBs
  <2>2. CASE d = c
    BY <1>2, <1>3, <2>1, <2>2 DEF CoreOK, t
  <2>3. CASE d # c
    BY <1>2, <1>3, <1>6, <2>1, <2>3 DEF CoreOK, Holds
  <2> QED
    BY <2>2, <2>3
<1>8. LockInv'
  BY <1>1, <1>3 DEF LockInv
<1>9. IdleInv'
  <2> SUFFICES ASSUME NEW d \in Cores
               PROVE  (pc[d] = "boot" \/ Holds(d, d) \/ (state[d] = "READY" /\ phase[d] = "CLEAN"))'
    BY DEF IdleInv
  <2>1. d \in TCBs /\ (pc[d] = "boot" \/ Holds(d, d) \/ (state[d] = "READY" /\ phase[d] = "CLEAN"))
    BY <1>1 DEF IdleInv, TCBs
  <2> QED
    BY <1>2, <1>3, <1>6, <2>1 DEF Holds
<1>10. OneCorePerThread'
  BY <1>1, <1>3, SameContexts
<1>11. t \in Threads => ~ InQueue(t)
  BY <1>1, <1>6 DEF QueueInvariant
<1>12. QueueInvariant'
  BY <1>1, <1>2, <1>3, <1>6, <1>11 DEF QueueInvariant, InQueue, Selected, TCBs
<1>13. OneNode'
  BY <1>1, <1>2, <1>11 DEF OneNode, InQueue, TCBs
<1>14. TimeoutInvariant'
  BY <1>1, <1>2 DEF TimeoutInvariant
<1>15. CountsInv'
  <2>1. \A u \in Threads : state[u] = "FREE" <=> state'[u] = "FREE"
    BY <1>2 DEF TCBs
  <2> QED
    BY <1>1, <1>3, <2>1, SameCount
<1> QED
  BY <1>5, <1>7, <1>8, <1>9, <1>10, <1>12, <1>13, <1>14, <1>15
     DEF SchedulerInv, CountsInv

LEMMA YieldInv ==
    ASSUME SchedulerInv, NEW c \in Cores,
           \/ yield_handler(c)
           \/ \E why \in {"MUTEX", "IO"} : YieldInKernel(c, why)
           \/ YieldSleeping(c)
           \/ YieldIdle(c)
    PROVE  SchedulerInv'
<1>1. TypeOK
  BY DEF SchedulerInv
<1>2. idle_at' \in [Cores -> IdlePlaces]
  BY <1>1 DEF TypeOK, yield_handler, YieldInKernel, YieldSleeping, YieldIdle, IdlePlaces
<1>3. pc[c] \in {"run", "sleep"} /\ \E why \in Causes : EnterYield(c, why)
  BY <1>1 DEF TypeOK, yield_handler, YieldInKernel, YieldSleeping, YieldIdle,
              InThread, InIdle, Causes
<1> QED
  BY <1>2, <1>3, EnterYieldInv

-----------------------------------------------------------------------------
(* The choice of the next thread.                                          *)

(* The loop of sched_queue_select probes existing queues, and finds the    *)
(* first that is not empty.                                                *)
LEMMA ProbeInLevels ==
    ASSUME TypeOK, NEW i \in Levels
    PROVE  Probe(i) \in Levels
<1>1. i \in Nat
  BY DEF Levels
<1>2. i % 4 \in 0 .. 3 /\ i % 4 <= i
  BY <1>1
<1>3. Probe(i) = i \/ Probe(i) = i % 4
  BY DEF Probe
<1> QED
  BY <1>1, <1>2, <1>3 DEF Levels

LEMMA FirstReadyExists ==
    ASSUME TypeOK, AnyReady
    PROVE  FirstReady \in Levels /\ SCHED[FirstReady] # << >>
<1> DEFINE T == {i \in Levels : SCHED[Probe(i)] # << >>}
<1>1. T \subseteq Nat /\ T # {}
  BY DEF AnyReady, Levels
<1>2. PICK i \in T : \A j \in T : i <= j
  <2> HIDE DEF T
  <2> QED
    BY <1>1, LeastMember
<1>3. i \in Levels /\ SCHED[Probe(i)] # << >>
  BY <1>2
<1>4. \A j \in 0 .. i - 1 : SCHED[Probe(j)] = << >>
  <2> SUFFICES ASSUME NEW j \in 0 .. i - 1 PROVE SCHED[Probe(j)] = << >>
    OBVIOUS
  <2>1. j \in Levels /\ ~ (i <= j)
    BY <1>3 DEF Levels
  <2> QED
    BY <1>2, <2>1
<1> DEFINE P(n) == /\ SCHED[Probe(n)] # << >>
                   /\ \A j \in 0 .. n - 1 : SCHED[Probe(j)] = << >>
           m == CHOOSE n \in Levels : P(n)
<1>5. \E n \in Levels : P(n)
  BY <1>3, <1>4
<1>6. m \in Levels /\ P(m)
  BY <1>5
<1>7. FirstReady = Probe(m)
  BY DEF FirstReady
<1>8. SCHED[Probe(m)] # << >>
  BY <1>6
<1> HIDE DEF m
<1> QED
  BY <1>6, <1>7, <1>8, ProbeInLevels

(* What Select switches to: a queued thread, the current thread, or the    *)
(* idle thread of the core.                                                *)
LEMMA SelectedThread ==
    ASSUME SchedulerInv, NEW c \in Cores, Select(c)
    PROVE  LET s == sched_queue_select(c) IN
           /\ s \in Threads \cup {c}
           /\ state[s] = "READY"
           /\ s # current[c] => /\ phase[s] = "CLEAN"
                                /\ \A d \in Cores : ~ Holds(d, s)
           /\ SCHED' \in [Levels -> Seq(Threads)]
           /\ \A l \in Levels : IsInjective(SCHED'[l])
           /\ \A l \in Levels, u \in Threads :
                Contains(SCHED'[l], u) <=> Contains(SCHED[l], u) /\ u # s
<1> DEFINE s == sched_queue_select(c)
<1>1. /\ TypeOK /\ LockInv /\ CoreInv /\ IdleInv /\ OneCorePerThread
      /\ QueueInvariant /\ OneNode /\ CoreOK(c)
  BY DEF SchedulerInv, CoreInv
<1>2. pc[c] = "wake" /\ current[c] \in TCBs
  BY <1>1 DEF Select, TypeOK
<1>3. CASE AnyReady
  <2> DEFINE f == FirstReady
             h == Head(SCHED[f])
  <2>1. f \in Levels /\ SCHED[f] # << >>
    BY <1>1, <1>3, FirstReadyExists
  <2> HIDE DEF f
  <2>2. /\ h \in Threads
        /\ Contains(SCHED[f], h)
        /\ Tail(SCHED[f]) \in Seq(Threads)
        /\ \A u : Contains(Tail(SCHED[f]), u) <=> Contains(SCHED[f], u) /\ u # h
        /\ IsInjective(Tail(SCHED[f]))
    <3>1. SCHED[f] \in Seq(Threads) /\ IsInjective(SCHED[f])
      BY <1>1, <2>1 DEF TypeOK, OneNode
    <3> QED
      BY <2>1, <3>1, TailMembers
  <2>3. s = h /\ SCHED' = [SCHED EXCEPT ![f] = Tail(SCHED[f])]
    BY <1>3 DEF Select, sched_queue_select, f
  <2> HIDE DEF h
  <2>4. \A l \in Levels : SCHED'[l] = IF l = f THEN Tail(SCHED[f]) ELSE SCHED[l]
    BY <1>1, <2>1, <2>3 DEF TypeOK
  <2>5. SCHED' \in [Levels -> Seq(Threads)]
    BY <1>1, <2>1, <2>2, <2>3 DEF TypeOK
  <2>6. \A l \in Levels : IsInjective(SCHED'[l])
    BY <1>1, <2>2, <2>4 DEF OneNode
  <2>7. \A l \in Levels : Contains(SCHED[l], h) => l = f
    BY <1>1, <2>1, <2>2 DEF OneNode
  <2>8. \A l \in Levels, u \in Threads :
          Contains(SCHED'[l], u) <=> Contains(SCHED[l], u) /\ u # h
    BY <2>2, <2>4, <2>7
  <2>9. /\ state[h] = "READY" /\ phase[h] = "CLEAN"
        /\ \A d \in Cores : ~ Selected(d, h)
    BY <1>1, <2>1, <2>2 DEF QueueInvariant, InQueue
  <2>10. ASSUME NEW d \in Cores PROVE ~ Holds(d, h)
    <3>1. h \in TCBs /\ ~ Loaded(d, h)
      BY <1>1, <2>2, <2>9 DEF OneCorePerThread, TCBs
    <3> QED
      BY <2>9, <3>1 DEF Holds, Loaded, Selected
  <2> QED
    BY <2>2, <2>3, <2>5, <2>6, <2>8, <2>9, <2>10
<1>4. CASE ~ AnyReady
  <2>1. SCHED' = SCHED /\ s = IF state[current[c]] = "READY" THEN current[c] ELSE c
    BY <1>4 DEF Select, sched_queue_select
  <2>2. \A l \in Levels, u \in Threads : Contains(SCHED[l], u) => u # s
    <3>1. ASSUME s \in Threads PROVE ~ InQueue(s)
      <4>1. s = current[c]
        BY <2>1, <3>1
      <4>2. Loaded(c, s) /\ s \in TCBs
        BY <1>2, <3>1, <4>1 DEF Loaded, TCBs
      <4>3. phase[s] = "DIRTY"
        BY <1>1, <4>2 DEF OneCorePerThread
      <4> QED
        BY <1>1, <3>1, <4>3 DEF QueueInvariant
    <3> QED
      BY <3>1 DEF InQueue
  <2>3. ASSUME state[current[c]] # "READY"
        PROVE  /\ s = c /\ state[c] = "READY" /\ phase[c] = "CLEAN"
               /\ \A d \in Cores : ~ Holds(d, c)
    <3>1. current[c] # c
      BY <1>1, <1>2, <2>3 DEF CoreOK
    <3>2. ~ Holds(c, c)
      BY <1>2, <3>1 DEF Holds
    <3>3. state[c] = "READY" /\ phase[c] = "CLEAN"
      BY <1>1, <1>2, <3>2 DEF IdleInv
    <3>4. \A d \in Cores : d # c => ~ Holds(d, c)
      BY <1>1 DEF CoreInv, CoreOK, Holds
    <3> QED
      BY <2>1, <2>3, <3>2, <3>3, <3>4
  <2>4. s \in Threads \cup {c}
    BY <1>1, <2>1 DEF CoreOK
  <2> HIDE DEF s
  <2>5. /\ SCHED' \in [Levels -> Seq(Threads)]
        /\ \A l \in Levels : IsInjective(SCHED'[l])
    BY <1>1, <2>1 DEF TypeOK, OneNode
  <2> QED
    BY <2>1, <2>2, <2>3, <2>4, <2>5 DEF s
<1> QED
  BY <1>3, <1>4

LEMMA NextScheduledType ==
    ASSUME TypeOK PROVE NextScheduled \in 0 .. SCHED_MAX_SCHEDULED + 1
BY DEF NextScheduled, TypeOK

LEMMA SelectInv ==
    ASSUME SchedulerInv, NEW c \in Cores, Select(c)
    PROVE  SchedulerInv'
<1> DEFINE s == sched_queue_select(c)
           t == current[c]
<1>1. /\ TypeOK /\ LockInv /\ CoreInv /\ IdleInv /\ OneCorePerThread
      /\ QueueInvariant /\ OneNode /\ TimeoutInvariant /\ CountsInv
  BY DEF SchedulerInv, CountsInv
<1>2. /\ s \in Threads \cup {c}
      /\ state[s] = "READY"
      /\ s # t => /\ phase[s] = "CLEAN"
                  /\ \A d \in Cores : ~ Holds(d, s)
      /\ SCHED' \in [Levels -> Seq(Threads)]
      /\ \A l \in Levels : IsInjective(SCHED'[l])
      /\ \A l \in Levels, u \in Threads :
           Contains(SCHED'[l], u) <=> Contains(SCHED[l], u) /\ u # s
  BY SelectedThread
<1> HIDE DEF s
<1>3. /\ pc[c] = "wake" /\ pc'[c] = "gain" /\ current'[c] = s /\ previous'[c] = t
      /\ \A d \in Cores : d # c => /\ pc'[d] = pc[d] /\ current'[d] = current[d]
                                   /\ previous'[d] = previous[d]
      /\ UNCHANGED <<state, phase, priority, wakeup_time, TIMEOUT_LIST, active_threads>>
  BY <1>1 DEF TypeOK, Select, s, tcbVars
<1>4. s \in TCBs /\ t \in TCBs /\ CoreOK(c)
  BY <1>1, <1>2 DEF TypeOK, TCBs, CoreInv
<1>5. TypeOK'
  <2>1. /\ current' \in [Cores -> TCBs] /\ previous' \in [Cores -> TCBs]
        /\ pc' \in [Cores -> Places]
    BY <1>1, <1>4 DEF TypeOK, Select, Places, s
  <2>2. scheduled' \in 0 .. SCHED_MAX_SCHEDULED + 1
    BY <1>1, NextScheduledType DEF Select
  <2>3. /\ curtime' \in Nat /\ sched_spinlock' \in Cores \cup {NoCore}
        /\ UNCHANGED <<state, phase, priority, wakeup_time, TIMEOUT_LIST, active_threads,
                       clock, cause, idle_at, halted_list>>
    BY DEF Select, tcbVars
  <2> QED
    BY <1>1, <1>2, <2>1, <2>2, <2>3 DEF TypeOK
<1>6. phase[t] = "DIRTY" /\ \A d \in Cores : d # c => ~ Holds(d, t)
  <2>1. Loaded(c, t) /\ Holds(c, t)
    BY <1>3 DEF Loaded, Holds
  <2> QED
    BY <1>1, <1>4, <2>1 DEF OneCorePerThread
<1>7. \A d \in Cores : d # c => ~ Holds(d, s)
  BY <1>2, <1>6
<1> HIDE DEF t
<1>8. CoreInv'
  <2> SUFFICES ASSUME NEW d \in Cores PROVE CoreOK(d)'
    BY DEF CoreInv
  <2>1. CASE d = c
    BY <1>2, <1>3, <1>4, <2>1 DEF CoreOK, t
  <2>2. CASE d # c
    <3>1. CoreOK(d)
      BY <1>1 DEF CoreInv
    <3> QED
      BY <1>3, <2>2, <3>1 DEF CoreOK
  <2> QED
    BY <2>1, <2>2
<1>9. LockInv'
  BY <1>1, <1>3 DEF LockInv, Select
<1>10. IdleInv'
  <2> SUFFICES ASSUME NEW d \in Cores
               PROVE  (pc[d] = "boot" \/ Holds(d, d) \/ (state[d] = "READY" /\ phase[d] = "CLEAN"))'
    BY DEF IdleInv
  <2>1. pc[d] = "boot" \/ Holds(d, d) \/ (state[d] = "READY" /\ phase[d] = "CLEAN")
    BY <1>1 DEF IdleInv
  <2> QED
    BY <1>3, <2>1 DEF Holds, t
<1>11. OneCorePerThread'
  <2>1. ASSUME NEW d \in Cores, NEW e \in Cores, NEW u \in TCBs, Holds(d, u)', Holds(e, u)'
        PROVE  d = e
    <3>1. \A x \in Cores : x # c => (Holds(x, u)' <=> Holds(x, u))
      BY <1>3 DEF Holds
    <3>2. Holds(c, u)' => u = s \/ u = t
      BY <1>3 DEF Holds
    <3> QED
      BY <1>1, <1>6, <1>7, <2>1, <3>1, <3>2 DEF OneCorePerThread
  <2>2. ASSUME NEW d \in Cores, pc'[d] = "gain", current'[d] # previous'[d]
        PROVE  phase'[current'[d]] = "CLEAN"
    <3>1. CASE d = c
      BY <1>2, <1>3, <2>2, <3>1
    <3>2. CASE d # c
      BY <1>1, <1>3, <2>2, <3>2 DEF OneCorePerThread
    <3> QED
      BY <3>1, <3>2
  <2>3. ASSUME NEW u \in TCBs
        PROVE  phase'[u] = "DIRTY" <=> \E d \in Cores : Loaded(d, u)'
    <3>1. \A d \in Cores : Loaded(d, u)' <=> Loaded(d, u)
      BY <1>3 DEF Loaded, t
    <3> QED
      BY <1>1, <1>3, <3>1 DEF OneCorePerThread
  <2> QED
    BY <2>1, <2>2, <2>3 DEF OneCorePerThread
<1>12. QueueInvariant'
  <2> SUFFICES ASSUME NEW u \in Threads
               PROVE  InQueue(u)' <=> /\ state'[u] = "READY"
                                      /\ phase'[u] = "CLEAN"
                                      /\ \A d \in Cores : ~ Selected(d, u)'
    BY DEF QueueInvariant
  <2>1. InQueue(u)' <=> InQueue(u) /\ u # s
    BY <1>2 DEF InQueue
  <2>2. (\A d \in Cores : ~ Selected(d, u)') <=> (\A d \in Cores : ~ Selected(d, u)) /\ u # s
    BY <1>3 DEF Selected
  <2> QED
    BY <1>1, <1>3, <2>1, <2>2 DEF QueueInvariant
<1>13. OneNode'
  <2>1. \A l \in Levels, u \in Threads : Contains(SCHED'[l], u) => priority'[u] = l
    BY <1>1, <1>2, <1>3 DEF OneNode
  <2>2. \A u \in Threads : InQueue(u)' => InQueue(u)
    BY <1>2 DEF InQueue
  <2> QED
    BY <1>1, <1>2, <1>3, <2>1, <2>2 DEF OneNode
<1>14. TimeoutInvariant'
  BY <1>1, <1>3 DEF TimeoutInvariant
<1>15. CountsInv'
  BY <1>1, <1>3, SameCount
<1> QED
  BY <1>5, <1>8, <1>9, <1>10, <1>11, <1>12, <1>13, <1>14, <1>15
     DEF SchedulerInv, CountsInv

-----------------------------------------------------------------------------
(* gain().                                                                 *)

LEMMA GainInv ==
    ASSUME SchedulerInv, NEW c \in Cores, gain(c)
    PROVE  SchedulerInv'
<1> DEFINE me == current[c]
           prev == previous[c]
           queued == me # prev /\ state[prev] = "READY" /\ prev \in Threads
           freed == me # prev /\ state[prev] = "EXITED"
<1>1. /\ TypeOK /\ LockInv /\ CoreInv /\ IdleInv /\ OneCorePerThread
      /\ QueueInvariant /\ OneNode /\ TimeoutInvariant /\ CountInv /\ LeaveWhenDone
  BY DEF SchedulerInv
<1>2. /\ me \in TCBs /\ prev \in TCBs /\ CoreOK(c)
      /\ me \in Threads \cup {c} /\ prev \in Threads \cup {c}
      /\ state[me] = "READY" /\ state[prev] \in {"READY", "STOPPED", "EXITED"}
      /\ freed => prev \in Threads
      /\ pc[c] = "gain"
  BY <1>1 DEF TypeOK, CoreInv, CoreOK, gain
<1>3. /\ pc'[c] = "run" /\ \A d \in Cores : d # c => pc'[d] = pc[d]
      /\ UNCHANGED <<priority, wakeup_time, TIMEOUT_LIST, scheduled, sched_spinlock,
                     clock, curtime, current, previous, cause, idle_at>>
  BY <1>1 DEF TypeOK, gain, timeVars
<1>4. /\ state' \in [TCBs -> States]
      /\ \A u \in TCBs : state'[u] = IF u = prev /\ freed THEN "FREE"
                                     ELSE IF u = me THEN "RUNNING" ELSE state[u]
  <2>1. CASE freed
    <3>1. state' = [state EXCEPT ![me] = "RUNNING", ![prev] = "FREE"]
      BY <2>1 DEF gain, ReleasesPrevious, Switched
    <3> QED
      BY <1>1, <1>2, <2>1, <3>1 DEF TypeOK, States
  <2>2. CASE ~ freed
    <3>1. state' = [state EXCEPT ![me] = "RUNNING"]
      BY <2>2 DEF gain, ReleasesPrevious, Switched
    <3> QED
      BY <1>1, <1>2, <2>2, <3>1 DEF TypeOK, States
  <2> QED
    BY <2>1, <2>2
<1>5. /\ phase' \in [TCBs -> Phases]
      /\ \A u \in TCBs : phase'[u] = IF u = me THEN "DIRTY"
                                     ELSE IF u = prev THEN "CLEAN" ELSE phase[u]
  BY <1>1 DEF TypeOK, gain, Phases
<1>6. /\ phase[prev] = "DIRTY"
      /\ \A d \in Cores : d # c => ~ Holds(d, prev) /\ ~ Holds(d, me)
  <2>1. Loaded(c, prev) /\ Holds(c, prev) /\ Holds(c, me)
    BY <1>2 DEF Loaded, Holds
  <2> QED
    BY <1>1, <1>2, <2>1 DEF OneCorePerThread
<1>7. /\ prev \in Threads => ~ InQueue(prev)
      /\ me \in Threads => ~ InQueue(me)
  BY <1>1, <1>2, <1>6 DEF QueueInvariant, Selected
<1>8. /\ SCHED' \in [Levels -> Seq(Threads)]
      /\ halted_list' \in Seq(Cores)
      /\ \A l \in Levels, u \in Threads :
           Contains(SCHED'[l], u) <=>
             Contains(SCHED[l], u) \/ (queued /\ u = prev /\ l = priority[prev])
      /\ \A l \in Levels : IsInjective(SCHED'[l])
  <2>1. CASE queued
    <3>1. sched_queue_add(prev)
      BY <2>1 DEF gain, RequeuePrevious, Switched
    <3> QED
      BY <1>1, <1>7, <2>1, <3>1, QueueAdd
  <2>2. CASE ~ queued
    <3>1. SCHED' = SCHED /\ halted_list' = halted_list
      BY <2>2 DEF gain, RequeuePrevious, Switched
    <3> QED
      BY <1>1, <2>2, <3>1 DEF TypeOK, OneNode
  <2> QED
    BY <2>1, <2>2
<1>9. /\ active_threads' = IF freed THEN active_threads - 1 ELSE active_threads
  BY DEF gain, ReleasesPrevious, Switched, release_TCB
<1> HIDE DEF me, prev
<1>10. /\ wakeup_time[me] = NO_TIMEOUT
       /\ freed => wakeup_time[prev] = NO_TIMEOUT
       /\ queued => wakeup_time[prev] = NO_TIMEOUT
  BY <1>1, <1>2 DEF TimeoutInvariant
<1> HIDE DEF queued, freed
<1>11. CountInv' /\ active_threads' \in Nat
  <2>1. IsFiniteSet(Allocated) /\ Cardinality(Allocated) \in Nat
    BY FS_Subset, FS_CardinalityType DEF Allocated
  <2>2. CASE freed
    <3>1. Allocated' = Allocated \ {prev} /\ prev \in Allocated
      BY <1>2, <1>4, <2>2 DEF Allocated, TCBs, freed
    <3>2. Cardinality(Allocated') = Cardinality(Allocated) - 1
      BY <2>1, <3>1, FS_RemoveElement
    <3>3. Cardinality(Allocated') \in Nat
      <4>1. IsFiniteSet(Allocated')
        BY <2>1, <3>1, FS_RemoveElement
      <4> QED
        BY <4>1, FS_CardinalityType
    <3> QED
      BY <1>1, <1>9, <2>2, <3>2, <3>3 DEF CountInv
  <2>3. CASE ~ freed
    <3>1. Allocated' = Allocated
      BY <1>2, <1>4, <2>3 DEF Allocated, TCBs
    <3> QED
      BY <1>1, <1>9, <2>1, <2>3, <3>1 DEF CountInv
  <2> QED
    BY <2>2, <2>3
<1>12. TypeOK'
  <2>1. pc' \in [Cores -> Places]
    BY <1>1 DEF TypeOK, gain, Places
  <2> QED
    BY <1>1, <1>3, <1>4, <1>5, <1>8, <1>11, <2>1 DEF TypeOK
<1>13. CoreInv'
  <2> SUFFICES ASSUME NEW d \in Cores PROVE CoreOK(d)'
    BY DEF CoreInv
  <2>1. CoreOK(d) /\ d \in TCBs /\ current[d] \in TCBs /\ previous[d] \in TCBs
    BY <1>1 DEF CoreInv, TypeOK, TCBs
  <2>2. CASE d = c
    BY <1>2, <1>3, <1>4, <2>1, <2>2 DEF CoreOK, me, prev, freed
  <2>3. CASE d # c
    <3>1. pc[d] # "boot" => current[d] # me /\ current[d] # prev
      BY <1>6, <2>3 DEF Holds
    <3>2. pc[d] = "gain" => previous[d] # me /\ previous[d] # prev
      BY <1>6, <2>3 DEF Holds
    <3> QED
      BY <1>3, <1>4, <2>1, <2>3, <3>1, <3>2 DEF CoreOK
  <2> QED
    BY <2>2, <2>3
<1>14. LockInv'
  BY <1>1, <1>2, <1>3 DEF LockInv
<1>15. IdleInv'
  <2> SUFFICES ASSUME NEW d \in Cores
               PROVE  (pc[d] = "boot" \/ Holds(d, d) \/ (state[d] = "READY" /\ phase[d] = "CLEAN"))'
    BY DEF IdleInv
  <2>1. pc[d] = "boot" \/ Holds(d, d) \/ (state[d] = "READY" /\ phase[d] = "CLEAN")
    BY <1>1 DEF IdleInv
  <2>2. d \in TCBs /\ d \notin Threads
    BY DEF TCBs
  <2>3. CASE d # c
    <3>1. d # me /\ d # prev
      BY <1>2, <2>2, <2>3
    <3> QED
      BY <1>3, <1>4, <1>5, <2>1, <2>2, <2>3, <3>1 DEF Holds
  <2>4. CASE d = c /\ me = c
    BY <1>3, <2>4 DEF Holds, me
  <2>5. CASE d = c /\ me # c /\ prev = c
    BY <1>2, <1>4, <1>5, <2>2, <2>5 DEF CoreOK, freed, prev
  <2>6. CASE d = c /\ me # c /\ prev # c
    BY <1>2, <1>3, <1>4, <1>5, <2>1, <2>2, <2>6 DEF Holds, me, prev
  <2> QED
    BY <2>3, <2>4, <2>5, <2>6
<1>16. OneCorePerThread'
  <2>1. ASSUME NEW d \in Cores, NEW e \in Cores, NEW u \in TCBs, Holds(d, u)', Holds(e, u)'
        PROVE  d = e
    <3>1. \A x \in Cores : x # c => (Holds(x, u)' <=> Holds(x, u))
      BY <1>3 DEF Holds
    <3>2. Holds(c, u)' => u = me
      BY <1>3 DEF Holds, me
    <3> QED
      BY <1>1, <1>6, <2>1, <3>1, <3>2 DEF OneCorePerThread
  <2>2. ASSUME NEW d \in Cores, pc'[d] = "gain", current'[d] # previous'[d]
        PROVE  phase'[current'[d]] = "CLEAN"
    <3>1. d # c /\ pc[d] = "gain" /\ current[d] \in TCBs /\ current[d] # previous[d]
      BY <1>1, <1>3, <2>2 DEF TypeOK
    <3>2. current[d] # me
      BY <1>6, <3>1 DEF Holds
    <3> QED
      BY <1>1, <1>3, <1>5, <3>1, <3>2 DEF OneCorePerThread
  <2>3. ASSUME NEW u \in TCBs
        PROVE  phase'[u] = "DIRTY" <=> \E d \in Cores : Loaded(d, u)'
    <3>1. \A d \in Cores : d # c => (Loaded(d, u)' <=> Loaded(d, u))
      BY <1>3 DEF Loaded
    <3>2. /\ Loaded(c, u)' <=> u = me
          /\ Loaded(c, u) <=> u = prev
      BY <1>2, <1>3 DEF Loaded, me, prev
    <3>3. \A d \in Cores : d # c => ~ Loaded(d, prev)
      BY <1>6 DEF Holds, Loaded
    <3>4. CASE u = me
      BY <1>5, <3>2, <3>4
    <3>5. CASE u # me /\ u = prev
      BY <1>5, <3>1, <3>2, <3>3, <3>5
    <3>6. CASE u # me /\ u # prev
      BY <1>1, <1>5, <3>1, <3>2, <3>6 DEF OneCorePerThread
    <3> QED
      BY <3>4, <3>5, <3>6
  <2> QED
    BY <2>1, <2>2, <2>3 DEF OneCorePerThread
<1>17. QueueInvariant'
  <2> SUFFICES ASSUME NEW u \in Threads
               PROVE  InQueue(u)' <=> /\ state'[u] = "READY"
                                      /\ phase'[u] = "CLEAN"
                                      /\ \A d \in Cores : ~ Selected(d, u)'
    BY DEF QueueInvariant
  <2>1. InQueue(u)' <=> InQueue(u) \/ (queued /\ u = prev)
    <3>1. priority[prev] \in Levels
      BY <1>1, <1>2 DEF TypeOK
    <3> QED
      BY <1>8, <3>1 DEF InQueue
  <2>2. u \in TCBs
    BY DEF TCBs
  <2>3. CASE u = me
    BY <1>2, <1>4, <1>7, <2>1, <2>2, <2>3 DEF queued, freed
  <2>4. CASE u # me /\ u = prev
    <3>1. \A d \in Cores : ~ Selected(d, u)'
      BY <1>3, <1>6, <2>4 DEF Selected, Holds
    <3> QED
      BY <1>2, <1>4, <1>5, <1>7, <2>1, <2>2, <2>4, <3>1 DEF queued, freed
  <2>5. CASE u # me /\ u # prev
    <3>1. (\A d \in Cores : ~ Selected(d, u)') <=> (\A d \in Cores : ~ Selected(d, u))
      BY <1>3, <2>5 DEF Selected, me
    <3> QED
      BY <1>1, <1>4, <1>5, <2>1, <2>2, <2>5, <3>1 DEF QueueInvariant
  <2> QED
    BY <2>3, <2>4, <2>5
<1>18. OneNode'
  <2>1. \A l \in Levels, u \in Threads : Contains(SCHED'[l], u) => priority'[u] = l
    BY <1>1, <1>3, <1>8 DEF OneNode
  <2>2. ASSUME NEW u \in Threads, InQueue(u)'
        PROVE  ~ Contains(TIMEOUT_LIST, u)
    <3>1. InQueue(u) \/ (queued /\ u = prev)
      BY <1>8, <2>2 DEF InQueue
    <3> QED
      BY <1>1, <1>10, <3>1 DEF OneNode, TimeoutInvariant, TCBs
  <2> QED
    BY <1>1, <1>3, <1>8, <2>1, <2>2 DEF OneNode
<1>19. TimeoutInvariant'
  <2>1. ASSUME NEW u \in TCBs, wakeup_time[u] # NO_TIMEOUT
        PROVE  state'[u] = "STOPPED"
    BY <1>1, <1>4, <1>10, <2>1 DEF TimeoutInvariant
  <2> QED
    BY <1>1, <1>3, <2>1 DEF TimeoutInvariant
<1>20. LeaveWhenDone'
  <2>1. \A u \in Threads : state[u] = "FREE" => state'[u] = "FREE"
    BY <1>2, <1>4 DEF TCBs
  <2> QED
    BY <1>1, <1>3, <2>1 DEF LeaveWhenDone
<1> QED
  BY <1>11, <1>12, <1>13, <1>14, <1>15, <1>16, <1>17, <1>18, <1>19, <1>20
     DEF SchedulerInv

-----------------------------------------------------------------------------
(* The invariant, and what follows from it.                                *)

(* Every step of the scheduler preserves SchedulerInv.                     *)
LEMMA NextInv == SchedulerInv /\ [Next]_vars => SchedulerInv'
<1> SUFFICES ASSUME SchedulerInv, [Next]_vars PROVE SchedulerInv'
  OBVIOUS
<1>1. ASSUME NEW c \in Cores, KernelCall(c) PROVE SchedulerInv'
  <2>1. ASSUME NEW t \in Threads, spawn_thread(c, t) PROVE SchedulerInv'
    BY <2>1, SpawnInv
  <2>2. ASSUME NEW t \in Threads, wakeup(c, t) PROVE SchedulerInv'
    BY <2>2, WakeupInv
  <2>3. ASSUME NEW d \in Durations \cup {NO_TIMEOUT}, NEW why \in {"IO", "USER"},
               sleep_releasing(c, "STOPPED", why, d)
        PROVE  SchedulerInv'
    BY <2>3, SleepInv DEF Causes
  <2>4. ASSUME sleep_releasing(c, "EXITED", "USER", NO_TIMEOUT) PROVE SchedulerInv'
    BY <2>4, SleepInv DEF Causes
  <2> QED
    BY <1>1, <2>1, <2>2, <2>3, <2>4 DEF KernelCall
<1>2. ASSUME NEW c \in Cores, Schedule(c) PROVE SchedulerInv'
  BY <1>2, YieldInv, WakeExpiredInv, SelectInv, GainInv DEF Schedule
<1>3. ASSUME NEW c \in Cores, Idle(c) PROVE SchedulerInv'
  BY <1>3, BootInv, IdleLoopInv, LeaveInv DEF Idle
<1>4. ASSUME Tick \/ Finished \/ UNCHANGED vars PROVE SchedulerInv'
  BY <1>4, TickInv DEF Finished
<1> QED
  BY <1>1, <1>2, <1>3, <1>4 DEF Next

(* SchedulerInv holds in every reachable state of the scheduler, whatever  *)
(* the cores, the threads, the levels and the timeouts.                    *)
THEOREM SchedulerInvariance == Spec => []SchedulerInv
BY InitInv, NextInv, PTL DEF Spec

(* The types, and that a priority always indexes a queue of SCHED.         *)
THEOREM TypeCorrect == Spec => []TypeOK
<1>1. SchedulerInv => TypeOK
  BY DEF SchedulerInv
<1> QED
  BY <1>1, SchedulerInvariance, PTL

(* The documented invariant of the queue, corrected for selected threads:  *)
(* no READY thread is lost and none with a context in use is queued.       *)
THEOREM QueueCorrect == Spec => []QueueInvariant
<1>1. SchedulerInv => QueueInvariant
  BY DEF SchedulerInv
<1> QED
  BY <1>1, SchedulerInvariance, PTL

(* The list node of a TCB is in one list at a time and once: the queues    *)
(* and TIMEOUT_LIST, which share the node, never meet in it.               *)
THEOREM OneListPerNode == Spec => []OneNode
<1>1. SchedulerInv => OneNode
  BY DEF SchedulerInv
<1> QED
  BY <1>1, SchedulerInvariance, PTL

(* No thread is on two cores, and no core switches to a context in use.    *)
THEOREM ThreadsOnOneCore == Spec => []OneCorePerThread
<1>1. SchedulerInv => OneCorePerThread
  BY DEF SchedulerInv
<1> QED
  BY <1>1, SchedulerInvariance, PTL

(* TIMEOUT_LIST is exact and sorted.                                       *)
THEOREM TimeoutsCorrect == Spec => []TimeoutInvariant
<1>1. SchedulerInv => TimeoutInvariant
  BY DEF SchedulerInv
<1> QED
  BY <1>1, SchedulerInvariance, PTL

(* The scheduler stops only when no thread is left.                        *)
THEOREM StopsWhenDone == Spec => []LeaveWhenDone
<1>1. SchedulerInv => LeaveWhenDone
  BY DEF SchedulerInv
<1> QED
  BY <1>1, SchedulerInvariance, PTL

(* A TCB that release_TCB has freed is in no list and on no core.          *)
THEOREM FreedIsUnreachable == Spec => []NoDanglingTCB
<1>1. SchedulerInv => NoDanglingTCB
  <2> SUFFICES ASSUME SchedulerInv, NEW t \in Threads, state[t] = "FREE"
               PROVE  /\ ~ InQueue(t)
                      /\ ~ Contains(TIMEOUT_LIST, t)
                      /\ \A c \in Cores : ~ Holds(c, t)
    BY DEF NoDanglingTCB
  <2>1. TypeOK /\ CoreInv /\ QueueInvariant /\ TimeoutInvariant
    BY DEF SchedulerInv
  <2>2. ~ InQueue(t)
    BY <2>1 DEF QueueInvariant
  <2>3. ~ Contains(TIMEOUT_LIST, t)
    BY <2>1 DEF TimeoutInvariant, TCBs
  <2>4. ASSUME NEW c \in Cores PROVE ~ Holds(c, t)
    <3>1. CoreOK(c) /\ pc[c] \in Places
      BY <2>1 DEF CoreInv, TypeOK
    <3> QED
      BY <3>1 DEF CoreOK, Holds, Places
  <2> QED
    BY <2>2, <2>3, <2>4
<1> QED
  BY <1>1, SchedulerInvariance, PTL

(* No decision is taken while a thread sleeps past its wakeup time.        *)
THEOREM SleepersAreOnTime == Spec => NoOversleep
<1> DEFINE OnTime == \A c \in Cores : Select(c) =>
                       \A t \in Threads :
                         wakeup_time[t] # NO_TIMEOUT => wakeup_time[t] > curtime
<1>1. SchedulerInv => OnTime
  <2> SUFFICES ASSUME SchedulerInv, NEW c \in Cores, Select(c),
                      NEW t \in Threads, wakeup_time[t] # NO_TIMEOUT
               PROVE  wakeup_time[t] > curtime
    OBVIOUS
  <2> DEFINE q == TIMEOUT_LIST
  <2>1. /\ q \in Seq(Threads) /\ curtime \in Nat /\ DOMAIN q = 1 .. Len(q)
        /\ wakeup_time[t] \in Nat
    BY DEF SchedulerInv, TypeOK, TCBs
  <2>2. PICK i \in 1 .. Len(q) : q[i] = t
    BY DEF SchedulerInv, TimeoutInvariant, Contains, TCBs
  <2>3. q # << >> /\ Head(q) = q[1] /\ q[1] \in Threads
    BY <2>1, <2>2
  <2>4. wakeup_time[q[1]] \in Nat
    BY <2>1, <2>2, <2>3 DEF SchedulerInv, TypeOK, TCBs, TimeoutInvariant, Contains
  <2>5. ~ (wakeup_time[q[1]] <= curtime)
    BY <2>3 DEF Select, Expired
  <2>6. wakeup_time[q[1]] <= wakeup_time[t]
    <3>1. CASE i = 1
      BY <2>1, <2>2, <3>1
    <3>2. CASE i # 1
      BY <2>1, <2>2, <3>2 DEF SchedulerInv, TimeoutInvariant
    <3> QED
      BY <3>1, <3>2
  <2> QED
    BY <2>1, <2>4, <2>5, <2>6
<1>2. SchedulerInv /\ [Next]_vars => [OnTime]_vars
  BY <1>1
<1>3. Spec => [][OnTime]_vars
  BY <1>2, SchedulerInvariance, PTL DEF Spec
<1> QED
  BY <1>3 DEF NoOversleep
=============================================================================
