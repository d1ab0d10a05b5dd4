------------------------------ MODULE Processes ------------------------------
(***************************************************************************)
(* Processes and their threads: kernel_proc.c and kernel_threads.c, with   *)
(* the stream calls of module Streams.                                     *)
(*                                                                         *)
(* A system call holds the kernel lock from its start to its end, or to    *)
(* the next kernel_wait (module Monitor says what those promise), so each  *)
(* such stretch is one action.  A thread is the pair of its TCB and its    *)
(* PTCB; the two are freed separately, and the slot of a thread is used    *)
(* again when both are free, as malloc does.  Exit values are left out.    *)
(*                                                                         *)
(* The constant Program is what the programs do: the system calls they     *)
(* make, "init_threads" (init calls CreateThread and ThreadExit, as other  *)
(* processes do), "shared_wait" (several threads of a process are in       *)
(* WaitChild together) and "detach_joined" (a thread that is being joined  *)
(* may be detached).  The kernel has none of these restrictions: they are  *)
(* not in its actions but in Next, where the programs choose their calls.  *)
(***************************************************************************)
EXTENDS Streams, Sequences, SequencesExt

CONSTANTS
    Threads,         \* the threads (TCB and PTCB)
    Program,         \* the behaviour of the programs
    MaxCreated          \* bound on the number of threads created

ASSUME ProcessesAssumption ==
    /\ IsFiniteSet(Threads)
    /\ Threads # {}
    /\ MaxCreated \in Nat

VARIABLES
    pstate,          \* PCB.pstate
    parent,          \* PCB.parent; the link of the free list in a free PCB
    pcb_freelist,    \* the head of the free list
    children_list,   \* PCB.children_list, as a set
    exited_list,     \* PCB.exited_list, in order
    thread_list,     \* PCB.thread_list, as a set of PTCBs
    thread_count,    \* PCB.thread_count
    process_count,
    owner_pcb,       \* TCB.owner_pcb of each thread
    allocated,       \* the PTCBs that are allocated
    exited,          \* PTCB.exited
    detached,        \* PTCB.detached
    ref_count,       \* PTCB.ref_count
    pc,              \* where each thread is
    arg,             \* what its call is about: a thread, a pid, an FCB
    asleep,          \* the threads that sleep in kernel_wait
    tids,            \* the threads whose Tid CreateThread has returned
    created            \* the number of threads created so far

treeVars == <<parent, pcb_freelist, children_list, exited_list, process_count>>
ptcbVars == <<thread_list, allocated, exited, detached, ref_count>>
tcbVars  == <<owner_pcb, pc, arg, asleep, tids>>
vars     == <<pstate, treeVars, thread_count, ptcbVars, tcbVars, created, streamVars>>

(* Positions of a thread:                                                  *)
(*   none      never used                                                  *)
(*   user      running user code                                           *)
(*   join      has called ThreadJoin, not yet in the kernel                *)
(*   joining   in the loop of ThreadJoin                                   *)
(*   waitpid   in the loop of wait_for_specific_child                      *)
(*   waitany   in the loop of wait_for_any_child                           *)
(*   exitloop  init, in the loop of Exit, between two calls of WaitChild   *)
(*   exitwait  init, in wait_for_any_child called from Exit                *)
(*   read      in Read, waiting for the device                             *)
(*   spin      in the loop of ThreadExit that never ends                   *)
(*   gone      has exited                                                  *)
Places == {"none", "user", "join", "joining", "waitpid", "waitany", "exitloop",
           "exitwait", "read", "spin", "gone"}

Dead(t)  == pc[t] \in {"none", "gone"}
Alive(t) == ~ Dead(t)

(* A thread that can execute: it is awake, and no other thread keeps the   *)
(* kernel lock in a loop.                                                  *)
Runs(t, place) ==
    /\ pc[t] = place
    /\ t \notin asleep
    /\ \A u \in Threads \ {t} : pc[u] \notin {"spin", "exitloop"}

Calls(t, name) == name \in Program /\ Runs(t, "user")

Go(t, place) == pc' = [pc EXCEPT ![t] = place]

NewTree == [q \in Pids |-> IF q = MAX_PROC - 1 THEN NULL ELSE q + 1]

(* After boot_tinyos_kernel: pid 0 is the idle process and pid 1 is init,  *)
(* with its main thread.                                                   *)
Init ==
    \E main \in Threads :
      /\ pstate = [p \in Pids |-> IF p = 1 THEN "ALIVE" ELSE "FREE"]
      /\ parent = [NewTree EXCEPT ![1] = NULL]
      /\ pcb_freelist = NewTree[1]
      /\ children_list = [p \in Pids |-> {}]
      /\ exited_list = [p \in Pids |-> << >>]
      /\ thread_list = [p \in Pids |-> IF p = 1 THEN {main} ELSE {}]
      /\ thread_count = [p \in Pids |-> IF p = 1 THEN 1 ELSE 0]
      /\ process_count = 2
      /\ owner_pcb = [t \in Threads |-> 1]
      /\ allocated = {main}
      /\ exited = [t \in Threads |-> FALSE]
      /\ detached = [t \in Threads |-> FALSE]
      /\ ref_count = [t \in Threads |-> 0]
      /\ pc = [t \in Threads |-> IF t = main THEN "user" ELSE "none"]
      /\ arg = [t \in Threads |-> NULL]
      /\ asleep = {}
      /\ tids = {}
      /\ created = 0
      /\ initialize_files

-----------------------------------------------------------------------------
(* kernel_broadcast on child_exit of p, and on exit_cv of t.               *)
WaitPlaces == {"waitpid", "waitany", "exitwait"}

child_exit(p) == {t \in asleep : pc[t] \in WaitPlaces /\ owner_pcb[t] = p}

exit_cv(t) == {u \in asleep : pc[u] = "joining" /\ arg[u] = t}

(* A new PTCB and its TCB, for process p.                                  *)
Unused(t) == Dead(t) /\ t \notin allocated

NewThread(t, p) ==
    /\ Unused(t)
    /\ created < MaxCreated
    /\ created' = created + 1
    /\ allocated' = allocated \cup {t}
    /\ exited' = [exited EXCEPT ![t] = FALSE]
    /\ detached' = [detached EXCEPT ![t] = FALSE]
    /\ ref_count' = [ref_count EXCEPT ![t] = 0]
    /\ thread_list' = [thread_list EXCEPT ![p] = @ \cup {t}]
    /\ owner_pcb' = [owner_pcb EXCEPT ![t] = p]
    /\ Go(t, "user")

-----------------------------------------------------------------------------
(* Exec, with a task.  acquire_PCB takes the first PCB of the free list;   *)
(* the new process is never init, which exists since boot.                 *)
sys_Exec(t, main) ==
    LET p     == owner_pcb[t]
        child == pcb_freelist
    IN  /\ Calls(t, "Exec")
        /\ child # NULL
        /\ pstate' = [pstate EXCEPT ![child] = "ALIVE"]
        /\ pcb_freelist' = parent[child]
        /\ process_count' = process_count + 1
        /\ parent' = [parent EXCEPT ![child] = p]
        /\ children_list' = [children_list EXCEPT ![p] = @ \cup {child}]
        /\ InheritFiles(p, child)
        /\ thread_count' = [thread_count EXCEPT ![child] = 1]
        /\ NewThread(main, child)
        /\ tids' = tids \ {main}
        /\ UNCHANGED <<exited_list, arg, asleep>>

sys_CreateThread(t, new) ==
    LET p == owner_pcb[t] IN
    /\ Calls(t, "CreateThread")
    /\ thread_count' = [thread_count EXCEPT ![p] = @ + 1]
    /\ NewThread(new, p)
    /\ tids' = tids \cup {new}
    /\ UNCHANGED <<pstate, treeVars, arg, asleep, streamVars>>

-----------------------------------------------------------------------------
(* WaitChild.                                                              *)

(* rlist_remove of the node of c, which may be in list q.                  *)
Without(q, c) ==
    IF Contains(q, c) THEN RemoveAt(q, CHOOSE i \in DOMAIN q : q[i] = c) ELSE q

(* cleanup_zombie: the child leaves both lists and its PCB is released.    *)
Unlink(c) ==
    /\ children_list' = [p \in Pids |-> children_list[p] \ {c}]
    /\ exited_list' = [p \in Pids |-> Without(exited_list[p], c)]

release_PCB(c) ==
    /\ pstate' = [pstate EXCEPT ![c] = "FREE"]
    /\ parent' = [parent EXCEPT ![c] = pcb_freelist]
    /\ pcb_freelist' = c
    /\ process_count' = process_count - 1

cleanup_zombie(c) == Unlink(c) /\ release_PCB(c)

(* One test of the loop: sleep on child_exit while the condition holds.    *)
SleepOrReap(t, place, blocked, child, next) ==
    IF blocked
    THEN /\ Go(t, place)
         /\ asleep' = asleep \cup {t}
         /\ UNCHANGED <<pstate, treeVars>>
    ELSE /\ cleanup_zombie(child)
         /\ Go(t, next)
         /\ UNCHANGED asleep

WaitUnchanged == UNCHANGED <<thread_count, ptcbVars, owner_pcb, tids, created, streamVars>>

(* Slip: the state of the child is tested only once.                       *)
StillAlive_once(t, c) == pstate[c] = "ALIVE" /\ pc[t] = "user"

StillAlive(t, c) == pstate[c] = "ALIVE"

(* wait_for_specific_child: the legality check, then the loop.             *)
wait_for_specific_child(t, c) ==
    /\ \/ /\ Calls(t, "WaitChild")
          /\ pstate[c] # "FREE"
          /\ parent[c] = owner_pcb[t]
       \/ Runs(t, "waitpid") /\ arg[t] = c
    /\ arg' = [arg EXCEPT ![t] = c]
    /\ SleepOrReap(t, "waitpid", StillAlive(t, c), c, "user")
    /\ WaitUnchanged

(* The loop of wait_for_any_child, which reaps the first exited child.     *)
AnyChild(t, place, next) ==
    LET exits == exited_list[owner_pcb[t]] IN
    /\ SleepOrReap(t, place, exits = << >>, Head(exits), next)
    /\ UNCHANGED arg
    /\ WaitUnchanged

HasChildren(p) == children_list[p] # {}

wait_for_any_child(t) ==
    /\ \/ Calls(t, "WaitChild") /\ HasChildren(owner_pcb[t])
       \/ Runs(t, "waitany")
    /\ AnyChild(t, "waitany", "user")

-----------------------------------------------------------------------------
(* ThreadExit.                                                             *)

(* The PTCB is freed unless a joiner still needs it.                       *)
FreesPTCB(t) == detached[t] \/ ref_count[t] = 0

(* The exited children of p go to init, and p goes to its parent.          *)
ExitedAfter(p) ==
    [q \in Pids |->
       (IF q = parent[p] THEN <<p>> ELSE << >>)
         \o (IF q = p THEN << >> ELSE exited_list[q])
         \o (IF q = 1 THEN exited_list[p] ELSE << >>)]

(* The threads that the exit of p wakes: those of its parent, and those of *)
(* init when it gets exited children.                                      *)
(* Slip: only the parent is told.                                          *)
WokenByExit_parent(p) == child_exit(parent[p])

WokenByExit(p) ==
    child_exit(parent[p]) \cup (IF exited_list[p] # << >> THEN child_exit(1) ELSE {})

(* The children of p become children of init.                              *)
(* Slip: their parent field is not updated.                                *)
Reparent_links(p) ==
    /\ children_list' = [q \in Pids |->
                           CASE q = 1 -> children_list[1] \cup children_list[p]
                             [] q = p -> {}
                             [] OTHER -> children_list[q]]
    /\ UNCHANGED parent

(* Slip: they are not linked into its list.                                *)
Reparent_lost(p) ==
    /\ children_list' = [children_list EXCEPT ![p] = {}]
    /\ parent' = [q \in Pids |-> IF q \in children_list[p] THEN 1 ELSE parent[q]]

Reparent(p) ==
    /\ children_list' = [q \in Pids |->
                           CASE q = 1 -> children_list[1] \cup children_list[p]
                             [] q = p -> {}
                             [] OTHER -> children_list[q]]
    /\ parent' = [q \in Pids |-> IF q \in children_list[p] THEN 1 ELSE parent[q]]

LastThread(t) == thread_count[owner_pcb[t]] = 1

(* The children of init would be moved from its list to the same list, for *)
(* ever.                                                                   *)
Spins(t) == LastThread(t) /\ owner_pcb[t] = 1 /\ children_list[1] # {}

(* A PTCB that another thread has freed is not modelled further.           *)
sys_ThreadExit(t) ==
    LET p == owner_pcb[t] IN
    /\ t \in allocated
    /\ exited' = [exited EXCEPT ![t] = TRUE]
    /\ allocated' = IF FreesPTCB(t) THEN allocated \ {t} ELSE allocated
    /\ thread_list' = IF FreesPTCB(t) THEN [thread_list EXCEPT ![p] = @ \ {t}] ELSE thread_list
    /\ thread_count' = [thread_count EXCEPT ![p] = @ - 1]
    /\ Go(t, IF Spins(t) THEN "spin" ELSE "gone")
    /\ IF LastThread(t) THEN CloseFiles(p) ELSE UNCHANGED streamVars
    /\ IF LastThread(t) /\ ~ Spins(t)
       THEN /\ Reparent(p)
            /\ exited_list' = ExitedAfter(p)
            /\ asleep' = asleep \ (exit_cv(t) \cup WokenByExit(p))
            /\ pstate' = [pstate EXCEPT ![p] = "ZOMBIE"]
       ELSE /\ asleep' = asleep \ exit_cv(t)
            /\ UNCHANGED <<pstate, parent, children_list, exited_list>>
    /\ UNCHANGED <<pcb_freelist, process_count, owner_pcb, detached, ref_count, arg, tids,
                   created>>

ThreadExit(t) == Calls(t, "ThreadExit") /\ sys_ThreadExit(t)

(* Exit: every process ends its thread; init waits for its children first. *)
MustWait(t) == owner_pcb[t] = 1

sys_Exit(t) ==
    /\ Calls(t, "Exit")
    /\ IF MustWait(t)
       THEN /\ Go(t, "exitloop")
            /\ UNCHANGED <<pstate, treeVars, thread_count, ptcbVars, owner_pcb, arg,
                           asleep, tids, created, streamVars>>
       ELSE sys_ThreadExit(t)

(* The loop of init: WaitChild(NOPROC) until there is no child.            *)
ExitLoop(t) ==
    \/ /\ Runs(t, "exitloop")
       /\ IF HasChildren(1)
          THEN AnyChild(t, "exitwait", "exitloop")
          ELSE sys_ThreadExit(t)
    \/ /\ Runs(t, "exitwait")
       /\ AnyChild(t, "exitwait", "exitloop")

-----------------------------------------------------------------------------
(* ThreadJoin and ThreadDetach.                                            *)

CallThreadJoin(t, u) ==
    /\ Calls(t, "ThreadJoin")
    /\ arg' = [arg EXCEPT ![t] = u]
    /\ Go(t, "join")
    /\ UNCHANGED <<pstate, treeVars, thread_count, ptcbVars, owner_pcb, asleep, tids,
                   created, streamVars>>

(* A PTCB that was freed is in no thread list: whatever is read from it,   *)
(* the result is -1.                                                       *)
JoinReturns(t, u) ==
    detached[u] \/ u = t \/ u \notin thread_list[owner_pcb[t]] \/ exited[u]

sys_ThreadJoin(t) ==
    LET u == arg[t] IN
    /\ Runs(t, "join")
    /\ IF JoinReturns(t, u)
       THEN Go(t, "user") /\ UNCHANGED <<ref_count, asleep>>
       ELSE /\ Go(t, "joining")
            /\ ref_count' = [ref_count EXCEPT ![u] = @ + 1]
            /\ asleep' = asleep \cup {t}
    /\ UNCHANGED <<pstate, treeVars, thread_count, thread_list, allocated, exited, detached,
                   owner_pcb, arg, tids, created, streamVars>>

(* After the wait.  The search for &ptcb->thread_list_node in the thread   *)
(* list finds nothing, since the nodes hold the PTCBs, so that only a      *)
(* detached PTCB is freed.                                                 *)
(* Slip: the joiner takes the thread for its own.                          *)
JoinFrees_always(u) == TRUE

JoinFrees(u) == detached[u]

sys_ThreadJoin_woken(t) ==
    LET u == arg[t]
        p == owner_pcb[t]
    IN  /\ Runs(t, "joining")
        /\ IF ~ exited[u] /\ ~ detached[u]
           THEN /\ asleep' = asleep \cup {t}
                /\ UNCHANGED <<pc, ref_count, thread_list, allocated, thread_count>>
           ELSE /\ Go(t, "user")
                /\ ref_count' = [ref_count EXCEPT ![u] = IF @ > 0 THEN @ - 1 ELSE @]
                /\ IF JoinFrees(u)
                   THEN /\ thread_list' = [thread_list EXCEPT ![p] = @ \ {u}]
                        /\ allocated' = allocated \ {u}
                        /\ thread_count' = [thread_count EXCEPT ![p] = @ - 1]
                   ELSE UNCHANGED <<thread_list, allocated, thread_count>>
                /\ UNCHANGED asleep
        /\ UNCHANGED <<pstate, treeVars, exited, detached, owner_pcb, arg, tids, created,
                       streamVars>>

(* The threads that join u give up.  Nothing changes if u is detached.     *)
sys_ThreadDetach(t, u) ==
    /\ Calls(t, "ThreadDetach")
    /\ ~ detached[u]
    /\ detached' = [detached EXCEPT ![u] = TRUE]
    /\ asleep' = asleep \ exit_cv(u)
    /\ UNCHANGED <<pstate, treeVars, thread_count, thread_list, allocated, exited, ref_count,
                   owner_pcb, pc, arg, tids, created, streamVars>>

-----------------------------------------------------------------------------
(* The stream calls of a thread.  A Write gives its reference back before  *)
(* it releases the kernel lock, and is left out.                           *)

StreamCall(t) ==
    LET p == owner_pcb[t] IN
    /\ Calls(t, "Streams")
    /\ \/ \E opened \in BOOLEAN : open_stream(p, opened)
       \/ \E fd \in Fids : sys_Close(p, fd)
       \/ \E oldfd, newfd \in Fids : sys_Dup2(p, oldfd, newfd)
    /\ UNCHANGED <<pstate, treeVars, thread_count, ptcbVars, tcbVars, created>>

(* Slip: the stream may be closed while it is read.                        *)
ReadHolds_nothing(f) == UNCHANGED <<refcount, FCB_freelist>>

ReadHolds(f) == FCB_incref(f)

(* Read of a terminal that has no input: the thread sleeps on rx_ready.    *)
sys_Read(t, fd) ==
    LET f == FIDT[owner_pcb[t]][fd] IN
    /\ Calls(t, "Streams")
    /\ f # NULL
    /\ ReadHolds(f)
    /\ Go(t, "read")
    /\ arg' = [arg EXCEPT ![t] = f]
    /\ asleep' = asleep \cup {t}
    /\ UNCHANGED <<FIDT, pstate, treeVars, thread_count, ptcbVars, owner_pcb, tids, created>>

(* The device broadcasts rx_ready.                                         *)
serial_rx_handler ==
    /\ \E t \in asleep : pc[t] = "read"
    /\ asleep' = {t \in asleep : pc[t] # "read"}
    /\ UNCHANGED <<pstate, treeVars, thread_count, ptcbVars, owner_pcb, pc, arg, tids,
                   created, streamVars>>

sys_Read_ends(t) ==
    /\ Runs(t, "read")
    /\ FCB_decref(arg[t])
    /\ Go(t, "user")
    /\ UNCHANGED <<FIDT, pstate, treeVars, thread_count, ptcbVars, owner_pcb, arg, asleep,
                   tids, created>>

-----------------------------------------------------------------------------
(* The steps of a thread in the kernel, which it takes by itself.          *)
Continue(t) ==
    \/ ExitLoop(t)
    \/ sys_ThreadJoin(t)
    \/ sys_ThreadJoin_woken(t)
    \/ sys_Read_ends(t)

Waits(t) ==
    \/ \E c \in Pids : wait_for_specific_child(t, c)
    \/ wait_for_any_child(t)

(* What the programs do.  A thread knows the threads of its own process    *)
(* that CreateThread has returned.                                         *)
Knows(t, u) == u \in tids /\ owner_pcb[u] = owner_pcb[t]

UsesThreads(t) == owner_pcb[t] = 1 => "init_threads" \in Program

(* Whether another thread of the process is in WaitChild already.          *)
OthersWait(t) ==
    \E u \in Threads \ {t} : pc[u] \in WaitPlaces /\ owner_pcb[u] = owner_pcb[t]

MayWait(t) == pc[t] = "user" /\ OthersWait(t) => "shared_wait" \in Program

(* A program does not detach a thread that has gone: ThreadDetach would    *)
(* write to the freed PTCB.                                                *)
MayDetach(t, u) ==
    /\ Knows(t, u)
    /\ u \in allocated
    /\ ref_count[u] = 0 \/ "detach_joined" \in Program

CreatesThread(t, u)  == UsesThreads(t) /\ sys_CreateThread(t, u)
JoinsThread(t, u)    == Knows(t, u) /\ CallThreadJoin(t, u)
DetachesThread(t, u) == MayDetach(t, u) /\ sys_ThreadDetach(t, u)

(* init has exited, and nothing happens any more.                          *)
Finished ==
    /\ pstate[1] = "ZOMBIE"
    /\ \A t \in Threads : Dead(t)
    /\ UNCHANGED vars

Next ==
    \/ \E t \in Threads :
         \/ \E u \in Threads :
              \/ sys_Exec(t, u)
              \/ CreatesThread(t, u)
              \/ JoinsThread(t, u)
              \/ DetachesThread(t, u)
         \/ UsesThreads(t) /\ ThreadExit(t)
         \/ sys_Exit(t)
         \/ MayWait(t) /\ Waits(t)
         \/ Continue(t)
         \/ StreamCall(t)
         \/ \E fd \in Fids : sys_Read(t, fd)
    \/ serial_rx_handler
    \/ Finished

Spec == Init /\ [][Next]_vars

-----------------------------------------------------------------------------
(* Properties.                                                             *)

Words == {"FREE", "ALIVE", "ZOMBIE"}

(* Every variable keeps its type; the counters of kernel_proc.c and of     *)
(* kernel_threads.c, which are unsigned, never go below zero, and a PTCB   *)
(* has no more joiners than there are threads.                             *)
TypeOK ==
    /\ pstate \in [Pids -> Words]
    /\ parent \in [Pids -> Pids \cup {NULL}]
    /\ pcb_freelist \in Pids \cup {NULL}
    /\ children_list \in [Pids -> SUBSET Pids]
    /\ exited_list \in [Pids -> Seq(Pids)]
    /\ thread_list \in [Pids -> SUBSET Threads]
    /\ thread_count \in [Pids -> 0 .. Cardinality(Threads)]
    /\ process_count \in 2 .. MAX_PROC
    /\ owner_pcb \in [Threads -> Pids]
    /\ allocated \subseteq Threads
    /\ exited \in [Threads -> BOOLEAN]
    /\ detached \in [Threads -> BOOLEAN]
    /\ ref_count \in [Threads -> 0 .. Cardinality(Threads)]
    /\ pc \in [Threads -> Places]
    /\ arg \in [Threads -> Threads \cup Pids \cup FCBs \cup {NULL}]
    /\ asleep \subseteq Threads
    /\ tids \subseteq Threads
    /\ created \in 0 .. MaxCreated
    /\ FIDT \in [Pids -> [Fids -> FCBs \cup {NULL}]]
    /\ refcount \in [FCBs -> Nat]
    /\ FCB_freelist \subseteq FCBs

Used(p) == pstate[p] # "FREE"

(* The processes form a tree: a process is in the children list of its     *)
(* parent and in no other, its parent has not exited (orphans belong to    *)
(* init at once), it is in the exited list of its parent, once, when and   *)
(* only when it is a zombie, and no list refers to a free PCB.  While init *)
(* ends itself in ThreadExit there is no other process.                    *)
ProcessTree ==
    /\ Used(1) /\ parent[1] = NULL
    /\ \A p \in Pids \ {1} : Used(p) => parent[p] # NULL /\ pstate[parent[p]] = "ALIVE"
    /\ \A p, q \in Pids :
         /\ p \in children_list[q] <=> Used(p) /\ parent[p] = q
         /\ Cardinality({i \in DOMAIN exited_list[q] : exited_list[q][i] = p})
              = IF pstate[p] = "ZOMBIE" /\ parent[p] = q THEN 1 ELSE 0
    /\ (\E t \in Threads : pc[t] = "spin") => \A p \in Pids \ {1} : ~ Used(p)

(* The PCBs that acquire_PCB would return one after the other.             *)
FreeChain[n \in Nat] ==
    IF n = 0 THEN pcb_freelist
    ELSE IF FreeChain[n - 1] = NULL THEN NULL
    ELSE parent[FreeChain[n - 1]]

(* The free list, which is threaded through the parent fields, holds every *)
(* free PCB and no other, has no cycle, and process_count counts the rest. *)
FreeListInvariant ==
    LET free == {p \in Pids : ~ Used(p)} IN
    /\ {FreeChain[n] : n \in 0 .. Cardinality(free)} = free \cup {NULL}
    /\ process_count = MAX_PROC - Cardinality(free)

(* The process table is sound: one field, parent, makes both the tree of   *)
(* the processes and the list of the free PCBs, and every exit, adoption   *)
(* and release rewrites it.                                                *)
ProcessTable == TypeOK /\ ProcessTree /\ FreeListInvariant

LiveThreads(p) == {t \in Threads : Alive(t) /\ owner_pcb[t] = p}

(* thread_count is the number of threads of the process, and the process   *)
(* is alive as long as it has one: it becomes a zombie with its last       *)
(* thread, never before and never later.                                   *)
ThreadsKeepProcessAlive ==
    \A p \in Pids :
      /\ thread_count[p] = Cardinality(LiveThreads(p))
      /\ pstate[p] = "ALIVE" <=> LiveThreads(p) # {}

(* No exit is missed: a thread that sleeps in WaitChild has nothing to     *)
(* reap (of the kind it waits for) and has a child to wait for, so that it *)
(* should not have got NOPROC; and one that sleeps in ThreadJoin waits for *)
(* a thread that has neither exited nor been detached.                     *)
NoMissedExit ==
    \A t \in asleep :
      /\ pc[t] \in {"waitany", "exitwait"} =>
           exited_list[owner_pcb[t]] = << >> /\ children_list[owner_pcb[t]] # {}
      /\ pc[t] = "waitpid" => pstate[arg[t]] = "ALIVE" /\ parent[arg[t]] = owner_pcb[t]
      /\ pc[t] = "joining" => ~ exited[arg[t]] /\ ~ detached[arg[t]]

(* On success WaitChild returns the pid of an exited child: the PCB that a *)
(* specific wait releases is a zombie child of the caller, when the wait   *)
(* began and also when it ends.                                            *)
ReapsOwnChild ==
    [][\A t \in Threads :
         pc[t] = "waitpid" /\ pc'[t] = "user"
           => pstate[arg[t]] = "ZOMBIE" /\ parent[arg[t]] = owner_pcb[t]]_vars

(* ThreadJoin waits for the thread, or fails because the thread is         *)
(* detached, is the caller, is not a thread of this process or was joined  *)
(* already.  A thread that has exited and that nobody has joined is none   *)
(* of these: its PTCB must still be there.                                 *)
JoinFindsThread ==
    [][\A t \in Threads :
         LET u == arg[t] IN
         pc[t] = "join" /\ pc'[t] = "user"
           => detached[u] \/ u = t \/ owner_pcb[u] # owner_pcb[t] \/ u \in allocated]_vars

(* A stream is referred to by the entries of the file tables and by the    *)
(* threads that read it.                                                   *)
References(f) ==
    Cardinality({e \in Pids \X Fids : FIDT[e[1]][e[2]] = f})
      + Cardinality({t \in Threads : pc[t] = "read" /\ arg[t] = f})

(* A stream is closed with its last reference, and only then: across Exec, *)
(* Exit, Dup2, Close and a blocked Read, the count of an FCB in use is the *)
(* number of its references, and a free FCB has none.                      *)
StreamReferences ==
    \A f \in FCBs :
      IF f \in FCB_freelist THEN References(f) = 0
      ELSE References(f) > 0 /\ refcount[f] = References(f)

=============================================================================
