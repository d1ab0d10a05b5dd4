-------------------------- MODULE ProcessesProofs --------------------------
(***************************************************************************)
(* Proofs about processes, their threads and their streams, for a process  *)
(* table, file tables and a set of threads of any size.                    *)
(*                                                                         *)
(* The programs are disciplined: threads of one process do not call        *)
(* WaitChild together, a thread that is being joined is not detached, and  *)
(* init, the first process, has one thread.  Without that discipline the   *)
(* kernel does not keep the invariants.                                    *)
(***************************************************************************)
EXTENDS Processes, ListLemmas, FiniteSetTheorems, TLAPS

Disciplined == Program \cap {"init_threads", "shared_wait", "detach_joined"} = {}

(* The types of the variables but for the bounds of the counters.          *)
Types ==
    /\ pstate \in [Pids -> Words]
    /\ parent \in [Pids -> Pids \cup {NULL}]
    /\ pcb_freelist \in Pids \cup {NULL}
    /\ children_list \in [Pids -> SUBSET Pids]
    /\ exited_list \in [Pids -> Seq(Pids)]
    /\ thread_list \in [Pids -> SUBSET Threads]
    /\ thread_count \in [Pids -> Int]
    /\ process_count \in Int
    /\ owner_pcb \in [Threads -> Pids]
    /\ allocated \subseteq Threads
    /\ exited \in [Threads -> BOOLEAN]
    /\ detached \in [Threads -> BOOLEAN]
    /\ ref_count \in [Threads -> Int]
    /\ pc \in [Threads -> Places]
    /\ arg \in [Threads -> Threads \cup Pids \cup FCBs \cup {NULL}]
    /\ asleep \subseteq Threads
    /\ tids \subseteq Threads
    /\ created \in 0 .. MaxCreated

(* The processes and their lists.                                          *)
Tree ==
    /\ Used(1) /\ parent[1] = NULL
    /\ \A p \in Pids \ {1} : Used(p) => parent[p] \in Pids /\ pstate[parent[p]] = "ALIVE"
    /\ \A p, q \in Pids : p \in children_list[q] <=> Used(p) /\ parent[p] = q
    /\ \A q \in Pids : IsInjective(exited_list[q])
    /\ \A p, q \in Pids :
         Contains(exited_list[q], p) <=> pstate[p] = "ZOMBIE" /\ parent[p] = q

(* The tree has no cycle: a process is deeper than its parent.  So, when   *)
(* init has no child, there is no other process.                           *)
IsDepth(d) ==
    /\ d[1] = 0
    /\ \A p \in Pids \ {1} : d[p] > 0 /\ (Used(p) => d[p] > d[parent[p]])

Rooted == \E d \in [Pids -> Nat] : IsDepth(d)

(* The free PCBs, in the order in which acquire_PCB would return them.     *)
Link(s, i) == IF i \in 1 .. Len(s) THEN s[i] ELSE NULL

IsFreeList(s) ==
    /\ IsInjective(s)
    /\ \A p \in Pids : Contains(s, p) <=> ~ Used(p)
    /\ pcb_freelist = Link(s, 1)
    /\ \A i \in 1 .. Len(s) : parent[s[i]] = Link(s, i + 1)

FreeList ==
    /\ \E s \in Seq(Pids) : IsFreeList(s)
    /\ process_count = MAX_PROC - Cardinality({p \in Pids : ~ Used(p)})

(* The threads: each is in the list of its process while it has a PTCB,    *)
(* and it has one while it lives.                                          *)
PTCBs ==
    /\ \A p \in Pids : thread_list[p] = {t \in allocated : owner_pcb[t] = p}
    /\ \A t \in Threads : Alive(t) => t \in allocated

InitAlone ==
    /\ \A t, u \in Threads :
         Alive(t) /\ Alive(u) /\ owner_pcb[t] = 1 /\ owner_pcb[u] = 1 => t = u
    /\ \A t \in Threads : pc[t] \in {"exitloop", "exitwait"} => owner_pcb[t] = 1
    /\ \A t \in Threads : pc[t] # "spin"

(* A PTCB counts the threads that join it, and outlives them.              *)
Joiners(u) == {t \in Threads : pc[t] = "joining" /\ arg[t] = u}

Joins ==
    /\ \A t \in Threads : pc[t] \in {"join", "joining"} => arg[t] \in Threads
    /\ \A t \in Threads : pc[t] = "joining" => arg[t] \in allocated /\ ~ detached[arg[t]]
    /\ \A u \in Threads : ref_count[u] = Cardinality(Joiners(u))
    /\ \A t \in asleep : pc[t] = "joining" => ~ exited[arg[t]]

(* A thread in WaitChild is the only one of its process, so that the       *)
(* child it waits for, or some child, stays until it is reaped.            *)
Waiting ==
    /\ \A t \in Threads :
         /\ pc[t] = "waitpid" =>
              arg[t] \in Pids /\ Used(arg[t]) /\ parent[arg[t]] = owner_pcb[t]
         /\ pc[t] \in {"waitany", "exitwait"} => children_list[owner_pcb[t]] # {}
    /\ \A t, u \in Threads :
         pc[t] \in WaitPlaces /\ pc[u] \in WaitPlaces /\ owner_pcb[t] = owner_pcb[u] => t = u
    /\ \A t \in asleep :
         /\ pc[t] = "waitpid" => pstate[arg[t]] = "ALIVE"
         /\ pc[t] \in {"waitany", "exitwait"} => exited_list[owner_pcb[t]] = << >>

(* The streams: a process that is not alive has no open file.              *)
Files ==
    /\ FIDT \in [Pids -> [Fids -> FCBs \cup {NULL}]]
    /\ refcount \in [FCBs -> Nat]
    /\ FCB_freelist \subseteq FCBs
    /\ \A p \in Pids : pstate[p] # "ALIVE" => FIDT[p] = NoFiles
    /\ \A t \in Threads : pc[t] = "read" => arg[t] \in FCBs
    /\ StreamReferences

ProcessInv ==
    /\ Types
    /\ Tree
    /\ Rooted
    /\ FreeList
    /\ ThreadsKeepProcessAlive
    /\ PTCBs
    /\ InitAlone
    /\ Joins
    /\ Waiting
    /\ Files

-----------------------------------------------------------------------------
(* The constants.                                                          *)
LEMMA Constants ==
    /\ 1 \in Pids /\ NULL \notin Pids /\ Pids \subseteq Int
    /\ IsFiniteSet(Pids) /\ Cardinality(Pids) = MAX_PROC - 1
<1>1. MAX_PROC \in Nat /\ MAX_PROC >= 2 /\ NULL \notin Int
  BY StreamsAssumption
<1>2. 1 \in Pids /\ Pids \subseteq Int
  BY <1>1 DEF Pids
<1>3. IsFiniteSet(Pids) /\ Cardinality(Pids) = MAX_PROC - 1
  <2>1. MAX_PROC - 1 \in Int /\ 1 \in Int
    BY <1>1
  <2>2. /\ IsFiniteSet(1 .. MAX_PROC - 1)
        /\ Cardinality(1 .. MAX_PROC - 1)
             = IF 1 > MAX_PROC - 1 THEN 0 ELSE (MAX_PROC - 1) - 1 + 1
    BY <2>1, FS_Interval
  <2> QED BY <1>1, <2>2 DEF Pids
<1> QED BY <1>1, <1>2, <1>3

(* rlist_remove.                                                           *)
LEMMA WithoutMembers ==
    ASSUME NEW S, NEW q \in Seq(S), IsInjective(q), NEW c
    PROVE  /\ Without(q, c) \in Seq(S)
           /\ IsInjective(Without(q, c))
           /\ \A u : Contains(Without(q, c), u) <=> Contains(q, u) /\ u # c
<1>1. CASE ~ Contains(q, c)
  BY <1>1 DEF Without
<1>2. CASE Contains(q, c)
  <2> DEFINE i == CHOOSE i \in DOMAIN q : q[i] = c
  <2>1. DOMAIN q = 1 .. Len(q)
    OBVIOUS
  <2>2. i \in DOMAIN q /\ q[i] = c
    BY <1>2, <2>1 DEF Contains
  <2>3. Without(q, c) = RemoveAt(q, i)
    BY <1>2 DEF Without
  <2> HIDE DEF i
  <2>4. /\ RemoveAt(q, i) \in Seq(S) /\ IsInjective(RemoveAt(q, i))
        /\ \A u : Contains(RemoveAt(q, i), u) <=> Contains(q, u) /\ u # q[i]
    BY <2>1, <2>2, RemoveMembers
  <2> QED BY <2>2, <2>3, <2>4
<1> QED BY <1>1, <1>2

-----------------------------------------------------------------------------
Args == Threads \cup Pids \cup FCBs \cup {NULL}

(* What the calls of WaitChild come to.  The thread sleeps ...             *)
Blocks(t, place) ==
    /\ pc[t] \in {"user", "waitpid", "waitany", "exitloop", "exitwait"}
    /\ t \notin asleep
    /\ Go(t, place)
    /\ asleep' = asleep \cup {t}
    /\ arg' \in [Threads -> Args] /\ \A u \in Threads \ {t} : arg'[u] = arg[u]
    /\ \/ /\ place = "waitpid" /\ arg'[t] \in Pids
          /\ pstate[arg'[t]] = "ALIVE" /\ parent[arg'[t]] = owner_pcb[t]
       \/ /\ place \in {"waitany", "exitwait"} /\ arg' = arg
          /\ exited_list[owner_pcb[t]] = << >> /\ children_list[owner_pcb[t]] # {}
          /\ place = "exitwait" => owner_pcb[t] = 1
    /\ \A u \in Threads \ {t} : pc[u] \in WaitPlaces => owner_pcb[u] # owner_pcb[t]
    /\ UNCHANGED <<pstate, treeVars, thread_count, ptcbVars, owner_pcb, tids, created, streamVars>>

(* ... or it reaps an exited child.                                        *)
Reaps(t, c, next) ==
    /\ pc[t] \in {"user", "waitpid", "waitany", "exitloop", "exitwait"}
    /\ t \notin asleep
    /\ c \in Pids \ {1} /\ pstate[c] = "ZOMBIE" /\ parent[c] = owner_pcb[t]
    /\ pc[t] = "waitpid" => c = arg[t]
    /\ cleanup_zombie(c)
    /\ next \in {"user", "exitloop"} /\ (next = "exitloop" => owner_pcb[t] = 1)
    /\ Go(t, next)
    /\ arg' \in [Threads -> Args] /\ \A u \in Threads \ {t} : arg'[u] = arg[u]
    /\ \A u \in Threads \ {t} : pc[u] \in WaitPlaces => owner_pcb[u] # owner_pcb[t]
    /\ UNCHANGED <<asleep, thread_count, ptcbVars, owner_pcb, tids, created, streamVars>>

LEMMA WaitEffect ==
    ASSUME ProcessInv, Disciplined, NEW t \in Threads,
           (MayWait(t) /\ Waits(t)) \/ (ExitLoop(t) /\ ~ (HasChildren(1) = FALSE /\ Runs(t, "exitloop")))
    PROVE  (\E place : Blocks(t, place)) \/ (\E c, next : Reaps(t, c, next))
<1>c. 1 \in Pids /\ NULL \notin Pids
  BY Constants
<1>t. /\ arg \in [Threads -> Args] /\ owner_pcb \in [Threads -> Pids]
      /\ pstate \in [Pids -> Words] /\ exited_list \in [Pids -> Seq(Pids)]
  BY DEF ProcessInv, Types, Args
<1>i. ProcessInv
  OBVIOUS
<1>1. ASSUME NEW c \in Pids, MayWait(t), wait_for_specific_child(t, c)
      PROVE  (\E place : Blocks(t, place)) \/ (\E next : Reaps(t, c, next))
  <2>1. /\ pc[t] \in {"user", "waitpid"} /\ t \notin asleep
        /\ pstate[c] # "FREE" /\ parent[c] = owner_pcb[t]
        /\ pc[t] = "waitpid" => c = arg[t]
    BY <1>1 DEF wait_for_specific_child, Calls, Runs, ProcessInv, Waiting, Used
  <2>2. \A u \in Threads \ {t} : pc[u] \in WaitPlaces => owner_pcb[u] # owner_pcb[t]
    <3>1. CASE Calls(t, "WaitChild")
      BY <1>1, <3>1 DEF Calls, Runs, MayWait, OthersWait, Disciplined
    <3>2. CASE Runs(t, "waitpid")
      BY <3>2 DEF Runs, ProcessInv, Waiting, WaitPlaces
    <3> QED BY <1>1, <3>1, <3>2 DEF wait_for_specific_child
  <2>3. /\ arg'[t] = c /\ arg' \in [Threads -> Args]
        /\ \A u \in Threads \ {t} : arg'[u] = arg[u]
    BY <1>1, <1>t DEF wait_for_specific_child, Args
  <2>4. CASE StillAlive(t, c)
    <3>1. Go(t, "waitpid") /\ asleep' = asleep \cup {t} /\ UNCHANGED <<pstate, treeVars>>
      BY <1>1, <2>4 DEF wait_for_specific_child, SleepOrReap
    <3>2. Blocks(t, "waitpid")
      BY <1>1, <2>1, <2>2, <2>3, <2>4, <3>1 DEF Blocks, StillAlive, wait_for_specific_child, WaitUnchanged
    <3> QED BY <3>2
  <2>5. CASE ~ StillAlive(t, c)
    <3>1. cleanup_zombie(c) /\ Go(t, "user") /\ UNCHANGED asleep
      BY <1>1, <2>5 DEF wait_for_specific_child, SleepOrReap
    <3>2. pstate[c] = "ZOMBIE" /\ c # 1
      <4>1. owner_pcb[t] \in Pids /\ pstate[c] \in {"FREE", "ALIVE", "ZOMBIE"} /\ parent[1] = NULL
        BY <1>t DEF Words, ProcessInv, Tree
      <4> QED BY <1>c, <2>1, <2>5, <4>1 DEF StillAlive
    <3>3. Reaps(t, c, "user")
      BY <1>1, <2>1, <2>2, <2>3, <3>1, <3>2 DEF Reaps, wait_for_specific_child, WaitUnchanged
    <3> QED BY <3>3
  <2> QED BY <2>4, <2>5
<1>2. ASSUME NEW place, NEW next, AnyChild(t, place, next), t \notin asleep,
             pc[t] \in {"user", "waitany", "exitloop", "exitwait"},
             place \in {"waitany", "exitwait"}, place = "exitwait" => owner_pcb[t] = 1,
             next \in {"user", "exitloop"}, next = "exitloop" => owner_pcb[t] = 1,
             children_list[owner_pcb[t]] # {},
             \A u \in Threads \ {t} : pc[u] \in WaitPlaces => owner_pcb[u] # owner_pcb[t]
      PROVE  Blocks(t, place) \/ \E c : Reaps(t, c, next)
  <2>1. CASE exited_list[owner_pcb[t]] = << >>
    BY <1>2, <1>t, <2>1 DEF AnyChild, SleepOrReap, Blocks, WaitUnchanged
  <2>2. CASE exited_list[owner_pcb[t]] # << >>
    <3>1. PICK c : c = Head(exited_list[owner_pcb[t]])
      OBVIOUS
    <3>2. cleanup_zombie(c) /\ Go(t, next) /\ UNCHANGED asleep /\ UNCHANGED arg /\ WaitUnchanged
      BY <1>2, <2>2, <3>1 DEF AnyChild, SleepOrReap
    <3>3. owner_pcb[t] \in Pids /\ exited_list[owner_pcb[t]] \in Seq(Pids) /\ IsInjective(exited_list[owner_pcb[t]])
      BY <1>t DEF ProcessInv, Tree
    <3>4. c \in Pids /\ Contains(exited_list[owner_pcb[t]], c)
      BY <2>2, <3>1, <3>3, TailMembers
    <3>5. pstate[c] = "ZOMBIE" /\ parent[c] = owner_pcb[t] /\ c # 1
      BY <1>c, <3>3, <3>4 DEF ProcessInv, Tree
    <3>6. Reaps(t, c, next)
      BY <1>2, <1>t, <3>2, <3>4, <3>5 DEF Reaps, WaitUnchanged
    <3> QED BY <3>6
  <2> QED BY <2>1, <2>2
<1>3. CASE MayWait(t) /\ wait_for_any_child(t)
  <2>1. /\ pc[t] \in {"user", "waitany"} /\ t \notin asleep /\ children_list[owner_pcb[t]] # {}
        /\ AnyChild(t, "waitany", "user")
    BY <1>3 DEF wait_for_any_child, Calls, Runs, HasChildren, ProcessInv, Waiting
  <2>2. \A u \in Threads \ {t} : pc[u] \in WaitPlaces => owner_pcb[u] # owner_pcb[t]
    <3>1. CASE Calls(t, "WaitChild")
      BY <1>3, <3>1 DEF Calls, Runs, MayWait, OthersWait, Disciplined
    <3>2. CASE Runs(t, "waitany")
      BY <3>2 DEF Runs, ProcessInv, Waiting, WaitPlaces
    <3> QED BY <1>3, <3>1, <3>2 DEF wait_for_any_child
  <2> QED BY <1>2, <2>1, <2>2
<1>4. CASE ExitLoop(t) /\ ~ (HasChildren(1) = FALSE /\ Runs(t, "exitloop"))
  <2>1. /\ pc[t] \in {"exitloop", "exitwait"} /\ t \notin asleep
        /\ AnyChild(t, "exitwait", "exitloop")
    BY <1>4 DEF ExitLoop, Runs, HasChildren
  <2>2. owner_pcb[t] = 1
    BY <2>1 DEF ProcessInv, InitAlone
  <2>3. children_list[owner_pcb[t]] # {}
    BY <1>4, <2>1, <2>2 DEF ExitLoop, Runs, HasChildren, ProcessInv, Waiting
  <2>4. \A u \in Threads \ {t} : pc[u] \in WaitPlaces => owner_pcb[u] # owner_pcb[t]
    BY <2>1, <2>2 DEF ProcessInv, InitAlone, Alive, Dead, WaitPlaces
  <2> QED BY <1>2, <2>1, <2>2, <2>3, <2>4
<1> QED BY <1>1, <1>3, <1>4 DEF Waits

(* A thread that exits: init is without children then, so that no thread   *)
(* spins.                                                                  *)
Exits(t) ==
    /\ pc[t] \in {"user", "exitloop"} /\ t \notin asleep
    /\ sys_ThreadExit(t)
    /\ owner_pcb[t] = 1 => children_list[1] = {}

LEMMA ExitEffect ==
    ASSUME ProcessInv, Disciplined, NEW t \in Threads,
           \/ UsesThreads(t) /\ ThreadExit(t)
           \/ sys_Exit(t) /\ ~ MustWait(t)
           \/ ExitLoop(t) /\ HasChildren(1) = FALSE /\ Runs(t, "exitloop")
    PROVE  Exits(t)
<1>1. CASE UsesThreads(t) /\ ThreadExit(t)
  BY <1>1 DEF ThreadExit, UsesThreads, Calls, Runs, Exits, Disciplined
<1>2. CASE sys_Exit(t) /\ ~ MustWait(t)
  BY <1>2 DEF sys_Exit, Calls, Runs, Exits, MustWait
<1>3. CASE ExitLoop(t) /\ HasChildren(1) = FALSE /\ Runs(t, "exitloop")
  BY <1>3 DEF ExitLoop, Runs, Exits, HasChildren
<1> QED BY <1>1, <1>2, <1>3

(* A joiner that was woken: its PTCB is not detached, and it frees none.  *)
JoinWakes(t) ==
    /\ pc[t] = "joining" /\ t \notin asleep /\ arg[t] \in Threads
    /\ \/ ~ exited[arg[t]] /\ asleep' = asleep \cup {t} /\ UNCHANGED <<pc, ref_count>>
       \/ /\ Go(t, "user") /\ UNCHANGED asleep
          /\ ref_count' = [ref_count EXCEPT ![arg[t]] = IF @ > 0 THEN @ - 1 ELSE @]
    /\ UNCHANGED <<pstate, treeVars, thread_count, thread_list, allocated, exited, detached,
                   owner_pcb, arg, tids, created, streamVars>>

LEMMA JoinEffect ==
    ASSUME ProcessInv, NEW t \in Threads, sys_ThreadJoin_woken(t)
    PROVE  JoinWakes(t)
<1>1. pc[t] = "joining" /\ t \notin asleep
  BY DEF sys_ThreadJoin_woken, Runs
<1>2. arg[t] \in Threads /\ ~ detached[arg[t]]
  BY <1>1 DEF ProcessInv, Joins
<1> QED BY <1>1, <1>2 DEF sys_ThreadJoin_woken, JoinWakes, JoinFrees

(* init begins to wait for its children.                                   *)
InitEnds(t) == sys_Exit(t) /\ MustWait(t)

(* The kinds of steps.                                                     *)
LEMMA Kinds ==
    ASSUME ProcessInv, Disciplined, Next
    PROVE  \/ \E t, u \in Threads : sys_Exec(t, u)
           \/ \E t, u \in Threads : CreatesThread(t, u)
           \/ \E t, u \in Threads : JoinsThread(t, u)
           \/ \E t, u \in Threads : DetachesThread(t, u)
           \/ \E t \in Threads : \E place : Blocks(t, place)
           \/ \E t \in Threads : \E c, next : Reaps(t, c, next)
           \/ \E t \in Threads : Exits(t)
           \/ \E t \in Threads : InitEnds(t)
           \/ \E t \in Threads : sys_ThreadJoin(t)
           \/ \E t \in Threads : JoinWakes(t)
           \/ \E t \in Threads : sys_Read_ends(t)
           \/ \E t \in Threads : StreamCall(t)
           \/ \E t \in Threads, fd \in Fids : sys_Read(t, fd)
           \/ serial_rx_handler
           \/ Finished
<1>1. ASSUME NEW t \in Threads, (MayWait(t) /\ Waits(t)) \/ ExitLoop(t)
      PROVE  Exits(t) \/ (\E place : Blocks(t, place)) \/ (\E c, next : Reaps(t, c, next))
  BY <1>1, WaitEffect, ExitEffect
<1>2. ASSUME NEW t \in Threads, (UsesThreads(t) /\ ThreadExit(t)) \/ sys_Exit(t)
      PROVE  Exits(t) \/ InitEnds(t)
  BY <1>2, ExitEffect DEF InitEnds
<1> QED BY <1>1, <1>2, JoinEffect DEF Next, Continue

-----------------------------------------------------------------------------
LEMMA TypesStep ==
    ASSUME ProcessInv, Disciplined, Next
    PROVE  Types'
<1>i. Types
  BY DEF ProcessInv
<1>c. 1 \in Pids /\ NULL \notin Pids
  BY Constants
<1> USE <1>i DEF Types
<1>1. ASSUME NEW t \in Threads, NEW u \in Threads, sys_Exec(t, u) PROVE Types'
  BY <1>1, ProcessesAssumption DEF sys_Exec, NewThread, Go, Words, Places
<1>2. ASSUME NEW t \in Threads, NEW u \in Threads, CreatesThread(t, u) PROVE Types'
  BY <1>2, ProcessesAssumption DEF CreatesThread, sys_CreateThread, NewThread, Go, Words, Places, treeVars
<1>3. ASSUME NEW t \in Threads, NEW u \in Threads, JoinsThread(t, u) PROVE Types'
  BY <1>3 DEF JoinsThread, CallThreadJoin, Go, Places, treeVars, ptcbVars
<1>4. ASSUME NEW t \in Threads, NEW u \in Threads, DetachesThread(t, u) PROVE Types'
  BY <1>4 DEF DetachesThread, sys_ThreadDetach, treeVars

<1>5. ASSUME NEW t \in Threads, NEW place, Blocks(t, place) PROVE Types'
  BY <1>5 DEF Blocks, Go, Places, treeVars, ptcbVars, Args
<1>6. ASSUME NEW t \in Threads, NEW c, NEW next, Reaps(t, c, next) PROVE Types'
  <2>1. exited_list' \in [Pids -> Seq(Pids)]
    BY <1>6, WithoutMembers DEF Reaps, cleanup_zombie, Unlink, ProcessInv, Tree
  <2>2. pc' \in [Threads -> Places] /\ arg' \in [Threads -> Threads \cup Pids \cup FCBs \cup {NULL}]
    BY <1>6 DEF Reaps, Go, Places, Args
  <2> QED BY <1>6, <2>1, <2>2 DEF Reaps, cleanup_zombie, Unlink, release_PCB, Words, ptcbVars
<1>7. ASSUME NEW t \in Threads, Exits(t) PROVE Types'
  <2>1. /\ owner_pcb[t] \in Pids /\ sys_ThreadExit(t)
    BY <1>7 DEF Exits
  <2>2. pstate' \in [Pids -> Words]
    BY <2>1 DEF sys_ThreadExit, Words
  <2>3. exited_list' \in [Pids -> Seq(Pids)]
    <3>1. CASE exited_list' = exited_list
      BY <3>1
    <3>2. CASE exited_list' = ExitedAfter(owner_pcb[t])
      <4>1. ASSUME NEW q \in Pids PROVE ExitedAfter(owner_pcb[t])[q] \in Seq(Pids)
        <5>1. << owner_pcb[t] >> \in Seq(Pids) /\ << >> \in Seq(Pids)
          BY <2>1
        <5>2. \A a, b \in Seq(Pids) : a \o b \in Seq(Pids)
          OBVIOUS
        <5>3. exited_list[q] \in Seq(Pids) /\ exited_list[owner_pcb[t]] \in Seq(Pids)
          BY <2>1
        <5> QED BY <5>1, <5>2, <5>3 DEF ExitedAfter
      <4>2. ExitedAfter(owner_pcb[t]) = [q \in Pids |-> ExitedAfter(owner_pcb[t])[q]]
        BY DEF ExitedAfter
      <4> QED BY <3>2, <4>1, <4>2
    <3> QED BY <2>1, <3>1, <3>2 DEF sys_ThreadExit
  <2>4. children_list' \in [Pids -> SUBSET Pids] /\ parent' \in [Pids -> Pids \cup {NULL}]
    <3>1. CASE UNCHANGED <<children_list, parent>>
      BY <3>1
    <3>2. CASE Reparent(owner_pcb[t])
      BY <1>c, <2>1, <3>2 DEF Reparent
    <3> QED BY <2>1, <3>1, <3>2 DEF sys_ThreadExit
  <2>5. thread_list' \in [Pids -> SUBSET Threads] /\ thread_count' \in [Pids -> Int]
    BY <2>1 DEF sys_ThreadExit
  <2>6. allocated' \subseteq Threads /\ exited' \in [Threads -> BOOLEAN] /\ asleep' \subseteq Threads
    BY <2>1 DEF sys_ThreadExit
  <2>7. pc' \in [Threads -> Places]
    BY <2>1 DEF sys_ThreadExit, Go, Places
  <2>8. UNCHANGED <<pcb_freelist, process_count, owner_pcb, detached, ref_count, arg, tids, created>>
    BY <2>1 DEF sys_ThreadExit
  <2> QED BY <2>2, <2>3, <2>4, <2>5, <2>6, <2>7, <2>8
<1>8. ASSUME NEW t \in Threads, InitEnds(t) PROVE Types'
  BY <1>8 DEF InitEnds, sys_Exit, Go, Places, treeVars, ptcbVars
<1>9. ASSUME NEW t \in Threads, sys_ThreadJoin(t) PROVE Types'
  <2>1. pc' \in [Threads -> Places]
    BY <1>9 DEF sys_ThreadJoin, Go, Places
  <2>2. ref_count' \in [Threads -> Int]
    BY <1>9 DEF sys_ThreadJoin
  <2> QED BY <1>9, <2>1, <2>2 DEF sys_ThreadJoin, treeVars
<1>10. ASSUME NEW t \in Threads, JoinWakes(t) PROVE Types'
  <2>1. pc' \in [Threads -> Places]
    BY <1>10 DEF JoinWakes, Go, Places
  <2>2. ref_count' \in [Threads -> Int]
    BY <1>10 DEF JoinWakes
  <2> QED BY <1>10, <2>1, <2>2 DEF JoinWakes, treeVars
<1>11. ASSUME NEW t \in Threads, sys_Read_ends(t) PROVE Types'
  BY <1>11 DEF sys_Read_ends, Go, Places, treeVars, ptcbVars
<1>12. ASSUME NEW t \in Threads, StreamCall(t) PROVE Types'
  BY <1>12 DEF StreamCall, treeVars, ptcbVars, tcbVars
<1>13. ASSUME NEW t \in Threads, NEW fd \in Fids, sys_Read(t, fd) PROVE Types'
  <2>1. FIDT[owner_pcb[t]][fd] \in FCBs
    BY <1>13 DEF sys_Read, ProcessInv, Files
  <2> QED BY <1>13, <2>1 DEF sys_Read, Go, Places, treeVars, ptcbVars
<1>14. CASE serial_rx_handler
  BY <1>14 DEF serial_rx_handler, treeVars, ptcbVars
<1>15. CASE Finished
  BY <1>15 DEF Finished, vars, treeVars, ptcbVars, tcbVars
<1> QED BY <1>1, <1>2, <1>3, <1>4, <1>5, <1>6, <1>7, <1>8, <1>9, <1>10, <1>11, <1>12, <1>13, <1>14, <1>15, Kinds

-----------------------------------------------------------------------------
(* Facts about the processes that the steps need.                          *)

(* rlist_append and rlist_push_front.                                      *)
LEMMA ConcatMembers ==
    ASSUME NEW S, NEW a \in Seq(S), NEW b \in Seq(S)
    PROVE  /\ a \o b \in Seq(S)
           /\ \A x : Contains(a \o b, x) <=> Contains(a, x) \/ Contains(b, x)
           /\ (IsInjective(a) /\ IsInjective(b) /\ \A x : ~ (Contains(a, x) /\ Contains(b, x)))
                => IsInjective(a \o b)
<1> DEFINE c == a \o b
           m == Len(a)
           n == Len(b)
<1>1. /\ c \in Seq(S) /\ m \in Nat /\ n \in Nat /\ Len(c) = m + n
      /\ \A i \in 1 .. m + n : c[i] = IF i <= m THEN a[i] ELSE b[i - m]
  BY ConcatProperties
<1>d. DOMAIN c = 1 .. m + n /\ DOMAIN a = 1 .. m /\ DOMAIN b = 1 .. n
  BY <1>1
<1> HIDE DEF c, m, n
<1>2. \A i \in 1 .. m : i \in 1 .. m + n /\ c[i] = a[i]
  BY <1>1
<1>3. \A i \in 1 .. n : i + m \in 1 .. m + n /\ c[i + m] = b[i]
  <2> SUFFICES ASSUME NEW i \in 1 .. n PROVE i + m \in 1 .. m + n /\ c[i + m] = b[i]
    OBVIOUS
  <2>1. i + m \in 1 .. m + n /\ ~ (i + m <= m) /\ (i + m) - m = i
    BY <1>1
  <2> QED BY <1>1, <2>1
<1>4. \A i \in 1 .. m + n : i \in 1 .. m \/ \E j \in 1 .. n : i = j + m
  <2> SUFFICES ASSUME NEW i \in 1 .. m + n, i \notin 1 .. m PROVE \E j \in 1 .. n : i = j + m
    OBVIOUS
  <2>1. i - m \in 1 .. n /\ i = (i - m) + m
    BY <1>1
  <2> QED BY <2>1
<1>5. \A x : Contains(c, x) <=> Contains(a, x) \/ Contains(b, x)
  <2>1. ASSUME NEW x, Contains(a, x) PROVE Contains(c, x)
    BY <1>1, <1>2, <2>1 DEF Contains, m
  <2>2. ASSUME NEW x, Contains(b, x) PROVE Contains(c, x)
    BY <1>1, <1>3, <2>2 DEF Contains, n
  <2>3. ASSUME NEW x, Contains(c, x) PROVE Contains(a, x) \/ Contains(b, x)
    <3>1. PICK i \in 1 .. m + n : c[i] = x
      BY <1>1, <2>3 DEF Contains
    <3>2. CASE i \in 1 .. m
      BY <1>2, <3>1, <3>2 DEF Contains, m
    <3>3. CASE \E j \in 1 .. n : i = j + m
      BY <1>3, <3>1, <3>3 DEF Contains, n
    <3> QED BY <1>4, <3>2, <3>3
  <2> QED BY <2>1, <2>2, <2>3
<1>6. ASSUME IsInjective(a), IsInjective(b), \A x : ~ (Contains(a, x) /\ Contains(b, x))
      PROVE  IsInjective(c)
  <2>1. ASSUME NEW i \in 1 .. m, NEW j \in 1 .. n PROVE a[i] # b[j]
    BY <1>6 DEF Contains, m, n
  <2>2. ASSUME NEW i \in 1 .. m + n, NEW j \in 1 .. m + n, c[i] = c[j] PROVE i = j
    <3>1. CASE i \in 1 .. m /\ j \in 1 .. m
      BY <1>2, <1>6, <1>d, <2>2, <3>1 DEF IsInjective
    <3>2. CASE (\E k \in 1 .. n : i = k + m) /\ (\E k \in 1 .. n : j = k + m)
      <4>1. PICK k \in 1 .. n : i = k + m
        BY <3>2
      <4>2. PICK l \in 1 .. n : j = l + m
        BY <3>2
      <4>3. b[k] = b[l]
        BY <1>3, <2>2, <4>1, <4>2
      <4>4. k = l
        BY <1>6, <1>d, <4>3 DEF IsInjective
      <4> QED BY <4>1, <4>2, <4>4
    <3>3. CASE i \in 1 .. m /\ (\E k \in 1 .. n : j = k + m)
      BY <1>2, <1>3, <2>1, <2>2, <3>3
    <3>4. CASE j \in 1 .. m /\ (\E k \in 1 .. n : i = k + m)
      BY <1>2, <1>3, <2>1, <2>2, <3>4
    <3> QED BY <1>4, <3>1, <3>2, <3>3, <3>4
  <2> QED BY <1>d, <2>2 DEF IsInjective
<1> QED BY <1>1, <1>5, <1>6 DEF c

LEMMA OwnerAlive ==
    ASSUME ProcessInv, NEW t \in Threads, Alive(t)
    PROVE  owner_pcb[t] \in Pids /\ pstate[owner_pcb[t]] = "ALIVE"
<1>1. owner_pcb[t] \in Pids
  BY DEF ProcessInv, Types
<1>2. t \in LiveThreads(owner_pcb[t])
  BY DEF LiveThreads
<1> QED BY <1>1, <1>2 DEF ProcessInv, ThreadsKeepProcessAlive

(* acquire_PCB returns a free PCB.                                         *)
LEMMA FirstIsFree ==
    ASSUME ProcessInv, pcb_freelist # NULL
    PROVE  pcb_freelist \in Pids /\ pstate[pcb_freelist] = "FREE" /\ pcb_freelist # 1
<1>1. PICK s \in Seq(Pids) : IsFreeList(s)
  BY DEF ProcessInv, FreeList
<1>2. 1 \in 1 .. Len(s) /\ pcb_freelist = s[1]
  BY <1>1 DEF IsFreeList, Link
<1>3. s[1] \in Pids /\ Contains(s, s[1])
  BY <1>2 DEF Contains
<1> QED BY <1>1, <1>2, <1>3 DEF IsFreeList, Used, ProcessInv, Tree

(* A process is not its own parent, and init lives while there is another. *)
LEMMA InitLives ==
    ASSUME ProcessInv, NEW p \in Pids \ {1}, Used(p)
    PROVE  parent[p] # p /\ pstate[1] = "ALIVE" /\ children_list[1] # {}
<1>1. PICK d \in [Pids -> Nat] : IsDepth(d)
  BY DEF ProcessInv, Rooted
<1>2. parent[p] # p
  BY <1>1 DEF IsDepth
<1> DEFINE T == {d[q] : q \in {q \in Pids \ {1} : Used(q)}}
<1>3. PICK n \in T : \A k \in T : n <= k
  <2>1. T \subseteq Nat /\ T # {}
    OBVIOUS
  <2> QED BY <2>1, LeastMember
<1>4. PICK q \in Pids \ {1} : Used(q) /\ d[q] = n
  BY <1>3
<1>5. parent[q] \in Pids /\ pstate[parent[q]] = "ALIVE" /\ d[q] > d[parent[q]]
  BY <1>1, <1>4 DEF ProcessInv, Tree, IsDepth
<1>6. parent[q] = 1
  <2> SUFFICES ASSUME parent[q] # 1 PROVE FALSE
    OBVIOUS
  <2>1. d[parent[q]] \in T
    BY <1>5 DEF Used
  <2>2. n <= d[parent[q]]
    BY <1>3, <2>1
  <2>3. d[q] \in Nat /\ d[parent[q]] \in Nat
    BY <1>5
  <2> QED BY <1>4, <1>5, <2>2, <2>3
<1>7. q \in children_list[1]
  BY <1>4, <1>6, Constants DEF ProcessInv, Tree
<1> QED BY <1>2, <1>5, <1>6, <1>7

(* The steps that change the process table: Exec, the release of a PCB by  *)
(* WaitChild, and the exit of the last thread of a process.                *)
Ends(p) ==
    /\ p \in Pids /\ pstate[p] = "ALIVE"
    /\ p = 1 => children_list[1] = {}
    /\ pstate' = [pstate EXCEPT ![p] = "ZOMBIE"]
    /\ Reparent(p)
    /\ exited_list' = ExitedAfter(p)
    /\ UNCHANGED <<pcb_freelist, process_count>>

LEMMA ExitKinds ==
    ASSUME ProcessInv, NEW t \in Threads, Exits(t)
    PROVE  /\ ~ Spins(t)
           /\ LastThread(t) => Ends(owner_pcb[t])
           /\ ~ LastThread(t) => UNCHANGED <<pstate, treeVars>>
<1>1. ~ Spins(t)
  BY DEF Exits, Spins
<1>2. owner_pcb[t] \in Pids /\ pstate[owner_pcb[t]] = "ALIVE"
  <2>1. Alive(t)
    BY DEF Exits, Alive, Dead
  <2> QED BY <2>1, OwnerAlive
<1> QED BY <1>1, <1>2 DEF Exits, sys_ThreadExit, Ends, treeVars

LEMMA TreeKinds ==
    ASSUME ProcessInv, Disciplined, Next
    PROVE  \/ \E t, u \in Threads : sys_Exec(t, u)
           \/ \E t \in Threads : \E c, next : Reaps(t, c, next)
           \/ \E t \in Threads : Exits(t) /\ LastThread(t) /\ Ends(owner_pcb[t])
           \/ UNCHANGED <<pstate, treeVars>>
<1>1. ASSUME NEW t \in Threads, NEW u \in Threads,
             CreatesThread(t, u) \/ JoinsThread(t, u) \/ DetachesThread(t, u)
      PROVE  UNCHANGED <<pstate, treeVars>>
  BY <1>1 DEF CreatesThread, sys_CreateThread, JoinsThread, CallThreadJoin, DetachesThread, sys_ThreadDetach
<1>2. ASSUME NEW t \in Threads, NEW place, Blocks(t, place) PROVE UNCHANGED <<pstate, treeVars>>
  BY <1>2 DEF Blocks
<1>3. ASSUME NEW t \in Threads, Exits(t)
      PROVE  (LastThread(t) /\ Ends(owner_pcb[t])) \/ UNCHANGED <<pstate, treeVars>>
  BY <1>3, ExitKinds
<1>4. ASSUME NEW t \in Threads,
             \/ InitEnds(t) \/ sys_ThreadJoin(t) \/ JoinWakes(t) \/ sys_Read_ends(t)
             \/ StreamCall(t)
      PROVE  UNCHANGED <<pstate, treeVars>>
  BY <1>4 DEF InitEnds, sys_Exit, sys_ThreadJoin, JoinWakes, sys_Read_ends, StreamCall
<1>5. ASSUME NEW t \in Threads, NEW fd \in Fids, sys_Read(t, fd) PROVE UNCHANGED <<pstate, treeVars>>
  BY <1>5 DEF sys_Read
<1>6. ASSUME serial_rx_handler \/ Finished PROVE UNCHANGED <<pstate, treeVars>>
  BY <1>6 DEF serial_rx_handler, Finished, vars
<1> QED BY <1>1, <1>2, <1>3, <1>4, <1>5, <1>6, Kinds

(* Exec: the caller is alive and its child was free.                       *)
LEMMA ExecFacts ==
    ASSUME ProcessInv, NEW t \in Threads, NEW u \in Threads, sys_Exec(t, u)
    PROVE  /\ owner_pcb[t] \in Pids /\ pstate[owner_pcb[t]] = "ALIVE"
           /\ pcb_freelist \in Pids \ {1} /\ pstate[pcb_freelist] = "FREE"
           /\ pc[t] = "user" /\ t \notin asleep /\ t # u
<1>1. pc[t] = "user" /\ t \notin asleep /\ pcb_freelist # NULL /\ Dead(u)
  BY DEF sys_Exec, Calls, Runs, NewThread, Unused
<1>2. Alive(t) /\ t # u
  BY <1>1 DEF Alive, Dead
<1> QED BY <1>1, <1>2, OwnerAlive, FirstIsFree

LEMMA TreeExec ==
    ASSUME ProcessInv, NEW t \in Threads, NEW u \in Threads, sys_Exec(t, u)
    PROVE  Tree'
<1>1. PICK p, child : p = owner_pcb[t] /\ child = pcb_freelist
  OBVIOUS
<1>2. /\ p \in Pids /\ pstate[p] = "ALIVE" /\ child \in Pids \ {1} /\ pstate[child] = "FREE"
  BY <1>1, ExecFacts
<1>3. /\ pstate' = [pstate EXCEPT ![child] = "ALIVE"]
      /\ parent' = [parent EXCEPT ![child] = p]
      /\ children_list' = [children_list EXCEPT ![p] = @ \cup {child}]
      /\ exited_list' = exited_list
  BY <1>1 DEF sys_Exec
<1>4. /\ pstate \in [Pids -> Words] /\ parent \in [Pids -> Pids \cup {NULL}]
      /\ children_list \in [Pids -> SUBSET Pids] /\ 1 \in Pids
  BY Constants DEF ProcessInv, Types
<1>5. Tree
  BY DEF ProcessInv
<1> QED BY <1>2, <1>3, <1>4, <1>5 DEF Tree, Used

LEMMA TreeReaps ==
    ASSUME ProcessInv, NEW t \in Threads, NEW c, NEW next, Reaps(t, c, next)
    PROVE  Tree'
<1>1. c \in Pids \ {1} /\ pstate[c] = "ZOMBIE"
  BY DEF Reaps
<1>2. /\ pstate' = [pstate EXCEPT ![c] = "FREE"]
      /\ parent' = [parent EXCEPT ![c] = pcb_freelist]
      /\ children_list' = [p \in Pids |-> children_list[p] \ {c}]
      /\ exited_list' = [p \in Pids |-> Without(exited_list[p], c)]
  BY DEF Reaps, cleanup_zombie, Unlink, release_PCB
<1>3. /\ pstate \in [Pids -> Words] /\ parent \in [Pids -> Pids \cup {NULL}]
      /\ children_list \in [Pids -> SUBSET Pids] /\ exited_list \in [Pids -> Seq(Pids)]
      /\ 1 \in Pids
  BY Constants DEF ProcessInv, Types
<1>4. Tree
  BY DEF ProcessInv
<1>5. ASSUME NEW q \in Pids
      PROVE  /\ IsInjective(exited_list'[q])
             /\ \A x : Contains(exited_list'[q], x) <=> Contains(exited_list[q], x) /\ x # c
  <2>1. exited_list'[q] = Without(exited_list[q], c)
    BY <1>2
  <2>2. exited_list[q] \in Seq(Pids) /\ IsInjective(exited_list[q])
    BY <1>3, <1>4 DEF Tree
  <2> QED BY <2>1, <2>2, WithoutMembers
<1> QED BY <1>1, <1>2, <1>3, <1>4, <1>5 DEF Tree, Used

(* The exit of a process.  The exited list of its parent gets it, and the  *)
(* list of init gets its exited children.                                  *)
LEMMA ExitedMembers ==
    ASSUME ProcessInv, NEW p, Ends(p), NEW q \in Pids
    PROVE  /\ IsInjective(ExitedAfter(p)[q])
           /\ \A x : Contains(ExitedAfter(p)[q], x)
                       <=> \/ q = parent[p] /\ x = p
                           \/ q # p /\ Contains(exited_list[q], x)
                           \/ q = 1 /\ Contains(exited_list[p], x)
<1>1. p \in Pids /\ pstate[p] = "ALIVE" /\ (p = 1 => children_list[1] = {})
  BY DEF Ends
<1>2. Tree /\ exited_list \in [Pids -> Seq(Pids)] /\ 1 \in Pids
  BY Constants DEF ProcessInv, Types
<1> DEFINE a == IF q = parent[p] THEN <<p>> ELSE << >>
           b == IF q = p THEN << >> ELSE exited_list[q]
           c == IF q = 1 THEN exited_list[p] ELSE << >>
<1>3. ExitedAfter(p)[q] = (a \o b) \o c
  BY DEF ExitedAfter
<1>e. << >> \in Seq(Pids) /\ IsInjective(<< >>) /\ \A x : ~ Contains(<< >>, x)
  BY DEF IsInjective, Contains
<1>4. a \in Seq(Pids) /\ IsInjective(a) /\ \A x : Contains(a, x) <=> q = parent[p] /\ x = p
  <2>1. <<p>> \in Seq(Pids) /\ Len(<<p>>) = 1 /\ <<p>>[1] = p /\ DOMAIN <<p>> = {1}
    BY <1>1
  <2>2. IsInjective(<<p>>) /\ \A x : Contains(<<p>>, x) <=> x = p
    BY <2>1 DEF IsInjective, Contains
  <2>3. CASE q = parent[p]
    BY <2>1, <2>2, <2>3
  <2>4. CASE q # parent[p]
    BY <1>e, <2>4
  <2> QED BY <2>3, <2>4
<1>5. b \in Seq(Pids) /\ IsInjective(b) /\ \A x : Contains(b, x) <=> q # p /\ Contains(exited_list[q], x)
  <2>1. CASE q = p
    BY <1>e, <2>1
  <2>2. CASE q # p
    BY <1>2, <2>2 DEF Tree
  <2> QED BY <2>1, <2>2
<1>6. c \in Seq(Pids) /\ IsInjective(c) /\ \A x : Contains(c, x) <=> q = 1 /\ Contains(exited_list[p], x)
  <2>1. CASE q # 1
    BY <1>e, <2>1
  <2>2. CASE q = 1
    BY <1>1, <1>2, <2>2 DEF Tree
  <2> QED BY <2>1, <2>2
<1>7. \A x : ~ (Contains(a, x) /\ Contains(b, x))
  BY <1>1, <1>2, <1>4, <1>5 DEF Tree
<1> HIDE DEF a, b, c
<1>8. /\ a \o b \in Seq(Pids) /\ IsInjective(a \o b)
      /\ \A x : Contains(a \o b, x) <=> Contains(a, x) \/ Contains(b, x)
  BY <1>4, <1>5, <1>7, ConcatMembers
<1>9. \A x : ~ (Contains(a \o b, x) /\ Contains(c, x))
  <2> SUFFICES ASSUME NEW x, Contains(a \o b, x), Contains(c, x) PROVE FALSE
    OBVIOUS
  <2>0. x \in Pids
    <3>1. PICK i \in 1 .. Len(c) : c[i] = x
      BY <1>6 DEF Contains
    <3> QED BY <1>6, <3>1
  <2>1. q = 1 /\ pstate[x] = "ZOMBIE" /\ parent[x] = p
    BY <1>1, <1>2, <1>6, <2>0 DEF Tree
  <2>2. x # p
    BY <1>1, <2>1
  <2>3. q # p /\ Contains(exited_list[q], x)
    BY <1>4, <1>5, <1>8, <2>2
  <2>4. parent[x] = q
    BY <1>2, <2>0, <2>3 DEF Tree
  <2> QED BY <2>1, <2>3, <2>4
<1>10. /\ IsInjective((a \o b) \o c)
       /\ \A x : Contains((a \o b) \o c, x) <=> Contains(a \o b, x) \/ Contains(c, x)
  BY <1>6, <1>8, <1>9, ConcatMembers
<1> QED BY <1>3, <1>4, <1>5, <1>6, <1>8, <1>10

(* The children of init: a process has one only if it is used.             *)
LEMMA TreeEnds ==
    ASSUME ProcessInv, NEW p, Ends(p)
    PROVE  Tree'
<1>1. /\ p \in Pids /\ pstate[p] = "ALIVE" /\ (p = 1 => children_list[1] = {})
      /\ pstate' = [pstate EXCEPT ![p] = "ZOMBIE"]
      /\ exited_list' = ExitedAfter(p)
      /\ Reparent(p)
  BY DEF Ends
<1>2. /\ pstate \in [Pids -> Words] /\ parent \in [Pids -> Pids \cup {NULL}]
      /\ children_list \in [Pids -> SUBSET Pids] /\ 1 \in Pids /\ NULL \notin Pids
  BY Constants DEF ProcessInv, Types
<1>t. /\ Used(1) /\ parent[1] = NULL
      /\ \A x \in Pids \ {1} : Used(x) => parent[x] \in Pids /\ pstate[parent[x]] = "ALIVE"
      /\ \A x, q \in Pids : x \in children_list[q] <=> Used(x) /\ parent[x] = q
      /\ \A x, q \in Pids :
           Contains(exited_list[q], x) <=> pstate[x] = "ZOMBIE" /\ parent[x] = q
  BY DEF ProcessInv, Tree
<1>l. \A x \in Pids \ {1} : Used(x) => parent[x] # x /\ pstate[1] = "ALIVE" /\ children_list[1] # {}
  BY InitLives
<1>3. /\ \A x \in Pids : parent'[x] = IF x \in children_list[p] THEN 1 ELSE parent[x]
      /\ \A q \in Pids : children_list'[q] = IF q = 1 THEN children_list[1] \cup children_list[p]
                                             ELSE IF q = p THEN {} ELSE children_list[q]
  BY <1>1 DEF Reparent
<1>4. \A x \in Pids : pstate'[x] = IF x = p THEN "ZOMBIE" ELSE pstate[x]
  BY <1>1, <1>2
<1>u. \A x \in Pids : Used(x)' <=> Used(x)
  BY <1>1, <1>4 DEF Used
<1>5. Used(1)' /\ parent'[1] = NULL
  BY <1>1, <1>2, <1>t, <1>u, <1>3
<1>6. ASSUME NEW x \in Pids \ {1}, Used(x)
      PROVE  parent'[x] \in Pids /\ pstate'[parent'[x]] = "ALIVE"
  <2>1. p # 1
    BY <1>1, <1>6, <1>l
  <2>2. CASE x \in children_list[p]
    BY <1>2, <1>3, <1>4, <1>6, <1>l, <2>1, <2>2
  <2>3. CASE x \notin children_list[p]
    BY <1>1, <1>3, <1>4, <1>6, <1>t, <2>3
  <2> QED BY <2>2, <2>3
<1>7. ASSUME NEW x \in Pids, NEW q \in Pids
      PROVE  x \in children_list'[q] <=> Used(x)' /\ parent'[x] = q
  <2>1. p = 1 \/ p # 1
    OBVIOUS
  <2>2. x \in children_list[q] <=> Used(x) /\ parent[x] = q
    BY <1>t
  <2>3. x \in children_list[p] <=> Used(x) /\ parent[x] = p
    BY <1>t, <1>1
  <2>4. x \in children_list[1] <=> Used(x) /\ parent[x] = 1
    BY <1>t, <1>2
  <2> QED BY <1>1, <1>3, <1>u, <2>2, <2>3, <2>4
<1>8. ASSUME NEW q \in Pids PROVE IsInjective(exited_list'[q])
  BY <1>1, ExitedMembers
<1>9. ASSUME NEW x \in Pids, NEW q \in Pids
      PROVE  Contains(exited_list'[q], x) <=> pstate'[x] = "ZOMBIE" /\ parent'[x] = q
  <2>1. Contains(exited_list'[q], x) <=> \/ q = parent[p] /\ x = p
                                         \/ q # p /\ Contains(exited_list[q], x)
                                         \/ q = 1 /\ Contains(exited_list[p], x)
    BY <1>1, ExitedMembers
  <2>2. /\ Contains(exited_list[q], x) <=> pstate[x] = "ZOMBIE" /\ parent[x] = q
        /\ Contains(exited_list[p], x) <=> pstate[x] = "ZOMBIE" /\ parent[x] = p
        /\ x \in children_list[p] <=> Used(x) /\ parent[x] = p
    BY <1>t, <1>1
  <2>3. p # 1 => parent[p] # p
    BY <1>1, <1>l DEF Used
  <2>4. p \notin children_list[p]
    BY <1>1, <1>2, <1>t, <2>3
  <2>5. CASE x = p
    BY <1>1, <1>3, <1>4, <2>1, <2>2, <2>4, <2>5
  <2>6. CASE x # p
    <3>1. p = 1 => ~ Contains(exited_list[p], x)
      BY <1>1, <2>2 DEF Used
    <3> QED BY <1>1, <1>3, <1>4, <2>1, <2>2, <2>6, <3>1 DEF Used
  <2> QED BY <2>5, <2>6
<1> QED BY <1>5, <1>u, <1>6, <1>7, <1>8, <1>9 DEF Tree

LEMMA TreeStep ==
    ASSUME ProcessInv, Disciplined, Next
    PROVE  Tree'
<1>1. ASSUME UNCHANGED <<pstate, treeVars>> PROVE Tree'
  BY <1>1 DEF ProcessInv, Tree, Used, treeVars
<1> QED BY <1>1, TreeKinds, TreeExec, TreeReaps, TreeEnds

LEMMA RootedStep ==
    ASSUME ProcessInv, Disciplined, Next
    PROVE  Rooted'
<1>1. PICK d \in [Pids -> Nat] : IsDepth(d)
  BY DEF ProcessInv, Rooted
<1>2. /\ pstate \in [Pids -> Words] /\ parent \in [Pids -> Pids \cup {NULL}]
      /\ 1 \in Pids /\ d[1] = 0 /\ NULL \notin Pids
      /\ \A p \in Pids \ {1} : d[p] > 0 /\ (Used(p) => d[p] > d[parent[p]])
  BY <1>1, Constants DEF ProcessInv, Types, IsDepth
<1>3. /\ Used(1) /\ parent[1] = NULL
      /\ \A x \in Pids \ {1} : Used(x) => parent[x] \in Pids /\ pstate[parent[x]] = "ALIVE"
      /\ \A x, q \in Pids : x \in children_list[q] <=> Used(x) /\ parent[x] = q
  BY DEF ProcessInv, Tree
<1>4. ASSUME NEW t \in Threads, NEW u \in Threads, sys_Exec(t, u) PROVE Rooted'
  <2>1. PICK p, child : p = owner_pcb[t] /\ child = pcb_freelist
    OBVIOUS
  <2>2. /\ p \in Pids /\ pstate[p] = "ALIVE" /\ child \in Pids \ {1} /\ pstate[child] = "FREE"
    BY <1>4, <2>1, ExecFacts
  <2>3. /\ pstate' = [pstate EXCEPT ![child] = "ALIVE"]
        /\ parent' = [parent EXCEPT ![child] = p]
    BY <1>4, <2>1 DEF sys_Exec
  <2> DEFINE e == [d EXCEPT ![child] = d[p] + 1]
  <2>4. e \in [Pids -> Nat] /\ e[1] = 0
    BY <1>2, <2>2
  <2>5. ASSUME NEW q \in Pids \ {1} PROVE e[q] > 0 /\ (Used(q)' => e[q] > e[parent'[q]])
    <3>1. CASE q = child
      <4>1. parent'[q] = p /\ e[q] = d[p] + 1 /\ e[p] = d[p] /\ d[p] \in Nat
        BY <1>2, <2>2, <2>3, <3>1
      <4> QED BY <4>1
    <3>2. CASE q # child
      <4>1. parent'[q] = parent[q] /\ e[q] = d[q] /\ (Used(q)' => Used(q))
        BY <1>2, <2>2, <2>3, <3>2 DEF Used
      <4>2. Used(q) => e[parent[q]] = d[parent[q]]
        BY <1>2, <1>3, <2>2
      <4> QED BY <1>2, <4>1, <4>2
    <3> QED BY <3>1, <3>2
  <2> HIDE DEF e
  <2>6. IsDepth(e)'
    BY <2>4, <2>5 DEF IsDepth, Used
  <2> QED BY <2>4, <2>6 DEF Rooted
<1>5. ASSUME NEW t \in Threads, NEW c, NEW next, Reaps(t, c, next) PROVE Rooted'
  <2>1. c \in Pids \ {1} /\ pstate' = [pstate EXCEPT ![c] = "FREE"]
        /\ parent' = [parent EXCEPT ![c] = pcb_freelist]
    BY <1>5 DEF Reaps, cleanup_zombie, release_PCB
  <2>2. ASSUME NEW q \in Pids \ {1} PROVE d[q] > 0 /\ (Used(q)' => d[q] > d[parent'[q]])
    BY <1>2, <2>1 DEF Used
  <2>3. IsDepth(d)'
    BY <1>2, <2>2 DEF IsDepth, Used
  <2> QED BY <2>3 DEF Rooted
<1>6. ASSUME NEW p, Ends(p) PROVE Rooted'
  <2>1. /\ \A x \in Pids : parent'[x] = IF x \in children_list[p] THEN 1 ELSE parent[x]
        /\ \A x \in Pids : pstate'[x] # "FREE" <=> Used(x)
    BY <1>6, <1>2 DEF Ends, Reparent, Used
  <2>2. ASSUME NEW q \in Pids \ {1} PROVE d[q] > 0 /\ (Used(q)' => d[q] > d[parent'[q]])
    BY <1>2, <2>1 DEF Used
  <2>3. IsDepth(d)'
    BY <1>2, <2>2 DEF IsDepth, Used
  <2> QED BY <2>3 DEF Rooted
<1>7. ASSUME UNCHANGED <<pstate, treeVars>> PROVE Rooted'
  <2>1. IsDepth(d)'
    BY <1>1, <1>7 DEF IsDepth, Used, treeVars
  <2> QED BY <2>1 DEF Rooted
<1> QED BY <1>4, <1>5, <1>6, <1>7, TreeKinds

-----------------------------------------------------------------------------
(* The free list.                                                          *)
LEMMA FreeListExec ==
    ASSUME ProcessInv, NEW t \in Threads, NEW u \in Threads, sys_Exec(t, u)
    PROVE  FreeList'
<1>1. PICK p, child : p = owner_pcb[t] /\ child = pcb_freelist
  OBVIOUS
<1>2. p \in Pids /\ child \in Pids \ {1} /\ pstate[child] = "FREE"
  BY <1>1, ExecFacts
<1>3. /\ pstate' = [pstate EXCEPT ![child] = "ALIVE"]
      /\ parent' = [parent EXCEPT ![child] = p]
      /\ pcb_freelist' = parent[child]
      /\ process_count' = process_count + 1
  BY <1>1 DEF sys_Exec
<1>4. pstate \in [Pids -> Words] /\ parent \in [Pids -> Pids \cup {NULL}] /\ NULL \notin Pids
  BY Constants DEF ProcessInv, Types
<1>5. PICK s \in Seq(Pids) : IsFreeList(s)
  BY DEF ProcessInv, FreeList
<1>6. /\ IsInjective(s) /\ (\A q \in Pids : Contains(s, q) <=> ~ Used(q))
      /\ child = Link(s, 1) /\ \A i \in 1 .. Len(s) : parent[s[i]] = Link(s, i + 1)
  BY <1>1, <1>5 DEF IsFreeList
<1>7. 1 \in 1 .. Len(s) /\ child = s[1] /\ s # << >> /\ Head(s) = child /\ Len(s) \in Nat
  BY <1>2, <1>4, <1>6 DEF Link
<1> DEFINE r == Tail(s)
<1>8. /\ r \in Seq(Pids) /\ IsInjective(r)
      /\ \A q : Contains(r, q) <=> Contains(s, q) /\ q # child
  BY <1>6, <1>7, TailMembers
<1>9. /\ Len(r) = Len(s) - 1 /\ \A i \in 1 .. Len(r) : r[i] = s[i + 1]
  BY <1>7
<1>10. \A i \in Nat \ {0} : Link(r, i) = Link(s, i + 1)
  <2> SUFFICES ASSUME NEW i \in Nat \ {0} PROVE Link(r, i) = Link(s, i + 1)
    OBVIOUS
  <2>1. i \in 1 .. Len(r) <=> i + 1 \in 1 .. Len(s)
    BY <1>7, <1>9
  <2> QED BY <1>9, <2>1 DEF Link
<1>11. pcb_freelist' = Link(r, 1)
  <2>1. parent[child] = Link(s, 1 + 1)
    BY <1>6, <1>7
  <2>2. 1 \in Nat \ {0}
    OBVIOUS
  <2> QED BY <1>3, <1>10, <2>1, <2>2
<1>12. ASSUME NEW i \in 1 .. Len(r) PROVE parent'[r[i]] = Link(r, i + 1)
  <2>1. r[i] \in Pids /\ Contains(r, r[i])
    BY <1>8, <1>12 DEF Contains
  <2>2. r[i] # child
    BY <1>8, <2>1
  <2>3. i + 1 \in 1 .. Len(s) /\ i + 1 \in Nat \ {0} /\ r[i] = s[i + 1]
    BY <1>7, <1>9
  <2>4. parent[r[i]] = Link(s, (i + 1) + 1)
    BY <1>6, <2>3
  <2> QED BY <1>3, <1>4, <1>10, <2>1, <2>2, <2>3, <2>4
<1>13. \A q \in Pids : Contains(r, q) <=> pstate'[q] = "FREE"
  BY <1>2, <1>3, <1>4, <1>6, <1>8 DEF Used
<1> HIDE DEF r
<1>14. IsFreeList(r)'
  BY <1>8, <1>11, <1>12, <1>13 DEF IsFreeList, Used, Link
<1>15. process_count' = MAX_PROC - Cardinality({q \in Pids : ~ Used(q)'})
  <2> DEFINE F == {q \in Pids : ~ Used(q)}
  <2>1. {q \in Pids : ~ Used(q)'} = F \ {child} /\ child \in F
    BY <1>2, <1>3, <1>4 DEF Used
  <2>2. IsFiniteSet(F) /\ Cardinality(F) \in Nat
    BY Constants, FS_Subset, FS_CardinalityType
  <2>3. Cardinality(F \ {child}) = Cardinality(F) - 1
    BY <2>1, <2>2, FS_RemoveElement
  <2>4. process_count = MAX_PROC - Cardinality(F) /\ MAX_PROC \in Nat
    BY StreamsAssumption DEF ProcessInv, FreeList
  <2>5. PICK m : m = Cardinality(F)
    OBVIOUS
  <2>6. Cardinality({q \in Pids : ~ Used(q)'}) = m - 1
    BY <2>1, <2>3, <2>5
  <2>7. m \in Nat /\ MAX_PROC \in Nat /\ process_count' = (MAX_PROC - m) + 1
    BY <1>3, <2>2, <2>4, <2>5
  <2>8. process_count' = MAX_PROC - (m - 1)
    BY <2>7
  <2> QED BY <2>6, <2>8
<1> QED BY <1>8, <1>14, <1>15 DEF FreeList

LEMMA FreeListReaps ==
    ASSUME ProcessInv, NEW t \in Threads, NEW c, NEW next, Reaps(t, c, next)
    PROVE  FreeList'
<1>1. c \in Pids /\ pstate[c] = "ZOMBIE"
  BY DEF Reaps
<1>2. /\ pstate' = [pstate EXCEPT ![c] = "FREE"]
      /\ parent' = [parent EXCEPT ![c] = pcb_freelist]
      /\ pcb_freelist' = c
      /\ process_count' = process_count - 1
  BY DEF Reaps, cleanup_zombie, release_PCB
<1>3. pstate \in [Pids -> Words] /\ parent \in [Pids -> Pids \cup {NULL}]
  BY DEF ProcessInv, Types
<1>4. PICK s \in Seq(Pids) : IsFreeList(s)
  BY DEF ProcessInv, FreeList
<1>5. /\ IsInjective(s) /\ (\A q \in Pids : Contains(s, q) <=> ~ Used(q))
      /\ pcb_freelist = Link(s, 1) /\ \A i \in 1 .. Len(s) : parent[s[i]] = Link(s, i + 1)
  BY <1>4 DEF IsFreeList
<1>6. ~ Contains(s, c)
  BY <1>1, <1>5 DEF Used
<1> DEFINE o == <<c>>
           r == o \o s
<1>7. o \in Seq(Pids) /\ Len(o) = 1 /\ o[1] = c /\ IsInjective(o) /\ \A q : Contains(o, q) <=> q = c
  <2>1. o \in Seq(Pids) /\ Len(o) = 1 /\ o[1] = c /\ DOMAIN o = {1}
    BY <1>1
  <2> QED BY <2>1 DEF IsInjective, Contains
<1>8. /\ r \in Seq(Pids) /\ IsInjective(r) /\ \A q : Contains(r, q) <=> q = c \/ Contains(s, q)
  <2>1. \A q : ~ (Contains(o, q) /\ Contains(s, q))
    BY <1>6, <1>7
  <2> HIDE DEF o
  <2> QED BY <1>5, <1>7, <2>1, ConcatMembers
<1>9. /\ Len(s) \in Nat /\ Len(r) = Len(s) + 1
      /\ \A i \in 1 .. Len(s) + 1 : r[i] = IF i <= 1 THEN o[i] ELSE s[i - 1]
  <2>1. Len(s) \in Nat
    OBVIOUS
  <2> HIDE DEF o
  <2>2. /\ Len(o \o s) = Len(o) + Len(s)
        /\ \A i \in 1 .. Len(o) + Len(s) : (o \o s)[i] = IF i <= Len(o) THEN o[i] ELSE s[i - Len(o)]
    BY <1>7, ConcatProperties
  <2>3. Len(o) + Len(s) = Len(s) + 1
    BY <1>7, <2>1
  <2> QED BY <1>7, <2>1, <2>2, <2>3
<1> HIDE DEF o, r
<1>10. r[1] = c /\ \A i \in 1 .. Len(s) : r[i + 1] = s[i]
  <2>1. r[1] = c
    <3>1. 1 \in 1 .. Len(s) + 1
      BY <1>9
    <3> QED BY <1>7, <1>9, <3>1
  <2>2. ASSUME NEW i \in 1 .. Len(s) PROVE r[i + 1] = s[i]
    <3>1. i + 1 \in 1 .. Len(s) + 1 /\ ~ (i + 1 <= 1) /\ (i + 1) - 1 = i
      BY <1>9
    <3> QED BY <1>9, <3>1
  <2> QED BY <2>1, <2>2
<1>11. Link(r, 1) = c /\ \A i \in Nat \ {0} : Link(r, i + 1) = Link(s, i)
  <2>1. 1 \in 1 .. Len(r)
    BY <1>9
  <2>2. ASSUME NEW i \in Nat \ {0} PROVE Link(r, i + 1) = Link(s, i)
    <3>1. i \in 1 .. Len(s) <=> i + 1 \in 1 .. Len(r)
      BY <1>9
    <3> QED BY <1>10, <3>1 DEF Link
  <2> QED BY <1>10, <2>1, <2>2 DEF Link
<1>12. ASSUME NEW i \in 1 .. Len(r) PROVE parent'[r[i]] = Link(r, i + 1)
  <2>1. CASE i = 1
    <3>1. parent'[c] = Link(s, 1) /\ 1 \in Nat \ {0}
      BY <1>1, <1>2, <1>3, <1>5
    <3> QED BY <1>10, <1>11, <2>1, <3>1
  <2>2. CASE i # 1
    <3>1. PICK j \in 1 .. Len(s) : i = j + 1
      <4>1. i - 1 \in 1 .. Len(s) /\ i = (i - 1) + 1
        BY <1>9, <2>2
      <4> QED BY <4>1
    <3>2. r[i] = s[j] /\ s[j] \in Pids /\ Contains(s, s[j])
      BY <1>10, <3>1 DEF Contains
    <3>3. s[j] # c
      BY <1>6, <3>2
    <3>4. parent'[s[j]] = Link(s, j + 1)
      BY <1>2, <1>3, <1>5, <3>2, <3>3
    <3>5. j + 1 \in Nat \ {0}
      OBVIOUS
    <3> QED BY <1>11, <3>1, <3>2, <3>4, <3>5
  <2> QED BY <2>1, <2>2
<1>13. \A q \in Pids : Contains(r, q) <=> pstate'[q] = "FREE"
  BY <1>1, <1>2, <1>3, <1>5, <1>8 DEF Used
<1>14. IsFreeList(r)'
  BY <1>2, <1>8, <1>11, <1>12, <1>13 DEF IsFreeList, Used, Link
<1>15. process_count' = MAX_PROC - Cardinality({q \in Pids : ~ Used(q)'})
  <2> DEFINE F == {q \in Pids : ~ Used(q)}
  <2>1. {q \in Pids : ~ Used(q)'} = F \cup {c} /\ c \notin F
    BY <1>1, <1>2, <1>3 DEF Used
  <2>2. IsFiniteSet(F) /\ Cardinality(F) \in Nat
    BY Constants, FS_Subset, FS_CardinalityType
  <2>3. Cardinality(F \cup {c}) = Cardinality(F) + 1
    BY <2>1, <2>2, FS_AddElement
  <2>4. process_count = MAX_PROC - Cardinality(F) /\ MAX_PROC \in Nat
    BY StreamsAssumption DEF ProcessInv, FreeList
  <2>5. PICK m : m = Cardinality(F)
    OBVIOUS
  <2>6. Cardinality({q \in Pids : ~ Used(q)'}) = m + 1
    BY <2>1, <2>3, <2>5
  <2>7. m \in Nat /\ MAX_PROC \in Nat /\ process_count' = (MAX_PROC - m) - 1
    BY <1>2, <2>2, <2>4, <2>5
  <2>8. process_count' = MAX_PROC - (m + 1)
    BY <2>7
  <2> QED BY <2>6, <2>8
<1> QED BY <1>8, <1>14, <1>15 DEF FreeList

LEMMA FreeListEnds ==
    ASSUME ProcessInv, NEW p, Ends(p)
    PROVE  FreeList'
<1>1. PICK s \in Seq(Pids) : IsFreeList(s)
  BY DEF ProcessInv, FreeList
<1>2. /\ IsInjective(s) /\ (\A q \in Pids : Contains(s, q) <=> ~ Used(q))
      /\ pcb_freelist = Link(s, 1) /\ \A i \in 1 .. Len(s) : parent[s[i]] = Link(s, i + 1)
  BY <1>1 DEF IsFreeList
<1>3. pstate \in [Pids -> Words]
  BY DEF ProcessInv, Types
<1>4. /\ \A q \in Pids : Used(q)' <=> Used(q)
      /\ \A q \in Pids : ~ Used(q) => parent'[q] = parent[q]
      /\ pcb_freelist' = pcb_freelist /\ process_count' = process_count
  <2>1. \A q \in Pids : Used(q)' <=> Used(q)
    BY <1>3 DEF Ends, Used
  <2>2. \A q \in Pids : q \in children_list[p] => Used(q)
    BY DEF ProcessInv, Tree, Ends
  <2> QED BY <2>1, <2>2 DEF Ends, Reparent
<1>5. ASSUME NEW i \in 1 .. Len(s) PROVE parent'[s[i]] = Link(s, i + 1)
  <2>1. s[i] \in Pids /\ Contains(s, s[i])
    BY DEF Contains
  <2> QED BY <1>2, <1>4, <2>1
<1>6. IsFreeList(s)'
  BY <1>2, <1>4, <1>5 DEF IsFreeList, Link
<1>7. {q \in Pids : ~ Used(q)'} = {q \in Pids : ~ Used(q)}
  BY <1>4
<1>8. process_count' = MAX_PROC - Cardinality({q \in Pids : ~ Used(q)'})
  BY <1>4, <1>7 DEF ProcessInv, FreeList
<1> QED BY <1>6, <1>8 DEF FreeList

LEMMA FreeListStep ==
    ASSUME ProcessInv, Disciplined, Next
    PROVE  FreeList'
<1>1. ASSUME UNCHANGED <<pstate, treeVars>> PROVE FreeList'
  BY <1>1 DEF ProcessInv, FreeList, IsFreeList, Link, Used, treeVars
<1> QED BY <1>1, TreeKinds, FreeListExec, FreeListReaps, FreeListEnds

-----------------------------------------------------------------------------
(* The threads.  Only Exec, CreateThread and the exit of a thread change   *)
(* which threads live and which PTCBs there are.                           *)
SameThreads ==
    /\ UNCHANGED <<owner_pcb, thread_count, thread_list, allocated>>
    /\ \A t \in Threads : Alive(t)' <=> Alive(t)
    /\ \A p \in Pids : pstate'[p] = "ALIVE" <=> pstate[p] = "ALIVE"
    /\ \A t \in Threads : pc'[t] \in {"exitloop", "exitwait"} => owner_pcb[t] = 1
    /\ \A t \in Threads : pc'[t] # "spin"

(* A thread that moves from one place in the kernel to another.            *)
LEMMA MovesThread ==
    ASSUME ProcessInv, NEW t \in Threads, NEW place, Go(t, place), Alive(t),
           place \in {"user", "join", "joining", "waitpid", "waitany", "exitloop", "exitwait", "read"},
           place \in {"exitloop", "exitwait"} => owner_pcb[t] = 1,
           UNCHANGED <<owner_pcb, thread_count, thread_list, allocated>>,
           \A p \in Pids : pstate'[p] = "ALIVE" <=> pstate[p] = "ALIVE"
    PROVE  SameThreads
<1>1. pc \in [Threads -> Places] /\ InitAlone
  BY DEF ProcessInv, Types
<1>2. \A u \in Threads : pc'[u] = IF u = t THEN place ELSE pc[u]
  BY <1>1 DEF Go
<1> QED BY <1>1, <1>2 DEF SameThreads, Alive, Dead, InitAlone

LEMMA ThreadKinds ==
    ASSUME ProcessInv, Disciplined, Next
    PROVE  \/ \E t, u \in Threads : sys_Exec(t, u)
           \/ \E t, u \in Threads : CreatesThread(t, u)
           \/ \E t \in Threads : Exits(t)
           \/ SameThreads
<1>t. pstate \in [Pids -> Words] /\ InitAlone
  BY DEF ProcessInv, Types
<1>1. ASSUME NEW t \in Threads, NEW u \in Threads, JoinsThread(t, u) PROVE SameThreads
  <2>1. Alive(t) /\ Go(t, "join") /\ UNCHANGED <<owner_pcb, thread_count, thread_list, allocated, pstate>>
    BY <1>1 DEF JoinsThread, CallThreadJoin, Calls, Runs, Alive, Dead, ptcbVars
  <2> QED BY <2>1, MovesThread
<1>2. ASSUME UNCHANGED <<owner_pcb, thread_count, thread_list, allocated, pstate, pc>> PROVE SameThreads
  BY <1>2, <1>t DEF SameThreads, Alive, Dead, InitAlone
<1>3. ASSUME NEW t \in Threads, NEW u \in Threads, DetachesThread(t, u) PROVE SameThreads
  BY <1>2, <1>3 DEF DetachesThread, sys_ThreadDetach
<1>4. ASSUME NEW t \in Threads, NEW place, Blocks(t, place) PROVE SameThreads
  <2>1. /\ Alive(t) /\ Go(t, place) /\ place \in {"waitpid", "waitany", "exitwait"}
        /\ place = "exitwait" => owner_pcb[t] = 1
        /\ UNCHANGED <<owner_pcb, thread_count, thread_list, allocated, pstate>>
    BY <1>4 DEF Blocks, Alive, Dead, ptcbVars
  <2> QED BY <2>1, MovesThread
<1>5. ASSUME NEW t \in Threads, NEW c, NEW next, Reaps(t, c, next) PROVE SameThreads
  <2>1. /\ Alive(t) /\ Go(t, next) /\ next \in {"user", "exitloop"}
        /\ next = "exitloop" => owner_pcb[t] = 1
        /\ UNCHANGED <<owner_pcb, thread_count, thread_list, allocated>>
    BY <1>5 DEF Reaps, Alive, Dead, ptcbVars
  <2>2. \A p \in Pids : pstate'[p] = "ALIVE" <=> pstate[p] = "ALIVE"
    BY <1>5, <1>t DEF Reaps, cleanup_zombie, release_PCB
  <2> QED BY <2>1, <2>2, MovesThread
<1>6. ASSUME NEW t \in Threads, InitEnds(t) PROVE SameThreads
  <2>1. /\ Alive(t) /\ Go(t, "exitloop") /\ owner_pcb[t] = 1
        /\ UNCHANGED <<owner_pcb, thread_count, thread_list, allocated, pstate>>
    BY <1>6 DEF InitEnds, sys_Exit, MustWait, Calls, Runs, Alive, Dead, ptcbVars
  <2> QED BY <2>1, MovesThread
<1>7. ASSUME NEW t \in Threads, sys_ThreadJoin(t) PROVE SameThreads
  <2>1. /\ Alive(t) /\ (Go(t, "user") \/ Go(t, "joining"))
        /\ UNCHANGED <<owner_pcb, thread_count, thread_list, allocated, pstate>>
    BY <1>7 DEF sys_ThreadJoin, Runs, Alive, Dead
  <2> QED BY <2>1, MovesThread
<1>8. ASSUME NEW t \in Threads, JoinWakes(t) PROVE SameThreads
  <2>1. /\ Alive(t) /\ (Go(t, "user") \/ pc' = pc)
        /\ UNCHANGED <<owner_pcb, thread_count, thread_list, allocated, pstate>>
    BY <1>8 DEF JoinWakes, Alive, Dead
  <2> QED BY <1>2, <2>1, MovesThread
<1>9. ASSUME NEW t \in Threads, sys_Read_ends(t) PROVE SameThreads
  <2>1. /\ Alive(t) /\ Go(t, "user")
        /\ UNCHANGED <<owner_pcb, thread_count, thread_list, allocated, pstate>>
    BY <1>9 DEF sys_Read_ends, Runs, Alive, Dead, ptcbVars
  <2> QED BY <2>1, MovesThread
<1>10. ASSUME NEW t \in Threads, NEW fd \in Fids, sys_Read(t, fd) PROVE SameThreads
  <2>1. /\ Alive(t) /\ Go(t, "read")
        /\ UNCHANGED <<owner_pcb, thread_count, thread_list, allocated, pstate>>
    BY <1>10 DEF sys_Read, Calls, Runs, Alive, Dead, ptcbVars
  <2> QED BY <2>1, MovesThread
<1>11. ASSUME NEW t \in Threads, StreamCall(t) PROVE SameThreads
  BY <1>2, <1>11 DEF StreamCall, tcbVars, ptcbVars
<1>12. ASSUME serial_rx_handler \/ Finished PROVE SameThreads
  BY <1>2, <1>12 DEF serial_rx_handler, Finished, vars, tcbVars, ptcbVars
<1> QED BY <1>1, <1>3, <1>4, <1>5, <1>6, <1>7, <1>8, <1>9, <1>10, <1>11, <1>12, Kinds

LEMMA FiniteThreads ==
    ASSUME NEW S, S \subseteq Threads
    PROVE  /\ IsFiniteSet(S) /\ Cardinality(S) \in Nat
           /\ Cardinality(S) <= Cardinality(Threads) /\ Cardinality(Threads) \in Nat
BY ProcessesAssumption, FS_Subset, FS_CardinalityType

(* A new thread u of process p.                                            *)
LEMMA LiveNew ==
    ASSUME ProcessInv, NEW u \in Threads, NEW p \in Pids, NewThread(u, p)
    PROVE  /\ \A q \in Pids : LiveThreads(q)' = IF q = p THEN LiveThreads(p) \cup {u}
                                                ELSE LiveThreads(q)
           /\ \A q \in Pids : u \notin LiveThreads(q)
           /\ PTCBs'
           /\ \A x \in Threads \ {u} : pc'[x] = pc[x] /\ owner_pcb'[x] = owner_pcb[x]
           /\ pc'[u] = "user" /\ owner_pcb'[u] = p
           /\ ~ Alive(u) /\ u \notin allocated
<1>1. /\ pc \in [Threads -> Places] /\ owner_pcb \in [Threads -> Pids] /\ allocated \subseteq Threads
      /\ thread_list \in [Pids -> SUBSET Threads] /\ PTCBs
  BY DEF ProcessInv, Types
<1>2. /\ ~ Alive(u) /\ u \notin allocated
      /\ allocated' = allocated \cup {u}
      /\ thread_list' = [thread_list EXCEPT ![p] = @ \cup {u}]
      /\ owner_pcb' = [owner_pcb EXCEPT ![u] = p]
      /\ pc' = [pc EXCEPT ![u] = "user"]
  BY DEF NewThread, Unused, Go, Alive
<1>3. /\ \A x \in Threads \ {u} : pc'[x] = pc[x] /\ owner_pcb'[x] = owner_pcb[x]
      /\ pc'[u] = "user" /\ owner_pcb'[u] = p
  BY <1>1, <1>2
<1>4. \A x \in Threads : Alive(x)' <=> Alive(x) \/ x = u
  BY <1>2, <1>3 DEF Alive, Dead
<1>5. \A q \in Pids : LiveThreads(q)' = IF q = p THEN LiveThreads(p) \cup {u} ELSE LiveThreads(q)
  BY <1>2, <1>3, <1>4 DEF LiveThreads
<1>6. \A q \in Pids : u \notin LiveThreads(q)
  BY <1>2 DEF LiveThreads
<1>7. PTCBs'
  <2>1. \A q \in Pids : thread_list'[q] = {x \in allocated' : owner_pcb'[x] = q}
    BY <1>1, <1>2, <1>3 DEF PTCBs
  <2>2. \A x \in Threads : Alive(x)' => x \in allocated'
    BY <1>1, <1>2, <1>4 DEF PTCBs
  <2> QED BY <2>1, <2>2 DEF PTCBs
<1> QED BY <1>2, <1>3, <1>5, <1>6, <1>7

(* A thread that ends.                                                     *)
LEMMA LiveExits ==
    ASSUME ProcessInv, NEW t \in Threads, Exits(t)
    PROVE  /\ \A q \in Pids : LiveThreads(q)' = LiveThreads(q) \ {t}
           /\ t \in LiveThreads(owner_pcb[t])
           /\ PTCBs'
           /\ \A x \in Threads \ {t} : pc'[x] = pc[x]
           /\ pc'[t] = "gone" /\ Alive(t)
<1>1. /\ pc \in [Threads -> Places] /\ owner_pcb \in [Threads -> Pids] /\ allocated \subseteq Threads
      /\ thread_list \in [Pids -> SUBSET Threads] /\ PTCBs
  BY DEF ProcessInv, Types
<1>2. ~ Spins(t)
  BY ExitKinds
<1>3. /\ Alive(t) /\ pc' = [pc EXCEPT ![t] = "gone"] /\ owner_pcb' = owner_pcb
      /\ allocated' = IF FreesPTCB(t) THEN allocated \ {t} ELSE allocated
      /\ thread_list' = IF FreesPTCB(t) THEN [thread_list EXCEPT ![owner_pcb[t]] = @ \ {t}] ELSE thread_list
  BY <1>2 DEF Exits, sys_ThreadExit, Go, Alive, Dead
<1>4. pc'[t] = "gone" /\ \A x \in Threads \ {t} : pc'[x] = pc[x]
  BY <1>1, <1>3
<1>5. \A x \in Threads : Alive(x)' <=> Alive(x) /\ x # t
  BY <1>4 DEF Alive, Dead
<1>6. \A q \in Pids : LiveThreads(q)' = LiveThreads(q) \ {t}
  BY <1>3, <1>5 DEF LiveThreads
<1>7. t \in LiveThreads(owner_pcb[t])
  BY <1>3 DEF LiveThreads
<1>8. PTCBs'
  <2>1. \A q \in Pids : thread_list'[q] = {x \in allocated' : owner_pcb'[x] = q}
    <3>1. CASE FreesPTCB(t)
      BY <1>1, <1>3, <3>1 DEF PTCBs
    <3>2. CASE ~ FreesPTCB(t)
      BY <1>1, <1>3, <3>2 DEF PTCBs
    <3> QED BY <3>1, <3>2
  <2>2. \A x \in Threads : Alive(x)' => x \in allocated'
    BY <1>1, <1>3, <1>5 DEF PTCBs
  <2> QED BY <2>1, <2>2 DEF PTCBs
<1> QED BY <1>3, <1>4, <1>6, <1>7, <1>8

LEMMA PTCBsStep ==
    ASSUME ProcessInv, Disciplined, Next
    PROVE  PTCBs'
<1>1. ASSUME NEW t \in Threads, NEW u \in Threads, sys_Exec(t, u) PROVE PTCBs'
  <2>1. pcb_freelist \in Pids /\ NewThread(u, pcb_freelist)
    BY <1>1, ExecFacts DEF sys_Exec
  <2> QED BY <2>1, LiveNew
<1>2. ASSUME NEW t \in Threads, NEW u \in Threads, CreatesThread(t, u) PROVE PTCBs'
  <2>1. owner_pcb[t] \in Pids /\ NewThread(u, owner_pcb[t])
    BY <1>2 DEF CreatesThread, sys_CreateThread, ProcessInv, Types
  <2> QED BY <2>1, LiveNew
<1>3. ASSUME SameThreads PROVE PTCBs'
  BY <1>3 DEF SameThreads, PTCBs, ProcessInv
<1> QED BY <1>1, <1>2, <1>3, LiveExits, ThreadKinds

LEMMA AliveStep ==
    ASSUME ProcessInv, Disciplined, Next
    PROVE  ThreadsKeepProcessAlive'
<1>t. /\ pstate \in [Pids -> Words] /\ thread_count \in [Pids -> Int] /\ owner_pcb \in [Threads -> Pids]
  BY DEF ProcessInv, Types
<1>a. \A q \in Pids : /\ thread_count[q] = Cardinality(LiveThreads(q))
                      /\ pstate[q] = "ALIVE" <=> LiveThreads(q) # {}
  BY DEF ProcessInv, ThreadsKeepProcessAlive
<1>f. \A q \in Pids : IsFiniteSet(LiveThreads(q)) /\ Cardinality(LiveThreads(q)) \in Nat
  <2> SUFFICES ASSUME NEW q \in Pids
               PROVE  IsFiniteSet(LiveThreads(q)) /\ Cardinality(LiveThreads(q)) \in Nat
    OBVIOUS
  <2>1. LiveThreads(q) \subseteq Threads
    BY DEF LiveThreads
  <2> QED BY <2>1, FiniteThreads
<1>1. ASSUME NEW t \in Threads, NEW u \in Threads, sys_Exec(t, u) PROVE ThreadsKeepProcessAlive'
  <2>1. PICK child : child = pcb_freelist
    OBVIOUS
  <2>2. /\ child \in Pids /\ pstate[child] = "FREE" /\ NewThread(u, child)
        /\ pstate' = [pstate EXCEPT ![child] = "ALIVE"]
        /\ thread_count' = [thread_count EXCEPT ![child] = 1]
    BY <1>1, <2>1, ExecFacts DEF sys_Exec
  <2>3. \A q \in Pids : LiveThreads(q)' = IF q = child THEN LiveThreads(child) \cup {u} ELSE LiveThreads(q)
    BY <2>2, LiveNew
  <2>4. LiveThreads(child)' = {u}
    BY <1>a, <2>2, <2>3
  <2>5. Cardinality({u}) = 1
    <3>1. IsFiniteSet({}) /\ Cardinality({}) = 0 /\ {u} = {} \cup {u}
      BY FS_EmptySet
    <3>2. Cardinality({} \cup {u}) = 0 + 1
      BY <3>1, FS_AddElement
    <3> QED BY <3>1, <3>2
  <2>6. ASSUME NEW q \in Pids
        PROVE  /\ thread_count'[q] = Cardinality(LiveThreads(q)')
               /\ pstate'[q] = "ALIVE" <=> LiveThreads(q)' # {}
    <3>1. CASE q = child
      BY <1>t, <2>2, <2>4, <2>5, <3>1
    <3>2. CASE q # child
      BY <1>t, <1>a, <2>2, <2>3, <3>2
    <3> QED BY <3>1, <3>2
  <2> QED BY <2>6 DEF ThreadsKeepProcessAlive
<1>2. ASSUME NEW t \in Threads, NEW u \in Threads, CreatesThread(t, u) PROVE ThreadsKeepProcessAlive'
  <2>1. PICK p : p = owner_pcb[t]
    OBVIOUS
  <2>2. /\ p \in Pids /\ pstate[p] = "ALIVE"
    <3>1. Alive(t)
      BY <1>2 DEF CreatesThread, sys_CreateThread, Calls, Runs, Alive, Dead
    <3> QED BY <2>1, <3>1, OwnerAlive
  <2>3. /\ NewThread(u, p) /\ pstate' = pstate
        /\ thread_count' = [thread_count EXCEPT ![p] = @ + 1]
    BY <1>2, <2>1 DEF CreatesThread, sys_CreateThread
  <2>4. /\ \A q \in Pids : LiveThreads(q)' = IF q = p THEN LiveThreads(p) \cup {u} ELSE LiveThreads(q)
        /\ u \notin LiveThreads(p)
    BY <2>2, <2>3, LiveNew
  <2>5. Cardinality(LiveThreads(p) \cup {u}) = Cardinality(LiveThreads(p)) + 1
    BY <1>f, <2>2, <2>4, FS_AddElement
  <2>6. ASSUME NEW q \in Pids
        PROVE  /\ thread_count'[q] = Cardinality(LiveThreads(q)')
               /\ pstate'[q] = "ALIVE" <=> LiveThreads(q)' # {}
    <3>1. CASE q = p
      <4>1. thread_count'[p] = thread_count[p] + 1
        BY <1>t, <2>2, <2>3
      <4>2. Cardinality(LiveThreads(p)') = Cardinality(LiveThreads(p)) + 1
        BY <2>2, <2>4, <2>5
      <4> QED BY <1>a, <2>2, <2>3, <2>4, <3>1, <4>1, <4>2
    <3>2. CASE q # p
      BY <1>t, <1>a, <2>3, <2>4, <3>2
    <3> QED BY <3>1, <3>2
  <2> QED BY <2>6 DEF ThreadsKeepProcessAlive
<1>3. ASSUME NEW t \in Threads, Exits(t) PROVE ThreadsKeepProcessAlive'
  <2>1. PICK p : p = owner_pcb[t]
    OBVIOUS
  <2>2. /\ p \in Pids /\ t \in LiveThreads(p) /\ \A q \in Pids : LiveThreads(q)' = LiveThreads(q) \ {t}
    BY <1>3, <1>t, <2>1, LiveExits
  <2>3. /\ thread_count' = [thread_count EXCEPT ![p] = @ - 1]
        /\ LastThread(t) => pstate' = [pstate EXCEPT ![p] = "ZOMBIE"]
        /\ ~ LastThread(t) => pstate' = pstate
    BY <1>3, <2>1, ExitKinds DEF Exits, sys_ThreadExit, Ends
  <2>4. Cardinality(LiveThreads(p) \ {t}) = Cardinality(LiveThreads(p)) - 1
    BY <1>f, <2>2, FS_RemoveElement
  <2>5. LiveThreads(p) \ {t} = {} <=> LastThread(t)
    <3>1. IsFiniteSet(LiveThreads(p) \ {t})
      BY <1>f, <2>2, FS_RemoveElement
    <3>2. Cardinality(LiveThreads(p) \ {t}) = 0 <=> LiveThreads(p) \ {t} = {}
      BY <3>1, FS_EmptySet
    <3>3. LastThread(t) <=> Cardinality(LiveThreads(p)) = 1
      BY <1>a, <2>1, <2>2 DEF LastThread
    <3> QED BY <1>f, <2>2, <2>4, <3>2, <3>3
  <2>6. ASSUME NEW q \in Pids
        PROVE  /\ thread_count'[q] = Cardinality(LiveThreads(q)')
               /\ pstate'[q] = "ALIVE" <=> LiveThreads(q)' # {}
    <3>1. CASE q = p
      <4>1. thread_count'[p] = thread_count[p] - 1
        BY <1>t, <2>2, <2>3
      <4>2. Cardinality(LiveThreads(p)') = Cardinality(LiveThreads(p)) - 1
        BY <2>2, <2>4
      <4>3. pstate[p] = "ALIVE"
        BY <1>a, <2>2
      <4> QED BY <1>a, <1>t, <2>2, <2>3, <2>5, <3>1, <4>1, <4>2, <4>3
    <3>2. CASE q # p
      <4>1. LiveThreads(q) \ {t} = LiveThreads(q)
        BY <2>1, <3>2 DEF LiveThreads
      <4> QED BY <1>t, <1>a, <2>2, <2>3, <3>2, <4>1
    <3> QED BY <3>1, <3>2
  <2> QED BY <2>6 DEF ThreadsKeepProcessAlive
<1>4. ASSUME SameThreads PROVE ThreadsKeepProcessAlive'
  <2>1. \A q \in Pids : LiveThreads(q)' = LiveThreads(q)
    BY <1>4 DEF SameThreads, LiveThreads
  <2> QED BY <1>4, <1>a, <2>1 DEF SameThreads, ThreadsKeepProcessAlive
<1> QED BY <1>1, <1>2, <1>3, <1>4, ThreadKinds

LEMMA InitAloneStep ==
    ASSUME ProcessInv, Disciplined, Next
    PROVE  InitAlone'
<1>i. InitAlone
  BY DEF ProcessInv
<1>1. ASSUME NEW u \in Threads, NEW p \in Pids \ {1}, NewThread(u, p) PROVE InitAlone'
  <2>1. /\ \A x \in Threads \ {u} : pc'[x] = pc[x] /\ owner_pcb'[x] = owner_pcb[x]
        /\ pc'[u] = "user" /\ owner_pcb'[u] = p
    BY <1>1, LiveNew
  <2> QED BY <1>i, <2>1 DEF InitAlone, Alive, Dead
<1>2. ASSUME NEW t \in Threads, NEW u \in Threads, sys_Exec(t, u) PROVE InitAlone'
  BY <1>1, <1>2, ExecFacts DEF sys_Exec
<1>3. ASSUME NEW t \in Threads, NEW u \in Threads, CreatesThread(t, u) PROVE InitAlone'
  <2>1. NewThread(u, owner_pcb[t]) /\ owner_pcb[t] # 1
    BY <1>3 DEF CreatesThread, UsesThreads, sys_CreateThread, Disciplined
  <2>2. owner_pcb[t] \in Pids
    BY DEF ProcessInv, Types
  <2> QED BY <1>1, <2>1, <2>2
<1>4. ASSUME NEW t \in Threads, Exits(t) PROVE InitAlone'
  <2>1. \A x \in Threads \ {t} : pc'[x] = pc[x]
    BY <1>4, LiveExits
  <2>2. pc'[t] = "gone" /\ owner_pcb' = owner_pcb
    BY <1>4, LiveExits DEF Exits, sys_ThreadExit
  <2> QED BY <1>i, <2>1, <2>2 DEF InitAlone, Alive, Dead
<1>5. ASSUME SameThreads PROVE InitAlone'
  BY <1>i, <1>5 DEF SameThreads, InitAlone
<1> QED BY <1>2, <1>3, <1>4, <1>5, ThreadKinds

-----------------------------------------------------------------------------
(* ThreadJoin.                                                             *)

(* A step that is not about joining.                                       *)
SameJoins ==
    /\ UNCHANGED <<allocated, detached, ref_count, exited>>
    /\ \A x \in Threads : pc'[x] = "joining" <=> pc[x] = "joining"
    /\ \A x \in Threads : pc[x] = "joining" => arg'[x] = arg[x]
    /\ \A x \in Threads : pc'[x] = "join" => arg'[x] \in Threads
    /\ \A x \in Threads : x \in asleep' /\ pc[x] = "joining" => x \in asleep

LEMMA MovesOther ==
    ASSUME ProcessInv, NEW t \in Threads, NEW place, Go(t, place), pc[t] # "joining",
           place # "joining", place = "join" => arg'[t] \in Threads,
           \A u \in Threads \ {t} : arg'[u] = arg[u],
           asleep' \subseteq asleep \cup {t},
           UNCHANGED <<allocated, detached, ref_count, exited>>
    PROVE  SameJoins
<1>1. pc \in [Threads -> Places] /\ Joins
  BY DEF ProcessInv, Types
<1>2. \A u \in Threads : pc'[u] = IF u = t THEN place ELSE pc[u]
  BY <1>1 DEF Go
<1>3. \A u \in Threads : pc[u] = "joining" => u # t
  OBVIOUS
<1>4. \A u \in Threads : pc[u] = "join" => arg[u] \in Threads
  BY <1>1 DEF Joins
<1> QED BY <1>2, <1>3, <1>4 DEF SameJoins

LEMMA JoinKinds ==
    ASSUME ProcessInv, Disciplined, Next
    PROVE  \/ \E t \in Threads, u \in Threads : sys_Exec(t, u)
           \/ \E t \in Threads, u \in Threads : CreatesThread(t, u)
           \/ \E t \in Threads, u \in Threads : DetachesThread(t, u)
           \/ \E t \in Threads : Exits(t)
           \/ \E t \in Threads : sys_ThreadJoin(t)
           \/ \E t \in Threads : JoinWakes(t)
           \/ SameJoins
<1>j. Joins /\ arg \in [Threads -> Args]
  BY DEF ProcessInv, Types, Args
<1>1. ASSUME NEW t \in Threads, NEW u \in Threads, JoinsThread(t, u) PROVE SameJoins
  <2>1. /\ Go(t, "join") /\ pc[t] = "user" /\ arg' = [arg EXCEPT ![t] = u] /\ asleep' = asleep
        /\ UNCHANGED <<allocated, detached, ref_count, exited>>
    BY <1>1 DEF JoinsThread, CallThreadJoin, Calls, Runs, ptcbVars
  <2>2. arg'[t] = u /\ \A x \in Threads \ {t} : arg'[x] = arg[x]
    BY <1>j, <2>1
  <2> QED BY <2>1, <2>2, MovesOther
<1>2. ASSUME NEW t \in Threads, NEW place, Blocks(t, place) PROVE SameJoins
  <2>1. /\ Go(t, place) /\ pc[t] # "joining" /\ place \in {"waitpid", "waitany", "exitwait"}
        /\ \A u \in Threads \ {t} : arg'[u] = arg[u]
        /\ asleep' = asleep \cup {t} /\ UNCHANGED <<allocated, detached, ref_count, exited>>
    BY <1>2 DEF Blocks, ptcbVars
  <2> QED BY <2>1, MovesOther
<1>3. ASSUME NEW t \in Threads, NEW c, NEW next, Reaps(t, c, next) PROVE SameJoins
  <2>1. /\ Go(t, next) /\ pc[t] # "joining" /\ next \in {"user", "exitloop"}
        /\ \A u \in Threads \ {t} : arg'[u] = arg[u]
        /\ asleep' = asleep /\ UNCHANGED <<allocated, detached, ref_count, exited>>
    BY <1>3 DEF Reaps, ptcbVars
  <2> QED BY <2>1, MovesOther
<1>4. ASSUME NEW t \in Threads, InitEnds(t) PROVE SameJoins
  <2>1. /\ Go(t, "exitloop") /\ pc[t] # "joining" /\ arg' = arg
        /\ asleep' = asleep /\ UNCHANGED <<allocated, detached, ref_count, exited>>
    BY <1>4 DEF InitEnds, sys_Exit, MustWait, Calls, Runs, ptcbVars
  <2> QED BY <2>1, MovesOther
<1>5. ASSUME NEW t \in Threads, sys_Read_ends(t) PROVE SameJoins
  <2>1. /\ Go(t, "user") /\ pc[t] # "joining" /\ arg' = arg
        /\ asleep' = asleep /\ UNCHANGED <<allocated, detached, ref_count, exited>>
    BY <1>5 DEF sys_Read_ends, Runs, ptcbVars
  <2> QED BY <2>1, MovesOther
<1>6. ASSUME NEW t \in Threads, NEW fd \in Fids, sys_Read(t, fd) PROVE SameJoins
  <2>1. /\ Go(t, "read") /\ pc[t] # "joining" /\ arg' = [arg EXCEPT ![t] = FIDT[owner_pcb[t]][fd]]
        /\ asleep' = asleep \cup {t} /\ UNCHANGED <<allocated, detached, ref_count, exited>>
    BY <1>6 DEF sys_Read, Calls, Runs, ptcbVars
  <2>2. \A x \in Threads \ {t} : arg'[x] = arg[x]
    BY <1>j, <2>1
  <2> QED BY <2>1, <2>2, MovesOther
<1>7. ASSUME UNCHANGED <<pc, arg, allocated, detached, ref_count, exited>>, asleep' \subseteq asleep
      PROVE  SameJoins
  BY <1>7, <1>j DEF SameJoins, Joins
<1>8. ASSUME NEW t \in Threads, StreamCall(t) PROVE SameJoins
  BY <1>7, <1>8 DEF StreamCall, tcbVars, ptcbVars
<1>9. ASSUME serial_rx_handler PROVE SameJoins
  BY <1>7, <1>9 DEF serial_rx_handler, ptcbVars
<1>10. ASSUME Finished PROVE SameJoins
  BY <1>7, <1>10 DEF Finished, vars, tcbVars, ptcbVars
<1> QED BY <1>1, <1>2, <1>3, <1>4, <1>5, <1>6, <1>8, <1>9, <1>10, Kinds

LEMMA JoinersFinite ==
    ASSUME NEW u
    PROVE  IsFiniteSet(Joiners(u)) /\ Cardinality(Joiners(u)) \in Nat
<1>1. Joiners(u) \subseteq Threads
  BY DEF Joiners
<1> QED BY <1>1, FiniteThreads

LEMMA JoinsNew ==
    ASSUME ProcessInv, NEW u \in Threads, NEW p \in Pids, NewThread(u, p), UNCHANGED <<arg, asleep>>
    PROVE  Joins'
<1>1. Joins /\ detached \in [Threads -> BOOLEAN] /\ ref_count \in [Threads -> Int] /\ exited \in [Threads -> BOOLEAN]
  BY DEF ProcessInv, Types
<1>2. /\ \A x \in Threads \ {u} : pc'[x] = pc[x]
      /\ pc'[u] = "user" /\ ~ Alive(u) /\ u \notin allocated
  BY LiveNew
<1>3. /\ allocated' = allocated \cup {u}
      /\ exited' = [exited EXCEPT ![u] = FALSE]
      /\ detached' = [detached EXCEPT ![u] = FALSE]
      /\ ref_count' = [ref_count EXCEPT ![u] = 0]
  BY DEF NewThread
<1>4. \A x \in Threads : pc'[x] \in {"join", "joining"} => pc'[x] = pc[x] /\ arg'[x] = arg[x] /\ arg[x] \in Threads
  BY <1>1, <1>2 DEF Joins
<1>5. \A x \in Threads : pc[x] = "joining" => pc'[x] = "joining" /\ arg[x] # u /\ arg[x] \in allocated /\ ~ detached[arg[x]]
  BY <1>1, <1>2 DEF Joins, Alive, Dead
<1>6. ASSUME NEW x \in Threads PROVE ref_count'[x] = Cardinality(Joiners(x)')
  <2>1. Joiners(x)' = Joiners(x)
    BY <1>4, <1>5 DEF Joiners
  <2>2. CASE x = u
    <3>1. Joiners(u) = {}
      BY <1>5 DEF Joiners
    <3> QED BY <1>1, <1>3, <2>1, <2>2, <3>1, FS_EmptySet
  <2>3. CASE x # u
    BY <1>1, <1>3, <2>1, <2>3 DEF Joins
  <2> QED BY <2>2, <2>3
<1>7. \A x \in Threads : pc'[x] = "joining" => arg'[x] \in allocated' /\ ~ detached'[arg'[x]]
  BY <1>1, <1>3, <1>4, <1>5
<1>8. \A x \in asleep' : pc'[x] = "joining" => ~ exited'[arg'[x]]
  <2>1. asleep \subseteq Threads
    BY DEF ProcessInv, Types
  <2> QED BY <1>1, <1>3, <1>4, <1>5, <2>1 DEF Joins
<1> QED BY <1>4, <1>6, <1>7, <1>8 DEF Joins

LEMMA JoinsExit ==
    ASSUME ProcessInv, NEW t \in Threads, Exits(t)
    PROVE  Joins'
<1>1. Joins /\ exited \in [Threads -> BOOLEAN] /\ asleep \subseteq Threads
  BY DEF ProcessInv, Types
<1>2. /\ \A x \in Threads \ {t} : pc'[x] = pc[x]
      /\ pc'[t] = "gone" /\ pc[t] # "joining"
  BY LiveExits DEF Exits
<1>3. /\ exited' = [exited EXCEPT ![t] = TRUE]
      /\ allocated' = IF FreesPTCB(t) THEN allocated \ {t} ELSE allocated
      /\ asleep' \subseteq asleep \ exit_cv(t)
      /\ UNCHANGED <<arg, detached, ref_count>>
  BY DEF Exits, sys_ThreadExit
<1>4. FreesPTCB(t) => Joiners(t) = {}
  <2>1. ref_count[t] = Cardinality(Joiners(t))
    BY <1>1 DEF Joins
  <2>2. ref_count[t] = 0 => Joiners(t) = {}
    BY <2>1, JoinersFinite, FS_EmptySet
  <2>3. detached[t] => Joiners(t) = {}
    BY <1>1 DEF Joins, Joiners
  <2> QED BY <2>2, <2>3 DEF FreesPTCB
<1>5. \A x \in Threads : Joiners(x)' = Joiners(x)
  BY <1>2, <1>3 DEF Joiners
<1>6. \A x \in Threads : pc'[x] \in {"join", "joining"} => pc'[x] = pc[x] /\ arg'[x] = arg[x] /\ arg[x] \in Threads
  BY <1>1, <1>2, <1>3 DEF Joins
<1>7. \A x \in Threads : pc'[x] = "joining" => arg'[x] \in allocated' /\ ~ detached'[arg'[x]]
  <2> SUFFICES ASSUME NEW x \in Threads, pc'[x] = "joining"
               PROVE  arg'[x] \in allocated' /\ ~ detached'[arg'[x]]
    OBVIOUS
  <2>1. pc[x] = "joining" /\ arg'[x] = arg[x] /\ arg[x] \in allocated /\ ~ detached[arg[x]]
    BY <1>1, <1>6 DEF Joins
  <2>2. FreesPTCB(t) => arg[x] # t
    BY <1>4, <2>1 DEF Joiners
  <2> QED BY <1>3, <2>1, <2>2
<1>8. \A x \in asleep' : pc'[x] = "joining" => ~ exited'[arg'[x]]
  BY <1>1, <1>3, <1>6 DEF Joins, exit_cv
<1>9. \A x \in Threads : ref_count'[x] = Cardinality(Joiners(x)')
  BY <1>1, <1>3, <1>5 DEF Joins
<1> QED BY <1>6, <1>7, <1>8, <1>9 DEF Joins

LEMMA JoinsBegin ==
    ASSUME ProcessInv, NEW t \in Threads, sys_ThreadJoin(t)
    PROVE  Joins'
<1>1. /\ Joins /\ PTCBs /\ pc \in [Threads -> Places] /\ ref_count \in [Threads -> Int]
      /\ asleep \subseteq Threads /\ owner_pcb \in [Threads -> Pids]
  BY DEF ProcessInv, Types
<1>2. PICK u : u = arg[t]
  OBVIOUS
<1>3. /\ pc[t] = "join" /\ t \notin asleep /\ u \in Threads
      /\ UNCHANGED <<arg, allocated, detached, exited>>
  BY <1>1, <1>2 DEF sys_ThreadJoin, Runs, Joins
<1>4. CASE JoinReturns(t, u)
  <2>1. pc' = [pc EXCEPT ![t] = "user"] /\ UNCHANGED <<ref_count, asleep>>
    BY <1>2, <1>4 DEF sys_ThreadJoin, Go
  <2>2. \A x \in Threads : pc'[x] \in {"join", "joining"} => pc'[x] = pc[x]
    BY <1>1, <2>1
  <2>3. \A x \in Threads : pc'[x] = "joining" <=> pc[x] = "joining"
    BY <1>1, <1>3, <2>1
  <2>4. \A x : Joiners(x)' = Joiners(x)
    BY <1>3, <2>3 DEF Joiners
  <2> QED BY <1>1, <1>3, <2>1, <2>2, <2>3, <2>4 DEF Joins
<1>5. CASE ~ JoinReturns(t, u)
  <2>1. /\ pc' = [pc EXCEPT ![t] = "joining"] /\ asleep' = asleep \cup {t}
        /\ ref_count' = [ref_count EXCEPT ![u] = @ + 1]
    BY <1>2, <1>5 DEF sys_ThreadJoin, Go
  <2>2. ~ detached[u] /\ ~ exited[u] /\ u \in allocated
    BY <1>1, <1>5 DEF JoinReturns, PTCBs
  <2>3. \A x \in Threads : pc'[x] = IF x = t THEN "joining" ELSE pc[x]
    BY <1>1, <2>1
  <2>4. ASSUME NEW x \in Threads PROVE ref_count'[x] = Cardinality(Joiners(x)')
    <3>1. Joiners(x)' = IF x = u THEN Joiners(x) \cup {t} ELSE Joiners(x)
      BY <1>2, <1>3, <2>3 DEF Joiners
    <3>2. CASE x = u
      <4>1. t \notin Joiners(u)
        BY <1>3 DEF Joiners
      <4>2. Cardinality(Joiners(u) \cup {t}) = Cardinality(Joiners(u)) + 1
        BY <4>1, JoinersFinite, FS_AddElement
      <4>3. ref_count'[u] = ref_count[u] + 1
        BY <1>1, <1>3, <2>1
      <4>4. ref_count[u] = Cardinality(Joiners(u))
        BY <1>1, <1>3 DEF Joins
      <4> QED BY <3>1, <3>2, <4>2, <4>3, <4>4
    <3>3. CASE x # u
      BY <1>1, <2>1, <3>1, <3>3 DEF Joins
    <3> QED BY <3>2, <3>3
  <2>5. \A x \in Threads : pc'[x] \in {"join", "joining"} => arg'[x] \in Threads
    BY <1>1, <1>2, <1>3, <2>3 DEF Joins
  <2>6. \A x \in Threads : pc'[x] = "joining" => arg'[x] \in allocated' /\ ~ detached'[arg'[x]]
    BY <1>1, <1>2, <1>3, <2>2, <2>3 DEF Joins
  <2>7. \A x \in asleep' : pc'[x] = "joining" => ~ exited'[arg'[x]]
    BY <1>1, <1>2, <1>3, <2>1, <2>2, <2>3 DEF Joins
  <2> QED BY <2>4, <2>5, <2>6, <2>7 DEF Joins
<1> QED BY <1>4, <1>5

LEMMA JoinsWake ==
    ASSUME ProcessInv, NEW t \in Threads, JoinWakes(t)
    PROVE  Joins'
<1>1. /\ Joins /\ pc \in [Threads -> Places] /\ ref_count \in [Threads -> Int] /\ asleep \subseteq Threads
  BY DEF ProcessInv, Types
<1>2. PICK u : u = arg[t]
  OBVIOUS
<1>3. /\ pc[t] = "joining" /\ t \notin asleep /\ u \in Threads
      /\ UNCHANGED <<arg, allocated, detached, exited>>
  BY <1>2 DEF JoinWakes
<1>4. CASE ~ exited[u] /\ asleep' = asleep \cup {t} /\ UNCHANGED <<pc, ref_count>>
  <2>1. \A x : Joiners(x)' = Joiners(x)
    BY <1>3, <1>4 DEF Joiners
  <2> QED BY <1>1, <1>2, <1>3, <1>4, <2>1 DEF Joins
<1>5. CASE /\ Go(t, "user") /\ UNCHANGED asleep
           /\ ref_count' = [ref_count EXCEPT ![u] = IF @ > 0 THEN @ - 1 ELSE @]
  <2>1. \A x \in Threads : pc'[x] = IF x = t THEN "user" ELSE pc[x]
    BY <1>1, <1>5 DEF Go
  <2>2. ASSUME NEW x \in Threads PROVE ref_count'[x] = Cardinality(Joiners(x)')
    <3>1. Joiners(x)' = IF x = u THEN Joiners(x) \ {t} ELSE Joiners(x)
      BY <1>2, <1>3, <2>1 DEF Joiners
    <3>2. CASE x = u
      <4>1. t \in Joiners(u)
        BY <1>2, <1>3 DEF Joiners
      <4>2. Cardinality(Joiners(u) \ {t}) = Cardinality(Joiners(u)) - 1
        BY <4>1, JoinersFinite, FS_RemoveElement
      <4>3. ref_count[u] = Cardinality(Joiners(u)) /\ ref_count[u] # 0
        <5>1. ref_count[u] = Cardinality(Joiners(u))
          BY <1>1, <1>3 DEF Joins
        <5>2. Cardinality(Joiners(u)) # 0
          BY <4>1, JoinersFinite, FS_EmptySet
        <5> QED BY <5>1, <5>2
      <4>4. ref_count[u] \in Nat
        BY <4>3, JoinersFinite
      <4>5. ref_count'[u] = ref_count[u] - 1
        BY <1>1, <1>3, <1>5, <4>3, <4>4
      <4> QED BY <3>1, <3>2, <4>2, <4>3, <4>5
    <3>3. CASE x # u
      BY <1>1, <1>5, <3>1, <3>3 DEF Joins
    <3> QED BY <3>2, <3>3
  <2> QED BY <1>1, <1>3, <1>5, <2>1, <2>2 DEF Joins
<1> QED BY <1>2, <1>4, <1>5 DEF JoinWakes

LEMMA JoinsStep ==
    ASSUME ProcessInv, Disciplined, Next
    PROVE  Joins'
<1>j. Joins /\ asleep \subseteq Threads /\ detached \in [Threads -> BOOLEAN]
  BY DEF ProcessInv, Types
<1>1. ASSUME NEW t \in Threads, NEW u \in Threads, sys_Exec(t, u) PROVE Joins'
  <2>1. pcb_freelist \in Pids /\ NewThread(u, pcb_freelist) /\ UNCHANGED <<arg, asleep>>
    BY <1>1, ExecFacts DEF sys_Exec
  <2> QED BY <2>1, JoinsNew
<1>2. ASSUME NEW t \in Threads, NEW u \in Threads, CreatesThread(t, u) PROVE Joins'
  <2>1. owner_pcb[t] \in Pids /\ NewThread(u, owner_pcb[t]) /\ UNCHANGED <<arg, asleep>>
    BY <1>2 DEF CreatesThread, sys_CreateThread, ProcessInv, Types
  <2> QED BY <2>1, JoinsNew
<1>3. ASSUME NEW t \in Threads, NEW u \in Threads, DetachesThread(t, u) PROVE Joins'
  <2>1. /\ ref_count[u] = 0 /\ detached' = [detached EXCEPT ![u] = TRUE] /\ asleep' \subseteq asleep
        /\ UNCHANGED <<pc, arg, allocated, ref_count, exited>>
    BY <1>3 DEF DetachesThread, MayDetach, sys_ThreadDetach, Disciplined
  <2>2. Joiners(u) = {}
    BY <1>j, <2>1, JoinersFinite, FS_EmptySet DEF Joins
  <2>3. \A x \in Threads : pc[x] = "joining" => arg[x] # u
    BY <2>2 DEF Joiners
  <2>4. \A x : Joiners(x)' = Joiners(x)
    BY <2>1 DEF Joiners
  <2> QED BY <1>j, <2>1, <2>3, <2>4 DEF Joins
<1>4. ASSUME SameJoins PROVE Joins'
  <2>1. \A x : Joiners(x)' = Joiners(x)
    BY <1>4 DEF SameJoins, Joiners
  <2>2. asleep' \subseteq Threads
    BY TypesStep DEF Types
  <2> QED BY <1>4, <1>j, <2>1, <2>2 DEF SameJoins, Joins
<1> QED BY <1>1, <1>2, <1>3, <1>4, JoinsExit, JoinsBegin, JoinsWake, JoinKinds

-----------------------------------------------------------------------------
(* WaitChild.                                                              *)

(* No thread begins to wait, and those that wait stay.                     *)
SameWaiters ==
    /\ \A x \in Threads : pc'[x] \in WaitPlaces =>
         pc'[x] = pc[x] /\ arg'[x] = arg[x] /\ owner_pcb'[x] = owner_pcb[x]
    /\ \A x \in Threads : x \in asleep' /\ pc'[x] \in WaitPlaces => x \in asleep

LEMMA MovesElsewhere ==
    ASSUME ProcessInv, NEW t \in Threads, NEW place, Go(t, place), place \notin WaitPlaces,
           \A u \in Threads \ {t} : arg'[u] = arg[u] /\ owner_pcb'[u] = owner_pcb[u],
           asleep' \subseteq asleep \cup {t}
    PROVE  SameWaiters
<1>1. pc \in [Threads -> Places]
  BY DEF ProcessInv, Types
<1>2. \A u \in Threads : pc'[u] = IF u = t THEN place ELSE pc[u]
  BY <1>1 DEF Go
<1> QED BY <1>2 DEF SameWaiters

LEMMA WaitKinds ==
    ASSUME ProcessInv, Disciplined, Next
    PROVE  \/ \E t \in Threads : \E place : Blocks(t, place)
           \/ SameWaiters
<1>t. arg \in [Threads -> Args] /\ owner_pcb \in [Threads -> Pids]
  BY DEF ProcessInv, Types, Args
<1>w. "user" \notin WaitPlaces /\ "join" \notin WaitPlaces /\ "joining" \notin WaitPlaces
      /\ "exitloop" \notin WaitPlaces /\ "read" \notin WaitPlaces /\ "gone" \notin WaitPlaces
  BY DEF WaitPlaces
<1>1. ASSUME NEW t \in Threads, NEW u \in Threads, sys_Exec(t, u) \/ CreatesThread(t, u)
      PROVE  SameWaiters
  <2>1. /\ Go(u, "user") /\ UNCHANGED <<arg, asleep>>
        /\ \E p : owner_pcb' = [owner_pcb EXCEPT ![u] = p]
    BY <1>1 DEF sys_Exec, CreatesThread, sys_CreateThread, NewThread
  <2>2. \A x \in Threads \ {u} : owner_pcb'[x] = owner_pcb[x]
    BY <1>t, <2>1
  <2> QED BY <1>w, <2>1, <2>2, MovesElsewhere
<1>2. ASSUME NEW t \in Threads, NEW u \in Threads, JoinsThread(t, u) PROVE SameWaiters
  <2>1. /\ Go(t, "join") /\ arg' = [arg EXCEPT ![t] = u] /\ UNCHANGED <<asleep, owner_pcb>>
    BY <1>2 DEF JoinsThread, CallThreadJoin
  <2>2. \A x \in Threads \ {t} : arg'[x] = arg[x]
    BY <1>t, <2>1
  <2> QED BY <1>w, <2>1, <2>2, MovesElsewhere
<1>3. ASSUME UNCHANGED <<pc, arg, owner_pcb>>, asleep' \subseteq asleep PROVE SameWaiters
  BY <1>3 DEF SameWaiters
<1>4. ASSUME NEW t \in Threads, NEW u \in Threads, DetachesThread(t, u) PROVE SameWaiters
  BY <1>3, <1>4 DEF DetachesThread, sys_ThreadDetach
<1>5. ASSUME NEW t \in Threads, NEW c, NEW next, Reaps(t, c, next) PROVE SameWaiters
  <2>1. /\ Go(t, next) /\ next \in {"user", "exitloop"} /\ UNCHANGED <<asleep, owner_pcb>>
        /\ \A u \in Threads \ {t} : arg'[u] = arg[u]
    BY <1>5 DEF Reaps
  <2> QED BY <1>w, <2>1, MovesElsewhere
<1>6. ASSUME NEW t \in Threads, Exits(t) PROVE SameWaiters
  <2>1. /\ Go(t, "gone") /\ asleep' \subseteq asleep /\ UNCHANGED <<owner_pcb, arg>>
    BY <1>6, ExitKinds DEF Exits, sys_ThreadExit
  <2> QED BY <1>w, <2>1, MovesElsewhere
<1>7. ASSUME NEW t \in Threads, InitEnds(t) PROVE SameWaiters
  <2>1. /\ Go(t, "exitloop") /\ UNCHANGED <<asleep, owner_pcb, arg>>
    BY <1>7 DEF InitEnds, sys_Exit
  <2> QED BY <1>w, <2>1, MovesElsewhere
<1>8. ASSUME NEW t \in Threads, sys_ThreadJoin(t) PROVE SameWaiters
  <2>1. /\ Go(t, "user") \/ Go(t, "joining")
        /\ asleep' \subseteq asleep \cup {t} /\ UNCHANGED <<owner_pcb, arg>>
    BY <1>8 DEF sys_ThreadJoin
  <2> QED BY <1>w, <2>1, MovesElsewhere
<1>9. ASSUME NEW t \in Threads, JoinWakes(t) PROVE SameWaiters
  <2>1. CASE Go(t, "user") /\ UNCHANGED asleep
    <3>1. UNCHANGED <<owner_pcb, arg>>
      BY <1>9 DEF JoinWakes
    <3> QED BY <1>w, <2>1, <3>1, MovesElsewhere
  <2>2. CASE asleep' = asleep \cup {t} /\ UNCHANGED pc
    <3>1. UNCHANGED <<owner_pcb, arg>> /\ pc[t] = "joining"
      BY <1>9 DEF JoinWakes
    <3> QED BY <1>w, <2>2, <3>1 DEF SameWaiters
  <2> QED BY <1>9, <2>1, <2>2 DEF JoinWakes
<1>10. ASSUME NEW t \in Threads, sys_Read_ends(t) PROVE SameWaiters
  <2>1. /\ Go(t, "user") /\ UNCHANGED <<asleep, owner_pcb, arg>>
    BY <1>10 DEF sys_Read_ends
  <2> QED BY <1>w, <2>1, MovesElsewhere
<1>11. ASSUME NEW t \in Threads, NEW fd \in Fids, sys_Read(t, fd) PROVE SameWaiters
  <2>1. /\ Go(t, "read") /\ arg' = [arg EXCEPT ![t] = FIDT[owner_pcb[t]][fd]]
        /\ asleep' = asleep \cup {t} /\ UNCHANGED owner_pcb
    BY <1>11 DEF sys_Read
  <2>2. \A x \in Threads \ {t} : arg'[x] = arg[x]
    BY <1>t, <2>1
  <2> QED BY <1>w, <2>1, <2>2, MovesElsewhere
<1>12. ASSUME NEW t \in Threads, StreamCall(t) PROVE SameWaiters
  BY <1>3, <1>12 DEF StreamCall, tcbVars
<1>13. ASSUME serial_rx_handler PROVE SameWaiters
  BY <1>3, <1>13 DEF serial_rx_handler
<1>14. ASSUME Finished PROVE SameWaiters
  BY <1>3, <1>14 DEF Finished, vars, tcbVars
<1> QED BY <1>1, <1>2, <1>4, <1>5, <1>6, <1>7, <1>8, <1>9, <1>10, <1>11, <1>12, <1>13, <1>14, Kinds

(* When the waiters are the same, the step must leave what they wait for.  *)
LEMMA WaitingSame ==
    ASSUME ProcessInv, SameWaiters, asleep' \subseteq Threads,
           \A x \in Threads : pc'[x] = "waitpid" =>
             /\ pstate'[arg[x]] # "FREE" /\ parent'[arg[x]] = owner_pcb[x]
             /\ x \in asleep' => pstate'[arg[x]] = "ALIVE",
           \A x \in Threads : pc'[x] \in {"waitany", "exitwait"} =>
             /\ children_list'[owner_pcb[x]] # {}
             /\ x \in asleep' => exited_list'[owner_pcb[x]] = << >>
    PROVE  Waiting'
<1>1. Waiting
  BY DEF ProcessInv
<1>2. "waitpid" \in WaitPlaces /\ "waitany" \in WaitPlaces /\ "exitwait" \in WaitPlaces
  BY DEF WaitPlaces
<1>3. ASSUME NEW t \in Threads
      PROVE  /\ pc'[t] = "waitpid" =>
                  arg'[t] \in Pids /\ Used(arg[t])' /\ parent'[arg'[t]] = owner_pcb'[t]
             /\ pc'[t] \in {"waitany", "exitwait"} => children_list'[owner_pcb'[t]] # {}
  BY <1>1, <1>2 DEF SameWaiters, Waiting, Used
<1>4. \A t, u \in Threads :
        pc'[t] \in WaitPlaces /\ pc'[u] \in WaitPlaces /\ owner_pcb'[t] = owner_pcb'[u] => t = u
  BY <1>1 DEF SameWaiters, Waiting
<1>5. \A t \in asleep' :
         /\ pc'[t] = "waitpid" => pstate'[arg'[t]] = "ALIVE"
         /\ pc'[t] \in {"waitany", "exitwait"} => exited_list'[owner_pcb'[t]] = << >>
  BY <1>2 DEF SameWaiters
<1>6. \A t \in Threads : pc'[t] = "waitpid" => Used(arg[t])' /\ arg'[t] = arg[t]
  BY <1>2, <1>3 DEF SameWaiters
<1>7. \A t \in Threads : pc'[t] = "waitpid" => pstate'[arg'[t]] # "FREE"
  BY <1>6 DEF Used
<1> QED BY <1>3, <1>4, <1>5, <1>7 DEF Waiting, Used

LEMMA WaitingBlocks ==
    ASSUME ProcessInv, NEW t \in Threads, NEW place, Blocks(t, place)
    PROVE  Waiting'
<1>1. Waiting /\ pc \in [Threads -> Places] /\ asleep \subseteq Threads
  BY DEF ProcessInv, Types
<1>2. /\ asleep' = asleep \cup {t} /\ UNCHANGED <<pstate, parent, children_list, exited_list, owner_pcb>>
      /\ \A u \in Threads \ {t} : arg'[u] = arg[u]
      /\ \A u \in Threads \ {t} : pc[u] \in WaitPlaces => owner_pcb[u] # owner_pcb[t]
  BY DEF Blocks, treeVars
<1>3. \A u \in Threads : pc'[u] = IF u = t THEN place ELSE pc[u]
  BY <1>1 DEF Blocks, Go
<1>4. \/ place = "waitpid" /\ arg'[t] \in Pids /\ pstate[arg'[t]] = "ALIVE" /\ parent[arg'[t]] = owner_pcb[t]
      \/ /\ place \in {"waitany", "exitwait"}
         /\ exited_list[owner_pcb[t]] = << >> /\ children_list[owner_pcb[t]] # {}
  BY DEF Blocks
<1>5. ASSUME NEW x \in Threads
      PROVE  /\ pc'[x] = "waitpid" =>
                  arg'[x] \in Pids /\ pstate'[arg'[x]] # "FREE" /\ parent'[arg'[x]] = owner_pcb'[x]
             /\ pc'[x] \in {"waitany", "exitwait"} => children_list'[owner_pcb'[x]] # {}
  <2>1. CASE x = t
    BY <1>2, <1>3, <1>4, <2>1
  <2>2. CASE x # t
    BY <1>1, <1>2, <1>3, <2>2 DEF Waiting, Used
  <2> QED BY <2>1, <2>2
<1>6. ASSUME NEW x \in Threads, NEW y \in Threads, pc'[x] \in WaitPlaces, pc'[y] \in WaitPlaces,
             owner_pcb'[x] = owner_pcb'[y]
      PROVE  x = y
  BY <1>1, <1>2, <1>3, <1>6 DEF Waiting
<1>7. ASSUME NEW x \in asleep'
      PROVE  /\ pc'[x] = "waitpid" => pstate'[arg'[x]] = "ALIVE"
             /\ pc'[x] \in {"waitany", "exitwait"} => exited_list'[owner_pcb'[x]] = << >>
  <2>1. CASE x = t
    BY <1>2, <1>3, <1>4, <2>1
  <2>2. CASE x # t
    BY <1>1, <1>2, <1>3, <1>7, <2>2 DEF Waiting
  <2> QED BY <2>1, <2>2
<1> QED BY <1>5, <1>6, <1>7 DEF Waiting, Used

LEMMA WaitingReaps ==
    ASSUME ProcessInv, NEW t \in Threads, NEW c, NEW next, Reaps(t, c, next), SameWaiters,
           asleep' \subseteq Threads
    PROVE  Waiting'
<1>1. /\ Waiting /\ Tree /\ pstate \in [Pids -> Words] /\ parent \in [Pids -> Pids \cup {NULL}]
      /\ exited_list \in [Pids -> Seq(Pids)] /\ owner_pcb \in [Threads -> Pids]
      /\ pc \in [Threads -> Places]
  BY DEF ProcessInv, Types
<1>2. /\ c \in Pids /\ pstate[c] = "ZOMBIE" /\ parent[c] = owner_pcb[t]
      /\ pc' = [pc EXCEPT ![t] = next] /\ next \in {"user", "exitloop"}
      /\ \A u \in Threads \ {t} : pc[u] \in WaitPlaces => owner_pcb[u] # owner_pcb[t]
  BY DEF Reaps, Go
<1>3. /\ pstate' = [pstate EXCEPT ![c] = "FREE"]
      /\ parent' = [parent EXCEPT ![c] = pcb_freelist]
      /\ children_list' = [p \in Pids |-> children_list[p] \ {c}]
      /\ exited_list' = [p \in Pids |-> Without(exited_list[p], c)]
  BY DEF Reaps, cleanup_zombie, Unlink, release_PCB
<1>4. \A x \in Threads : pc'[x] \in WaitPlaces =>
        x # t /\ pc'[x] = pc[x] /\ owner_pcb[x] # owner_pcb[t] /\ (x \in asleep' => x \in asleep)
  BY <1>1, <1>2 DEF SameWaiters, WaitPlaces
<1>w. "waitpid" \in WaitPlaces /\ "waitany" \in WaitPlaces /\ "exitwait" \in WaitPlaces
  BY DEF WaitPlaces
<1>5. ASSUME NEW x \in Threads, pc'[x] = "waitpid"
      PROVE  /\ pstate'[arg[x]] # "FREE" /\ parent'[arg[x]] = owner_pcb[x]
             /\ x \in asleep' => pstate'[arg[x]] = "ALIVE"
  <2>1. /\ pc[x] = "waitpid" /\ owner_pcb[x] # owner_pcb[t] /\ (x \in asleep' => x \in asleep)
    BY <1>4, <1>5, <1>w
  <2>2. arg[x] \in Pids /\ Used(arg[x]) /\ parent[arg[x]] = owner_pcb[x] /\ (x \in asleep => pstate[arg[x]] = "ALIVE")
    BY <1>1, <2>1 DEF Waiting
  <2>3. arg[x] # c
    BY <1>2, <2>1, <2>2
  <2> QED BY <1>1, <1>2, <1>3, <2>1, <2>2, <2>3 DEF Used
<1>6. ASSUME NEW x \in Threads, pc'[x] \in {"waitany", "exitwait"}
      PROVE  /\ children_list'[owner_pcb[x]] # {}
             /\ x \in asleep' => exited_list'[owner_pcb[x]] = << >>
  <2>1. /\ pc[x] \in {"waitany", "exitwait"} /\ owner_pcb[x] # owner_pcb[t] /\ (x \in asleep' => x \in asleep)
    BY <1>4, <1>6, <1>w
  <2>2. children_list[owner_pcb[x]] # {} /\ (x \in asleep => exited_list[owner_pcb[x]] = << >>)
    BY <1>1, <2>1 DEF Waiting
  <2>3. owner_pcb[x] \in Pids /\ c \notin children_list[owner_pcb[x]]
    BY <1>1, <1>2, <2>1 DEF Tree
  <2>4. exited_list[owner_pcb[x]] = << >> => Without(exited_list[owner_pcb[x]], c) = << >>
    BY DEF Without, Contains
  <2> QED BY <1>3, <2>1, <2>2, <2>3, <2>4
<1> QED BY <1>5, <1>6, WaitingSame

LEMMA WaitingExec ==
    ASSUME ProcessInv, NEW t \in Threads, NEW u \in Threads, sys_Exec(t, u), SameWaiters,
           asleep' \subseteq Threads
    PROVE  Waiting'
<1>1. /\ Waiting /\ pstate \in [Pids -> Words] /\ parent \in [Pids -> Pids \cup {NULL}]
      /\ children_list \in [Pids -> SUBSET Pids] /\ owner_pcb \in [Threads -> Pids]
  BY DEF ProcessInv, Types
<1>2. PICK p, child : p = owner_pcb[t] /\ child = pcb_freelist
  OBVIOUS
<1>3. p \in Pids /\ child \in Pids /\ pstate[child] = "FREE"
  BY <1>2, ExecFacts
<1>4. /\ pstate' = [pstate EXCEPT ![child] = "ALIVE"]
      /\ parent' = [parent EXCEPT ![child] = p]
      /\ children_list' = [children_list EXCEPT ![p] = @ \cup {child}]
      /\ exited_list' = exited_list
  BY <1>2 DEF sys_Exec
<1>w. "waitpid" \in WaitPlaces /\ "waitany" \in WaitPlaces /\ "exitwait" \in WaitPlaces
  BY DEF WaitPlaces
<1>5. ASSUME NEW x \in Threads, pc'[x] = "waitpid"
      PROVE  /\ pstate'[arg[x]] # "FREE" /\ parent'[arg[x]] = owner_pcb[x]
             /\ x \in asleep' => pstate'[arg[x]] = "ALIVE"
  <2>1. /\ pc[x] = "waitpid" /\ (x \in asleep' => x \in asleep)
    BY <1>5, <1>w DEF SameWaiters
  <2>2. arg[x] \in Pids /\ pstate[arg[x]] # "FREE" /\ parent[arg[x]] = owner_pcb[x] /\ (x \in asleep => pstate[arg[x]] = "ALIVE")
    BY <1>1, <2>1 DEF Waiting, Used
  <2> QED BY <1>1, <1>3, <1>4, <2>1, <2>2
<1>6. ASSUME NEW x \in Threads, pc'[x] \in {"waitany", "exitwait"}
      PROVE  /\ children_list'[owner_pcb[x]] # {}
             /\ x \in asleep' => exited_list'[owner_pcb[x]] = << >>
  <2>1. /\ pc[x] \in {"waitany", "exitwait"} /\ (x \in asleep' => x \in asleep)
    BY <1>6, <1>w DEF SameWaiters
  <2>2. children_list[owner_pcb[x]] # {} /\ (x \in asleep => exited_list[owner_pcb[x]] = << >>)
    BY <1>1, <2>1 DEF Waiting
  <2> QED BY <1>1, <1>3, <1>4, <2>1, <2>2
<1> QED BY <1>5, <1>6, WaitingSame

(* The exit of a process: its own threads do not wait any more, and those  *)
(* that it concerns are woken.                                             *)
LEMMA WaitingEnds ==
    ASSUME ProcessInv, NEW t \in Threads, Exits(t), LastThread(t), Ends(owner_pcb[t]), SameWaiters,
           ThreadsKeepProcessAlive', asleep' \subseteq Threads
    PROVE  Waiting'
<1>1. /\ Waiting /\ Tree /\ pstate \in [Pids -> Words] /\ parent \in [Pids -> Pids \cup {NULL}]
      /\ children_list \in [Pids -> SUBSET Pids] /\ owner_pcb \in [Threads -> Pids]
      /\ exited_list \in [Pids -> Seq(Pids)]
  BY DEF ProcessInv, Types
<1>2. PICK p : p = owner_pcb[t]
  OBVIOUS
<1>3. /\ p \in Pids /\ pstate[p] = "ALIVE" /\ pstate' = [pstate EXCEPT ![p] = "ZOMBIE"]
      /\ exited_list' = ExitedAfter(p)
      /\ \A x \in Pids : parent'[x] = IF x \in children_list[p] THEN 1 ELSE parent[x]
      /\ \A q \in Pids \ {p} : children_list[q] \subseteq children_list'[q]
  BY <1>2 DEF Ends, Reparent
<1>4. asleep' = asleep \ (exit_cv(t) \cup WokenByExit(p)) /\ owner_pcb' = owner_pcb
  BY <1>2, ExitKinds DEF Exits, sys_ThreadExit
<1>w. "waitpid" \in WaitPlaces /\ "waitany" \in WaitPlaces /\ "exitwait" \in WaitPlaces
  BY DEF WaitPlaces
<1>5. \A x \in Threads : pc'[x] \in WaitPlaces => owner_pcb[x] # p
  <2>1. pstate'[p] # "ALIVE"
    BY <1>1, <1>3
  <2>2. LiveThreads(p)' = {}
    BY <1>3, <2>1 DEF ThreadsKeepProcessAlive
  <2> QED BY <1>4, <2>2 DEF LiveThreads, Alive, Dead, WaitPlaces
<1>6. ASSUME NEW x \in Threads, pc'[x] = "waitpid"
      PROVE  /\ pstate'[arg[x]] # "FREE" /\ parent'[arg[x]] = owner_pcb[x]
             /\ x \in asleep' => pstate'[arg[x]] = "ALIVE"
  <2>1. /\ pc[x] = "waitpid" /\ (x \in asleep' => x \in asleep) /\ owner_pcb[x] # p
    BY <1>5, <1>6, <1>w DEF SameWaiters
  <2>2. arg[x] \in Pids /\ pstate[arg[x]] # "FREE" /\ parent[arg[x]] = owner_pcb[x] /\ (x \in asleep => pstate[arg[x]] = "ALIVE")
    BY <1>1, <2>1 DEF Waiting, Used
  <2>3. arg[x] \notin children_list[p]
    BY <1>1, <1>3, <2>1, <2>2 DEF Tree
  <2>4. x \in asleep' => arg[x] # p
    <3> SUFFICES ASSUME x \in asleep', arg[x] = p PROVE FALSE
      OBVIOUS
    <3>1. x \in child_exit(parent[p])
      BY <1>w, <2>1, <2>2 DEF child_exit
    <3> QED BY <1>4, <3>1 DEF WokenByExit
  <2> QED BY <1>1, <1>3, <2>1, <2>2, <2>3, <2>4
<1>7. ASSUME NEW x \in Threads, pc'[x] \in {"waitany", "exitwait"}
      PROVE  /\ children_list'[owner_pcb[x]] # {}
             /\ x \in asleep' => exited_list'[owner_pcb[x]] = << >>
  <2>1. /\ pc[x] \in {"waitany", "exitwait"} /\ pc[x] \in WaitPlaces /\ (x \in asleep' => x \in asleep)
        /\ owner_pcb[x] # p /\ owner_pcb[x] \in Pids
    BY <1>1, <1>5, <1>7, <1>w DEF SameWaiters
  <2>2. children_list[owner_pcb[x]] # {} /\ (x \in asleep => exited_list[owner_pcb[x]] = << >>)
    BY <1>1, <2>1 DEF Waiting
  <2>3. children_list'[owner_pcb[x]] # {}
    BY <1>3, <2>1, <2>2
  <2>4. ASSUME x \in asleep' PROVE exited_list'[owner_pcb[x]] = << >>
    <3>1. owner_pcb[x] # parent[p]
      BY <1>4, <2>1, <2>4 DEF WokenByExit, child_exit
    <3>2. owner_pcb[x] = 1 => exited_list[p] = << >>
      BY <1>4, <2>1, <2>4 DEF WokenByExit, child_exit
    <3>3. exited_list'[owner_pcb[x]] = (<< >> \o << >>) \o << >>
      BY <1>3, <2>1, <2>2, <2>4, <3>1, <3>2 DEF ExitedAfter
    <3>4. (<< >> \o << >>) \o << >> = << >>
      OBVIOUS
    <3> QED BY <3>3, <3>4
  <2> QED BY <2>3, <2>4
<1> QED BY <1>6, <1>7, WaitingSame

LEMMA WaitingStep ==
    ASSUME ProcessInv, Disciplined, Next
    PROVE  Waiting'
<1>1. asleep' \subseteq Threads
  BY TypesStep DEF Types
<1>2. ASSUME SameWaiters, UNCHANGED <<pstate, treeVars>> PROVE Waiting'
  <2>1. Waiting
    BY DEF ProcessInv
  <2>w. "waitpid" \in WaitPlaces /\ "waitany" \in WaitPlaces /\ "exitwait" \in WaitPlaces
    BY DEF WaitPlaces
  <2>2. UNCHANGED <<pstate, parent, children_list, exited_list>>
    BY <1>2 DEF treeVars
  <2>3. ASSUME NEW x \in Threads, pc'[x] = "waitpid"
        PROVE  /\ pstate'[arg[x]] # "FREE" /\ parent'[arg[x]] = owner_pcb[x]
               /\ x \in asleep' => pstate'[arg[x]] = "ALIVE"
    BY <1>2, <2>1, <2>2, <2>3, <2>w DEF SameWaiters, Waiting, Used
  <2>4. ASSUME NEW x \in Threads, pc'[x] \in {"waitany", "exitwait"}
        PROVE  /\ children_list'[owner_pcb[x]] # {}
               /\ x \in asleep' => exited_list'[owner_pcb[x]] = << >>
    BY <1>2, <2>1, <2>2, <2>4, <2>w DEF SameWaiters, Waiting
  <2> QED BY <1>1, <1>2, <2>3, <2>4, WaitingSame
<1>3. CASE SameWaiters
  BY <1>1, <1>2, <1>3, TreeKinds, AliveStep, WaitingExec, WaitingReaps, WaitingEnds
<1> QED BY <1>3, WaitKinds, WaitingBlocks

-----------------------------------------------------------------------------
(* The streams.                                                            *)

(* The entries of a file table F that point to f, and those of process p.  *)
Points(F, f) == {e \in Pids \X Fids : F[e[1]][e[2]] = f}
PointsOf(F, p, f) == {fd \in Fids : F[p][fd] = f}

LEMMA TablesFinite ==
    ASSUME NEW F, NEW f
    PROVE  /\ IsFiniteSet(Points(F, f)) /\ Cardinality(Points(F, f)) \in Nat
           /\ \A p \in Pids : IsFiniteSet(PointsOf(F, p, f)) /\ Cardinality(PointsOf(F, p, f)) \in Nat
<1>1. IsFiniteSet(Fids)
  <2>1. 0 \in Int /\ MAX_FILEID - 1 \in Int
    BY StreamsAssumption
  <2> QED BY <2>1, FS_Interval DEF Fids
<1>2. IsFiniteSet(Pids \X Fids)
  BY <1>1, Constants, FS_Product
<1>3. Points(F, f) \in SUBSET (Pids \X Fids)
  BY DEF Points
<1>4. \A p \in Pids : PointsOf(F, p, f) \in SUBSET Fids
  BY DEF PointsOf
<1>5. IsFiniteSet(Points(F, f)) /\ \A p \in Pids : IsFiniteSet(PointsOf(F, p, f))
  BY <1>1, <1>2, <1>3, <1>4, FS_Subset
<1> QED BY <1>5, FS_CardinalityType

(* The entries of p and the entries of the others.                         *)
LEMMA TableSplit ==
    ASSUME NEW F, NEW p \in Pids, NEW f
    PROVE  LET rest == {e \in Points(F, f) : e[1] # p} IN
           /\ Cardinality(rest) \in Nat
           /\ Cardinality(Points(F, f)) = Cardinality(rest) + Cardinality(PointsOf(F, p, f))
<1> DEFINE rest == {e \in Points(F, f) : e[1] # p}
           own  == {e \in Points(F, f) : e[1] = p}
           D    == PointsOf(F, p, f)
           b    == [fd \in D |-> <<p, fd>>]
<1>1. IsFiniteSet(Points(F, f)) /\ IsFiniteSet(D) /\ Cardinality(D) \in Nat
  BY TablesFinite
<1>2. rest \in SUBSET Points(F, f) /\ own \in SUBSET Points(F, f)
  OBVIOUS
<1>3. IsFiniteSet(rest) /\ IsFiniteSet(own) /\ Cardinality(rest) \in Nat
  BY <1>1, <1>2, FS_Subset, FS_CardinalityType
<1>4. Points(F, f) = rest \cup own /\ rest \cap own = {}
  OBVIOUS
<1>5. Cardinality(own) = Cardinality(D)
  <2>1. \A fd \in D : <<p, fd>> \in own
    BY DEF Points, PointsOf
  <2>2. \A e \in own : \E fd \in D : e = <<p, fd>>
    <3> SUFFICES ASSUME NEW e \in own PROVE \E fd \in D : e = <<p, fd>>
      OBVIOUS
    <3>1. e \in Pids \X Fids /\ F[e[1]][e[2]] = f /\ e[1] = p
      BY DEF Points
    <3>2. e[2] \in D /\ e = <<p, e[2]>>
      BY <3>1 DEF PointsOf
    <3> QED BY <3>2
  <2>3. b \in [D -> own]
    BY <2>1
  <2>4. \A x, y \in D : b[x] = b[y] => x = y
    OBVIOUS
  <2>5. \A e \in own : \E fd \in D : b[fd] = e
    BY <2>2
  <2> HIDE DEF b, own, D
  <2>6. b \in Bijection(D, own)
    BY <2>3, <2>4, <2>5 DEF Bijection, Injection, Surjection, IsInjective
  <2>7. ExistsBijection(D, own)
    BY <2>6 DEF ExistsBijection
  <2> QED BY <1>1, <2>7, FS_Bijection
<1>6. Cardinality(Points(F, f)) = Cardinality(rest) + Cardinality(own) - 0
  <2> HIDE DEF rest, own
  <2>1. Cardinality(rest \cap own) = 0
    BY <1>4, FS_EmptySet
  <2> QED BY <1>3, <1>4, <2>1, FS_Union
<1> HIDE DEF rest, own, D
<1>7. Cardinality(Points(F, f)) = Cardinality(rest) + Cardinality(D)
  BY <1>1, <1>3, <1>5, <1>6
<1> QED BY <1>3, <1>7 DEF rest, D

(* The table of one process is replaced.                                   *)
LEMMA TableReplaced ==
    ASSUME NEW F, NEW G, NEW p \in Pids, NEW f,
           \A q \in Pids \ {p} : G[q] = F[q]
    PROVE  Cardinality(Points(G, f))
             = Cardinality(Points(F, f)) - Cardinality(PointsOf(F, p, f)) + Cardinality(PointsOf(G, p, f))
<1>1. {e \in Points(F, f) : e[1] # p} = {e \in Points(G, f) : e[1] # p}
  BY DEF Points
<1>2. PICK n : n = Cardinality({e \in Points(F, f) : e[1] # p})
  OBVIOUS
<1>3. n \in Nat /\ Cardinality(Points(F, f)) = n + Cardinality(PointsOf(F, p, f))
  BY <1>2, TableSplit
<1>4. Cardinality(Points(G, f)) = n + Cardinality(PointsOf(G, p, f))
  BY <1>1, <1>2, TableSplit
<1>5. Cardinality(PointsOf(F, p, f)) \in Nat /\ Cardinality(PointsOf(G, p, f)) \in Nat
  BY TablesFinite
<1> QED BY <1>3, <1>4, <1>5

(* One entry of a table changes from old to g.                             *)
SetsEntry(F, G, p, fd, g, old) == G = [F EXCEPT ![p][fd] = g] /\ old = F[p][fd]

One(x, y) == IF x = y THEN 1 ELSE 0

LEMMA EntryReplaced ==
    ASSUME NEW F \in [Pids -> [Fids -> FCBs \cup {NULL}]], NEW p \in Pids, NEW fd \in Fids, NEW g, NEW f,
           NEW G, NEW old, SetsEntry(F, G, p, fd, g, old)
    PROVE  Cardinality(Points(G, f)) = Cardinality(Points(F, f)) + One(f, g) - One(f, old)
<1> DEFINE A == Points(F, f)
           B == Points(G, f)
           e == <<p, fd>>
<1> USE DEF SetsEntry
<1>1. IsFiniteSet(A) /\ Cardinality(A) \in Nat
  BY TablesFinite
<1>2. e \in Pids \X Fids /\ e[1] = p /\ e[2] = fd
  OBVIOUS
<1>3. \A x \in Pids \X Fids : G[x[1]][x[2]] = IF x = e THEN g ELSE F[x[1]][x[2]]
  OBVIOUS
<1>4. e \in A <=> f = F[p][fd]
  BY <1>2 DEF Points
<1>5. B = IF f = g THEN A \cup {e} ELSE A \ {e}
  <2>1. \A x : x \in B <=> x \in Pids \X Fids /\ G[x[1]][x[2]] = f
    BY DEF Points
  <2>2. \A x : x \in A <=> x \in Pids \X Fids /\ F[x[1]][x[2]] = f
    BY DEF Points
  <2> HIDE DEF e, A, B
  <2>3. \A x \in Pids \X Fids : x \in B <=> (x = e /\ f = g) \/ (x # e /\ x \in A)
    BY <1>3, <2>1, <2>2
  <2> QED BY <1>2, <2>1, <2>2, <2>3
<1>6. /\ Cardinality(A \cup {e}) = IF e \in A THEN Cardinality(A) ELSE Cardinality(A) + 1
      /\ Cardinality(A \ {e}) = IF e \in A THEN Cardinality(A) - 1 ELSE Cardinality(A)
  <2> HIDE DEF A, e
  <2> QED BY <1>1, FS_AddElement, FS_RemoveElement
<1> HIDE DEF A, B, e
<1>7. Cardinality(B) = Cardinality(A) + One(f, g) - One(f, old)
  BY <1>1, <1>4, <1>5, <1>6 DEF One
<1> QED BY <1>7 DEF A, B

Readers(f) == {t \in Threads : pc[t] = "read" /\ arg[t] = f}

LEMMA ReadersFinite ==
    ASSUME NEW f
    PROVE  IsFiniteSet(Readers(f)) /\ Cardinality(Readers(f)) \in Nat
<1>1. Readers(f) \subseteq Threads
  BY DEF Readers
<1> QED BY <1>1, FiniteThreads

LEMMA ReferencesAre ==
    ASSUME NEW f
    PROVE  /\ References(f) = Cardinality(Points(FIDT, f)) + Cardinality(Readers(f))
           /\ References(f) \in Nat
<1>1. References(f) = Cardinality(Points(FIDT, f)) + Cardinality(Readers(f))
  BY DEF References, Points, Readers
<1> QED BY <1>1, ReadersFinite, TablesFinite

LEMMA ReferencesAreNext ==
    ASSUME NEW f
    PROVE  /\ References(f)' = Cardinality(Points(FIDT', f)) + Cardinality(Readers(f)')
           /\ Cardinality(Points(FIDT', f)) \in Nat /\ Cardinality(Readers(f)') \in Nat
<1>1. References(f)' = Cardinality(Points(FIDT', f)) + Cardinality(Readers(f)')
  BY DEF References, Points, Readers
<1>2. Readers(f)' \subseteq Threads
  BY DEF Readers
<1> QED BY <1>1, <1>2, FiniteThreads, TablesFinite

(* FCB_incref and FCB_decref keep the counts, if the references change as  *)
(* the counts do, and a stream that is free gets none.                     *)
LEMMA CountsKept ==
    ASSUME ProcessInv, NEW d \in [FCBs -> Int], NEW counts \in [FCBs -> Int], FCB_counts(counts),
           \A f \in FCBs : counts[f] = refcount[f] + d[f],
           \A f \in FCBs : References(f)' = References(f) + d[f],
           \A f \in FCB_freelist : d[f] = 0
    PROVE  refcount' \in [FCBs -> Nat] /\ FCB_freelist' \subseteq FCBs /\ StreamReferences'
<1>1. /\ refcount \in [FCBs -> Nat] /\ FCB_freelist \subseteq FCBs /\ StreamReferences
  BY DEF ProcessInv, Files
<1>2. /\ refcount' = counts
      /\ FCB_freelist' = FCB_freelist \cup {f \in FCBs : refcount[f] > 0 /\ counts[f] = 0}
  BY DEF FCB_counts
<1>3. ASSUME NEW f \in FCBs
      PROVE  /\ counts[f] \in Nat
             /\ IF f \in FCB_freelist' THEN References(f)' = 0
                ELSE References(f)' > 0 /\ counts[f] = References(f)'
  <2>1. References(f) \in Nat /\ References(f)' \in Nat
    BY ReferencesAre, ReferencesAreNext
  <2>2. counts[f] = refcount[f] + d[f] /\ References(f)' = References(f) + d[f] /\ refcount[f] \in Nat /\ d[f] \in Int
    BY <1>1
  <2>3. CASE f \in FCB_freelist
    <3>1. References(f) = 0 /\ d[f] = 0
      BY <1>1, <2>3 DEF StreamReferences
    <3> QED BY <1>2, <2>2, <2>3, <3>1
  <2>4. CASE f \notin FCB_freelist
    <3>1. References(f) > 0 /\ refcount[f] = References(f)
      BY <1>1, <2>4 DEF StreamReferences
    <3>2. counts[f] = References(f)'
      BY <2>2, <3>1
    <3>3. f \in FCB_freelist' <=> counts[f] = 0
      BY <1>2, <2>1, <2>4, <3>1
    <3> QED BY <2>1, <3>2, <3>3
  <2> QED BY <2>3, <2>4
<1>4. refcount' \in [FCBs -> Nat]
  BY <1>2, <1>3
<1>5. StreamReferences'
  BY <1>2, <1>3 DEF StreamReferences
<1> QED BY <1>1, <1>2, <1>4, <1>5

(* A stream that is free is in no table and is not being read.             *)
LEMMA FreeIsUnused ==
    ASSUME ProcessInv, NEW f \in FCB_freelist
    PROVE  Points(FIDT, f) = {} /\ Readers(f) = {} /\ \A p \in Pids : PointsOf(FIDT, p, f) = {}
<1>1. References(f) = 0
  BY DEF ProcessInv, Files, StreamReferences
<1>2. Cardinality(Points(FIDT, f)) = 0 /\ Cardinality(Readers(f)) = 0
  BY <1>1, ReferencesAre, ReadersFinite, TablesFinite
<1>3. Points(FIDT, f) = {} /\ Readers(f) = {}
  BY <1>2, ReadersFinite, TablesFinite, FS_EmptySet
<1>4. ASSUME NEW p \in Pids, NEW fd \in PointsOf(FIDT, p, f) PROVE FALSE
  <2>1. <<p, fd>> \in Points(FIDT, f)
    BY DEF Points, PointsOf
  <2> QED BY <1>3, <2>1
<1> QED BY <1>3, <1>4

(* The steps that do not touch the streams.                                *)
SameReaders == \A x \in Threads : /\ pc'[x] = "read" <=> pc[x] = "read"
                                  /\ pc[x] = "read" => arg'[x] = arg[x]

LEMMA ReadersKept ==
    ASSUME SameReaders, NEW f
    PROVE  Readers(f)' = Readers(f)
BY DEF SameReaders, Readers

LEMMA EntriesAre ==
    ASSUME NEW p \in Pids, NEW f
    PROVE  Entries(p, f) = Cardinality(PointsOf(FIDT, p, f)) /\ Entries(p, f) \in Nat
<1>1. Entries(p, f) = Cardinality(PointsOf(FIDT, p, f))
  BY DEF Entries, PointsOf
<1> QED BY <1>1, TablesFinite

(* A table without files points to no stream.                              *)
LEMMA NoFilesPoint ==
    ASSUME NEW F, NEW p \in Pids, F[p] = NoFiles, NEW f \in FCBs
    PROVE  PointsOf(F, p, f) = {} /\ Cardinality(PointsOf(F, p, f)) = 0
<1>1. f # NULL
  BY StreamsAssumption
<1>2. PointsOf(F, p, f) = {}
  BY <1>1 DEF PointsOf, NoFiles
<1> QED BY <1>2, FS_EmptySet

LEMMA FilesExec ==
    ASSUME ProcessInv, NEW t \in Threads, NEW u \in Threads, sys_Exec(t, u)
    PROVE  Files'
<1>1. PICK p, child : p = owner_pcb[t] /\ child = pcb_freelist
  OBVIOUS
<1>2. /\ p \in Pids /\ pstate[p] = "ALIVE" /\ child \in Pids /\ pstate[child] = "FREE"
  BY <1>1, ExecFacts
<1>3. /\ pstate' = [pstate EXCEPT ![child] = "ALIVE"]
      /\ InheritFiles(p, child) /\ NewThread(u, child) /\ arg' = arg
  BY <1>1 DEF sys_Exec
<1>4. /\ Files /\ pstate \in [Pids -> Words]
  BY DEF ProcessInv, Types
<1>5. /\ FIDT \in [Pids -> [Fids -> FCBs \cup {NULL}]] /\ refcount \in [FCBs -> Nat]
      /\ FIDT[child] = NoFiles
      /\ \A x \in Threads : pc[x] = "read" => arg[x] \in FCBs
  BY <1>2, <1>4 DEF Files
<1>6. FIDT' = [FIDT EXCEPT ![child] = FIDT[p]]
  BY <1>3 DEF InheritFiles
<1>7. SameReaders
  <2>1. /\ \A x \in Threads \ {u} : pc'[x] = pc[x]
        /\ pc'[u] = "user" /\ ~ Alive(u)
    BY <1>2, <1>3, LiveNew
  <2> QED BY <1>3, <2>1 DEF SameReaders, Alive, Dead
<1> DEFINE d == [f \in FCBs |-> Entries(p, f)]
           counts == [f \in FCBs |-> refcount[f] + Entries(p, f)]
<1>8. \A f \in FCBs : Entries(p, f) = Cardinality(PointsOf(FIDT, p, f)) /\ Entries(p, f) \in Nat
  BY <1>2, EntriesAre
<1>9. d \in [FCBs -> Int] /\ counts \in [FCBs -> Int] /\ FCB_counts(counts)
      /\ \A f \in FCBs : d[f] = Entries(p, f) /\ counts[f] = refcount[f] + d[f]
  BY <1>3, <1>5, <1>8 DEF InheritFiles
<1> HIDE DEF d, counts
<1>10. ASSUME NEW f \in FCBs PROVE References(f)' = References(f) + d[f]
  <2>1. PointsOf(FIDT', child, f) = PointsOf(FIDT, p, f)
    BY <1>2, <1>5, <1>6 DEF PointsOf
  <2>2. Cardinality(PointsOf(FIDT, child, f)) = 0
    BY <1>2, <1>5, NoFilesPoint
  <2>3. \A q \in Pids \ {child} : FIDT'[q] = FIDT[q]
    BY <1>5, <1>6
  <2>4. Cardinality(Points(FIDT', f))
          = Cardinality(Points(FIDT, f)) - Cardinality(PointsOf(FIDT, child, f)) + Cardinality(PointsOf(FIDT', child, f))
    BY <1>2, <2>3, TableReplaced
  <2>5. Cardinality(Points(FIDT, f)) \in Nat
    BY TablesFinite
  <2>6. Cardinality(Points(FIDT', f)) = Cardinality(Points(FIDT, f)) + d[f]
    BY <1>8, <1>9, <2>1, <2>2, <2>4, <2>5
  <2>7. Readers(f)' = Readers(f) /\ Cardinality(Readers(f)) \in Nat
    BY <1>7, ReadersKept, ReadersFinite
  <2>8. d[f] \in Nat
    BY <1>8, <1>9
  <2> QED BY <2>5, <2>6, <2>7, <2>8, ReferencesAre, ReferencesAreNext
<1>11. \A f \in FCB_freelist : d[f] = 0
  <2>1. \A f \in FCB_freelist : f \in FCBs /\ PointsOf(FIDT, p, f) = {}
    BY <1>2, <1>4, FreeIsUnused DEF Files
  <2>2. \A f \in FCB_freelist : Entries(p, f) = 0
    BY <1>8, <2>1, FS_EmptySet
  <2> QED BY <1>9, <2>1, <2>2
<1>12. refcount' \in [FCBs -> Nat] /\ FCB_freelist' \subseteq FCBs /\ StreamReferences'
  BY <1>9, <1>10, <1>11, CountsKept
<1>13. FIDT' \in [Pids -> [Fids -> FCBs \cup {NULL}]]
  BY <1>2, <1>5, <1>6
<1>14. \A q \in Pids : pstate'[q] # "ALIVE" => FIDT'[q] = NoFiles
  BY <1>2, <1>3, <1>4, <1>5, <1>6 DEF Files
<1>15. \A x \in Threads : pc'[x] = "read" => arg'[x] \in FCBs
  BY <1>5, <1>7 DEF SameReaders
<1> QED BY <1>12, <1>13, <1>14, <1>15 DEF Files

LEMMA FilesEnds ==
    ASSUME ProcessInv, NEW t \in Threads, Exits(t), LastThread(t), Ends(owner_pcb[t])
    PROVE  Files'
<1>1. PICK p : p = owner_pcb[t]
  OBVIOUS
<1>2. p \in Pids /\ pstate' = [pstate EXCEPT ![p] = "ZOMBIE"] /\ CloseFiles(p) /\ arg' = arg
  BY <1>1 DEF Ends, Exits, sys_ThreadExit
<1>4. /\ Files /\ pstate \in [Pids -> Words]
  BY DEF ProcessInv, Types
<1>5. /\ FIDT \in [Pids -> [Fids -> FCBs \cup {NULL}]] /\ refcount \in [FCBs -> Nat]
      /\ \A x \in Threads : pc[x] = "read" => arg[x] \in FCBs
  BY <1>4 DEF Files
<1>6. FIDT' = [FIDT EXCEPT ![p] = NoFiles]
  BY <1>2 DEF CloseFiles
<1>7. SameReaders
  <2>1. /\ \A x \in Threads \ {t} : pc'[x] = pc[x]
        /\ pc'[t] = "gone" /\ pc[t] # "read"
    BY LiveExits DEF Exits
  <2> QED BY <1>2, <2>1 DEF SameReaders
<1> DEFINE d == [f \in FCBs |-> 0 - Entries(p, f)]
           counts == [f \in FCBs |-> refcount[f] - Entries(p, f)]
<1>8. \A f \in FCBs : Entries(p, f) = Cardinality(PointsOf(FIDT, p, f)) /\ Entries(p, f) \in Nat
  BY <1>2, EntriesAre
<1>9. d \in [FCBs -> Int] /\ counts \in [FCBs -> Int] /\ FCB_counts(counts)
      /\ \A f \in FCBs : d[f] = 0 - Entries(p, f) /\ counts[f] = refcount[f] + d[f]
  BY <1>2, <1>5, <1>8 DEF CloseFiles
<1> HIDE DEF d, counts
<1>10. ASSUME NEW f \in FCBs PROVE References(f)' = References(f) + d[f]
  <2>1. FIDT'[p] = NoFiles
    BY <1>2, <1>5, <1>6
  <2>2. Cardinality(PointsOf(FIDT', p, f)) = 0
    BY <1>2, <2>1, NoFilesPoint
  <2>3. \A q \in Pids \ {p} : FIDT'[q] = FIDT[q]
    BY <1>5, <1>6
  <2>4. Cardinality(Points(FIDT', f))
          = Cardinality(Points(FIDT, f)) - Cardinality(PointsOf(FIDT, p, f)) + Cardinality(PointsOf(FIDT', p, f))
    BY <1>2, <2>3, TableReplaced
  <2>5. Cardinality(Points(FIDT, f)) \in Nat
    BY TablesFinite
  <2>6. Cardinality(Points(FIDT', f)) = Cardinality(Points(FIDT, f)) + d[f]
    BY <1>8, <1>9, <2>2, <2>4, <2>5
  <2>7. Readers(f)' = Readers(f) /\ Cardinality(Readers(f)) \in Nat
    BY <1>7, ReadersKept, ReadersFinite
  <2>8. d[f] \in Int
    BY <1>9
  <2> QED BY <2>5, <2>6, <2>7, <2>8, ReferencesAre, ReferencesAreNext
<1>11. \A f \in FCB_freelist : d[f] = 0
  <2>1. \A f \in FCB_freelist : f \in FCBs /\ PointsOf(FIDT, p, f) = {}
    BY <1>2, <1>4, FreeIsUnused DEF Files
  <2>2. \A f \in FCB_freelist : Entries(p, f) = 0
    BY <1>8, <2>1, FS_EmptySet
  <2> QED BY <1>9, <2>1, <2>2
<1>12. refcount' \in [FCBs -> Nat] /\ FCB_freelist' \subseteq FCBs /\ StreamReferences'
  BY <1>9, <1>10, <1>11, CountsKept
<1>13. FIDT' \in [Pids -> [Fids -> FCBs \cup {NULL}]]
  BY <1>2, <1>5, <1>6 DEF NoFiles
<1>14. \A q \in Pids : pstate'[q] # "ALIVE" => FIDT'[q] = NoFiles
  BY <1>2, <1>4, <1>5, <1>6 DEF Files
<1>15. \A x \in Threads : pc'[x] = "read" => arg'[x] \in FCBs
  BY <1>5, <1>7 DEF SameReaders
<1> QED BY <1>12, <1>13, <1>14, <1>15 DEF Files

LEMMA EntryStep ==
    ASSUME ProcessInv, SameReaders, NEW p \in Pids, NEW fd \in Fids, NEW g, NEW old,
           SetsEntry(FIDT, FIDT', p, fd, g, old), NEW f \in FCBs
    PROVE  References(f)' = References(f) + One(f, g) - One(f, old)
<1>1. FIDT \in [Pids -> [Fids -> FCBs \cup {NULL}]]
  BY DEF ProcessInv, Files
<1>2. PICK F, G : F = FIDT /\ G = FIDT'
  OBVIOUS
<1>4. Cardinality(Points(G, f)) = Cardinality(Points(F, f)) + One(f, g) - One(f, old)
  <2>1. F \in [Pids -> [Fids -> FCBs \cup {NULL}]] /\ SetsEntry(F, G, p, fd, g, old)
    BY <1>1, <1>2
  <2> QED BY <2>1, EntryReplaced
<1>5. Cardinality(Points(FIDT', f)) = Cardinality(Points(FIDT, f)) + One(f, g) - One(f, old)
  BY <1>2, <1>4
<1>6. One(f, g) \in Int /\ One(f, old) \in Int
  BY DEF One
<1>3. Readers(f)' = Readers(f) /\ Cardinality(Readers(f)) \in Nat /\ Cardinality(Points(FIDT, f)) \in Nat
  BY ReadersKept, ReadersFinite, TablesFinite
<1>7. References(f)' = Cardinality(Points(FIDT', f)) + Cardinality(Readers(f))
  BY <1>3, ReferencesAreNext
<1> QED BY <1>3, <1>5, <1>6, <1>7, ReferencesAre

LEMMA FilesOpen ==
    ASSUME ProcessInv, SameReaders, NEW p \in Pids, NEW opened, open_stream(p, opened)
    PROVE  /\ FIDT' \in [Pids -> [Fids -> FCBs \cup {NULL}]]
           /\ refcount' \in [FCBs -> Nat] /\ FCB_freelist' \subseteq FCBs /\ StreamReferences'
<1>1. /\ FIDT \in [Pids -> [Fids -> FCBs \cup {NULL}]] /\ refcount \in [FCBs -> Nat]
      /\ FCB_freelist \subseteq FCBs /\ StreamReferences
  BY DEF ProcessInv, Files
<1>2. PICK g \in FCB_freelist, fd \in Fids :
        /\ FIDT[p][fd] = NULL
        /\ FIDT' = IF opened THEN [FIDT EXCEPT ![p][fd] = g] ELSE FIDT
        /\ refcount' = [refcount EXCEPT ![g] = 1]
        /\ FCB_freelist' = IF opened THEN FCB_freelist \ {g} ELSE FCB_freelist
  BY DEF open_stream
<1>3. refcount' \in [FCBs -> Nat] /\ FCB_freelist' \subseteq FCBs
  BY <1>1, <1>2
<1>4. References(g) = 0 /\ g \in FCBs
  BY <1>1, <1>2 DEF StreamReferences
<1>n. \A f \in FCBs : f # NULL
  BY StreamsAssumption
<1>5. CASE opened
  <2>1. FIDT' = [FIDT EXCEPT ![p][fd] = g] /\ FCB_freelist' = FCB_freelist \ {g}
    BY <1>2, <1>5
  <2>2. \A f \in FCBs : References(f)' = References(f) + One(f, g) - One(f, NULL)
    <3>1. SetsEntry(FIDT, FIDT', p, fd, g, NULL)
      BY <1>2, <2>1 DEF SetsEntry
    <3> QED BY <3>1, EntryStep
  <2>3. \A f \in FCBs : References(f)' = IF f = g THEN 1 ELSE References(f)
    <3>1. \A f \in FCBs : References(f) \in Nat
      BY ReferencesAre
    <3> QED BY <1>4, <1>n, <2>2, <3>1 DEF One
  <2>4. ASSUME NEW f \in FCBs
        PROVE  IF f \in FCB_freelist' THEN References(f)' = 0
               ELSE References(f)' > 0 /\ refcount'[f] = References(f)'
    <3>1. CASE f = g
      <4>1. f \notin FCB_freelist' /\ refcount'[f] = 1 /\ References(f)' = 1
        BY <1>1, <1>2, <2>1, <2>3, <3>1
      <4> QED BY <4>1
    <3>2. CASE f # g
      <4>1. (f \in FCB_freelist' <=> f \in FCB_freelist) /\ refcount'[f] = refcount[f] /\ References(f)' = References(f)
        BY <1>1, <1>2, <2>1, <2>3, <3>2
      <4> QED BY <1>1, <4>1 DEF StreamReferences
    <3> QED BY <3>1, <3>2
  <2>5. StreamReferences'
    BY <2>4 DEF StreamReferences
  <2>6. FIDT' \in [Pids -> [Fids -> FCBs \cup {NULL}]]
    BY <1>1, <1>4, <2>1
  <2> QED BY <1>3, <2>5, <2>6
<1>6. CASE ~ opened
  <2>1. FIDT' = FIDT /\ FCB_freelist' = FCB_freelist
    BY <1>2, <1>6
  <2>2. \A f \in FCBs : References(f)' = References(f)
    <3>1. \A f : Readers(f)' = Readers(f)
      BY ReadersKept
    <3> QED BY <2>1, <3>1, ReferencesAre, ReferencesAreNext
  <2>3. StreamReferences'
    BY <1>1, <1>2, <2>1, <2>2 DEF StreamReferences
  <2> QED BY <1>1, <1>3, <2>1, <2>3
<1> QED BY <1>5, <1>6

LEMMA FilesClose ==
    ASSUME ProcessInv, SameReaders, NEW p \in Pids, NEW fd \in Fids, sys_Close(p, fd)
    PROVE  /\ FIDT' \in [Pids -> [Fids -> FCBs \cup {NULL}]]
           /\ refcount' \in [FCBs -> Nat] /\ FCB_freelist' \subseteq FCBs /\ StreamReferences'
<1>1. /\ FIDT \in [Pids -> [Fids -> FCBs \cup {NULL}]] /\ refcount \in [FCBs -> Nat]
      /\ FCB_freelist \subseteq FCBs
  BY DEF ProcessInv, Files
<1>2. PICK old : old = FIDT[p][fd]
  OBVIOUS
<1>3. old \in FCBs /\ FIDT' = [FIDT EXCEPT ![p][fd] = NULL] /\ FCB_decref(old)
  BY <1>1, <1>2 DEF sys_Close
<1> DEFINE d == [f \in FCBs |-> IF f = old THEN 0 - 1 ELSE 0]
           counts == [refcount EXCEPT ![old] = @ - 1]
<1>4. d \in [FCBs -> Int] /\ counts \in [FCBs -> Int] /\ \A f \in FCBs : counts[f] = refcount[f] + d[f]
  BY <1>1, <1>3
<1>5. FCB_counts(counts)
  BY <1>3 DEF FCB_decref
<1>6. \A f \in FCBs : References(f)' = References(f) + d[f]
  <2>1. \A f \in FCBs : References(f)' = References(f) + One(f, NULL) - One(f, old)
    <3>1. SetsEntry(FIDT, FIDT', p, fd, NULL, old)
      BY <1>2, <1>3 DEF SetsEntry
    <3> QED BY <3>1, EntryStep
  <2>2. \A f \in FCBs : f # NULL /\ References(f) \in Nat
    BY StreamsAssumption, ReferencesAre
  <2> QED BY <2>1, <2>2 DEF One
<1>7. \A f \in FCB_freelist : d[f] = 0
  <2>1. \A f \in FCB_freelist : f \in FCBs /\ PointsOf(FIDT, p, f) = {}
    BY <1>1, FreeIsUnused
  <2>2. old \notin FCB_freelist
    BY <1>2, <2>1 DEF PointsOf
  <2> QED BY <2>1, <2>2
<1> HIDE DEF d, counts
<1>8. refcount' \in [FCBs -> Nat] /\ FCB_freelist' \subseteq FCBs /\ StreamReferences'
  BY <1>4, <1>5, <1>6, <1>7, CountsKept
<1>9. FIDT' \in [Pids -> [Fids -> FCBs \cup {NULL}]]
  BY <1>1, <1>3
<1> QED BY <1>8, <1>9

LEMMA FilesDup2 ==
    ASSUME ProcessInv, SameReaders, NEW p \in Pids, NEW oldfd \in Fids, NEW newfd \in Fids,
           sys_Dup2(p, oldfd, newfd)
    PROVE  /\ FIDT' \in [Pids -> [Fids -> FCBs \cup {NULL}]]
           /\ refcount' \in [FCBs -> Nat] /\ FCB_freelist' \subseteq FCBs /\ StreamReferences'
<1>1. /\ FIDT \in [Pids -> [Fids -> FCBs \cup {NULL}]] /\ refcount \in [FCBs -> Nat]
      /\ FCB_freelist \subseteq FCBs
  BY DEF ProcessInv, Files
<1>2. PICK old, new : old = FIDT[p][oldfd] /\ new = FIDT[p][newfd]
  OBVIOUS
<1> DEFINE d == [f \in FCBs |-> (IF f = old THEN 1 ELSE 0) - (IF f = new THEN 1 ELSE 0)]
           counts == [f \in FCBs |-> refcount[f] + (IF f = old THEN 1 ELSE 0) - (IF f = new THEN 1 ELSE 0)]
<1>3. old \in FCBs /\ FIDT' = [FIDT EXCEPT ![p][newfd] = old] /\ FCB_counts(counts)
  BY <1>1, <1>2 DEF sys_Dup2
<1>4. d \in [FCBs -> Int] /\ counts \in [FCBs -> Int] /\ \A f \in FCBs : counts[f] = refcount[f] + d[f]
  BY <1>1
<1>6. \A f \in FCBs : References(f)' = References(f) + d[f]
  <2>1. \A f \in FCBs : References(f)' = References(f) + One(f, old) - One(f, new)
    <3>1. SetsEntry(FIDT, FIDT', p, newfd, old, new)
      BY <1>2, <1>3 DEF SetsEntry
    <3> QED BY <3>1, EntryStep
  <2>2. \A f \in FCBs : References(f) \in Nat
    BY ReferencesAre
  <2> QED BY <2>1, <2>2 DEF One
<1>7. \A f \in FCB_freelist : d[f] = 0
  <2>1. \A f \in FCB_freelist : f \in FCBs /\ PointsOf(FIDT, p, f) = {}
    BY <1>1, FreeIsUnused
  <2>2. old \notin FCB_freelist /\ new \notin FCB_freelist
    BY <1>2, <2>1 DEF PointsOf
  <2> QED BY <2>1, <2>2
<1> HIDE DEF d, counts
<1>8. refcount' \in [FCBs -> Nat] /\ FCB_freelist' \subseteq FCBs /\ StreamReferences'
  BY <1>3, <1>4, <1>6, <1>7, CountsKept
<1>9. FIDT' \in [Pids -> [Fids -> FCBs \cup {NULL}]]
  BY <1>1, <1>3
<1> QED BY <1>8, <1>9

LEMMA FilesCall ==
    ASSUME ProcessInv, NEW t \in Threads, StreamCall(t)
    PROVE  Files'
<1>1. UNCHANGED <<pc, arg, pstate>> /\ pc[t] = "user"
  BY DEF StreamCall, tcbVars, Calls, Runs
<1>2. PICK p : p = owner_pcb[t]
  OBVIOUS
<1>3. p \in Pids /\ pstate[p] = "ALIVE"
  <2>1. Alive(t)
    BY <1>1 DEF Alive, Dead
  <2> QED BY <1>2, <2>1, OwnerAlive
<1>4. SameReaders
  BY <1>1 DEF SameReaders
<1>5. /\ FIDT' \in [Pids -> [Fids -> FCBs \cup {NULL}]]
      /\ refcount' \in [FCBs -> Nat] /\ FCB_freelist' \subseteq FCBs /\ StreamReferences'
  BY <1>2, <1>3, <1>4, FilesOpen, FilesClose, FilesDup2 DEF StreamCall
<1>6. \A q \in Pids \ {p} : FIDT'[q] = FIDT[q]
  <2>1. FIDT' = FIDT \/ \E fd \in Fids : \E g : FIDT' = [FIDT EXCEPT ![p][fd] = g]
    BY <1>2 DEF StreamCall, open_stream, sys_Close, sys_Dup2
  <2>2. FIDT \in [Pids -> [Fids -> FCBs \cup {NULL}]]
    BY DEF ProcessInv, Files
  <2> QED BY <2>1, <2>2
<1>7. Files
  BY DEF ProcessInv
<1> QED BY <1>1, <1>3, <1>5, <1>6, <1>7 DEF Files

LEMMA FilesRead ==
    ASSUME ProcessInv, NEW t \in Threads, NEW fd \in Fids, sys_Read(t, fd)
    PROVE  Files'
<1>1. /\ FIDT \in [Pids -> [Fids -> FCBs \cup {NULL}]] /\ refcount \in [FCBs -> Nat]
      /\ FCB_freelist \subseteq FCBs /\ Files
      /\ pc \in [Threads -> Places] /\ arg \in [Threads -> Args] /\ owner_pcb[t] \in Pids
  BY DEF ProcessInv, Files, Types, Args
<1>2. PICK g : g = FIDT[owner_pcb[t]][fd]
  OBVIOUS
<1>3. /\ g \in FCBs /\ pc[t] = "user" /\ FCB_incref(g)
      /\ pc' = [pc EXCEPT ![t] = "read"] /\ arg' = [arg EXCEPT ![t] = g]
      /\ UNCHANGED <<FIDT, pstate>>
  BY <1>1, <1>2 DEF sys_Read, ReadHolds, Calls, Runs, Go
<1> DEFINE d == [f \in FCBs |-> IF f = g THEN 1 ELSE 0]
           counts == [refcount EXCEPT ![g] = @ + 1]
<1>4. d \in [FCBs -> Int] /\ counts \in [FCBs -> Int] /\ \A f \in FCBs : counts[f] = refcount[f] + d[f]
  BY <1>1, <1>3
<1>5. FCB_counts(counts)
  BY <1>3 DEF FCB_incref
<1>6. ASSUME NEW f \in FCBs PROVE References(f)' = References(f) + d[f]
  <2>1. Readers(f)' = IF f = g THEN Readers(f) \cup {t} ELSE Readers(f)
    BY <1>1, <1>3 DEF Readers
  <2>2. t \notin Readers(f) /\ IsFiniteSet(Readers(f)) /\ Cardinality(Readers(f)) \in Nat
    BY <1>3, ReadersFinite DEF Readers
  <2>3. Cardinality(Readers(f) \cup {t}) = Cardinality(Readers(f)) + 1
    BY <2>2, FS_AddElement
  <2>4. Cardinality(Readers(f)') = Cardinality(Readers(f)) + d[f]
    BY <2>1, <2>2, <2>3
  <2>5. Cardinality(Points(FIDT', f)) = Cardinality(Points(FIDT, f)) /\ Cardinality(Points(FIDT, f)) \in Nat
    BY <1>3, TablesFinite
  <2>6. d[f] \in Int
    OBVIOUS
  <2> HIDE DEF d
  <2> QED BY <2>2, <2>4, <2>5, <2>6, ReferencesAre, ReferencesAreNext
<1>7. \A f \in FCB_freelist : d[f] = 0
  <2>1. \A f \in FCB_freelist : f \in FCBs /\ PointsOf(FIDT, owner_pcb[t], f) = {}
    BY <1>1, FreeIsUnused
  <2>2. g \notin FCB_freelist
    BY <1>2, <2>1 DEF PointsOf
  <2> QED BY <2>1, <2>2
<1> HIDE DEF d, counts
<1>8. refcount' \in [FCBs -> Nat] /\ FCB_freelist' \subseteq FCBs /\ StreamReferences'
  BY <1>4, <1>5, <1>6, <1>7, CountsKept
<1>9. \A x \in Threads : pc'[x] = "read" => arg'[x] \in FCBs
  BY <1>1, <1>3 DEF Files
<1> QED BY <1>1, <1>3, <1>8, <1>9 DEF Files

LEMMA FilesReadEnds ==
    ASSUME ProcessInv, NEW t \in Threads, sys_Read_ends(t)
    PROVE  Files'
<1>1. /\ FIDT \in [Pids -> [Fids -> FCBs \cup {NULL}]] /\ refcount \in [FCBs -> Nat]
      /\ FCB_freelist \subseteq FCBs /\ Files
      /\ pc \in [Threads -> Places]
  BY DEF ProcessInv, Files, Types
<1>2. PICK g : g = arg[t]
  OBVIOUS
<1>3. /\ g \in FCBs /\ pc[t] = "read" /\ FCB_decref(g)
      /\ pc' = [pc EXCEPT ![t] = "user"] /\ UNCHANGED <<FIDT, pstate, arg>>
  BY <1>1, <1>2 DEF sys_Read_ends, Runs, Go, Files
<1> DEFINE d == [f \in FCBs |-> IF f = g THEN 0 - 1 ELSE 0]
           counts == [refcount EXCEPT ![g] = @ - 1]
<1>4. d \in [FCBs -> Int] /\ counts \in [FCBs -> Int] /\ \A f \in FCBs : counts[f] = refcount[f] + d[f]
  BY <1>1, <1>3
<1>5. FCB_counts(counts)
  BY <1>3 DEF FCB_decref
<1>6. ASSUME NEW f \in FCBs PROVE References(f)' = References(f) + d[f]
  <2>1. Readers(f)' = IF f = g THEN Readers(f) \ {t} ELSE Readers(f)
    BY <1>1, <1>2, <1>3 DEF Readers
  <2>2. (f = g => t \in Readers(f)) /\ IsFiniteSet(Readers(f)) /\ Cardinality(Readers(f)) \in Nat
    BY <1>2, <1>3, ReadersFinite DEF Readers
  <2>3. f = g => Cardinality(Readers(f) \ {t}) = Cardinality(Readers(f)) - 1
    BY <2>2, FS_RemoveElement
  <2>4. Cardinality(Readers(f)') = Cardinality(Readers(f)) + d[f]
    BY <2>1, <2>2, <2>3
  <2>5. Cardinality(Points(FIDT', f)) = Cardinality(Points(FIDT, f)) /\ Cardinality(Points(FIDT, f)) \in Nat
    BY <1>3, TablesFinite
  <2>6. d[f] \in Int
    OBVIOUS
  <2> HIDE DEF d
  <2> QED BY <2>2, <2>4, <2>5, <2>6, ReferencesAre, ReferencesAreNext
<1>7. \A f \in FCB_freelist : d[f] = 0
  <2>1. \A f \in FCB_freelist : f \in FCBs /\ Readers(f) = {}
    BY <1>1, FreeIsUnused
  <2>2. g \notin FCB_freelist
    BY <1>2, <1>3, <2>1 DEF Readers
  <2> QED BY <2>1, <2>2
<1> HIDE DEF d, counts
<1>8. refcount' \in [FCBs -> Nat] /\ FCB_freelist' \subseteq FCBs /\ StreamReferences'
  BY <1>4, <1>5, <1>6, <1>7, CountsKept
<1>9. \A x \in Threads : pc'[x] = "read" => arg'[x] \in FCBs
  BY <1>1, <1>3 DEF Files
<1> QED BY <1>1, <1>3, <1>8, <1>9 DEF Files

LEMMA FilesSame ==
    ASSUME ProcessInv, UNCHANGED streamVars, SameReaders,
           \A p \in Pids : pstate'[p] = "ALIVE" <=> pstate[p] = "ALIVE"
    PROVE  Files'
<1>1. UNCHANGED <<FIDT, refcount, FCB_freelist>> /\ Files
  BY DEF streamVars, ProcessInv
<1>2. \A f \in FCBs : References(f)' = References(f)
  <2>1. \A f : Readers(f)' = Readers(f)
    BY ReadersKept
  <2> QED BY <1>1, <2>1, ReferencesAre, ReferencesAreNext
<1>3. StreamReferences'
  BY <1>1, <1>2 DEF Files, StreamReferences
<1>4. \A x \in Threads : pc'[x] = "read" => arg'[x] \in FCBs
  BY <1>1 DEF SameReaders, Files
<1> QED BY <1>1, <1>3, <1>4 DEF Files

LEMMA MovesReader ==
    ASSUME ProcessInv, NEW t \in Threads, NEW place, Go(t, place), pc[t] # "read", place # "read",
           \A u \in Threads \ {t} : arg'[u] = arg[u]
    PROVE  SameReaders
<1>1. pc \in [Threads -> Places]
  BY DEF ProcessInv, Types
<1>2. \A u \in Threads : pc'[u] = IF u = t THEN place ELSE pc[u]
  BY <1>1 DEF Go
<1> QED BY <1>2 DEF SameReaders

LEMMA FilesStep ==
    ASSUME ProcessInv, Disciplined, Next
    PROVE  Files'
<1>t. arg \in [Threads -> Args] /\ pstate \in [Pids -> Words]
  BY DEF ProcessInv, Types, Args
<1>1. ASSUME NEW t \in Threads, NEW u \in Threads, CreatesThread(t, u) PROVE Files'
  <2>1. Go(u, "user") /\ pc[u] # "read" /\ UNCHANGED <<arg, pstate, streamVars>>
    BY <1>1 DEF CreatesThread, sys_CreateThread, NewThread, Unused, Dead
  <2> QED BY <2>1, MovesReader, FilesSame
<1>2. ASSUME NEW t \in Threads, NEW u \in Threads, JoinsThread(t, u) PROVE Files'
  <2>1. /\ Go(t, "join") /\ pc[t] # "read" /\ UNCHANGED <<pstate, streamVars>>
        /\ arg' = [arg EXCEPT ![t] = u]
    BY <1>2 DEF JoinsThread, CallThreadJoin, Calls, Runs
  <2>2. \A x \in Threads \ {t} : arg'[x] = arg[x]
    BY <1>t, <2>1
  <2> QED BY <2>1, <2>2, MovesReader, FilesSame
<1>3. ASSUME UNCHANGED <<pc, arg, pstate, streamVars>> PROVE Files'
  <2>1. SameReaders
    BY <1>3 DEF SameReaders
  <2> QED BY <1>3, <2>1, FilesSame
<1>4. ASSUME NEW t \in Threads, NEW u \in Threads, DetachesThread(t, u) PROVE Files'
  BY <1>3, <1>4 DEF DetachesThread, sys_ThreadDetach
<1>5. ASSUME NEW t \in Threads, NEW place, Blocks(t, place) PROVE Files'
  <2>1. /\ Go(t, place) /\ pc[t] # "read" /\ place # "read" /\ UNCHANGED <<pstate, streamVars>>
        /\ \A x \in Threads \ {t} : arg'[x] = arg[x]
    BY <1>5 DEF Blocks
  <2> QED BY <2>1, MovesReader, FilesSame
<1>6. ASSUME NEW t \in Threads, NEW c, NEW next, Reaps(t, c, next) PROVE Files'
  <2>1. /\ Go(t, next) /\ pc[t] # "read" /\ next # "read" /\ UNCHANGED streamVars
        /\ \A x \in Threads \ {t} : arg'[x] = arg[x]
    BY <1>6 DEF Reaps
  <2>2. \A p \in Pids : pstate'[p] = "ALIVE" <=> pstate[p] = "ALIVE"
    BY <1>6, <1>t DEF Reaps, cleanup_zombie, release_PCB
  <2> QED BY <2>1, <2>2, MovesReader, FilesSame
<1>7. ASSUME NEW t \in Threads, Exits(t) PROVE Files'
  <2>1. CASE LastThread(t)
    BY <1>7, <2>1, ExitKinds, FilesEnds
  <2>2. CASE ~ LastThread(t)
    <3>1. /\ Go(t, "gone") /\ pc[t] # "read" /\ UNCHANGED <<arg, pstate, streamVars>>
      BY <1>7, <2>2, ExitKinds DEF Exits, sys_ThreadExit
    <3> QED BY <3>1, MovesReader, FilesSame
  <2> QED BY <2>1, <2>2
<1>8. ASSUME NEW t \in Threads, InitEnds(t) PROVE Files'
  <2>1. /\ Go(t, "exitloop") /\ pc[t] # "read" /\ UNCHANGED <<arg, pstate, streamVars>>
    BY <1>8 DEF InitEnds, sys_Exit, Calls, Runs
  <2> QED BY <2>1, MovesReader, FilesSame
<1>9. ASSUME NEW t \in Threads, sys_ThreadJoin(t) PROVE Files'
  <2>1. /\ Go(t, "user") \/ Go(t, "joining")
        /\ pc[t] # "read" /\ UNCHANGED <<arg, pstate, streamVars>>
    BY <1>9 DEF sys_ThreadJoin, Runs
  <2> QED BY <2>1, MovesReader, FilesSame
<1>10. ASSUME NEW t \in Threads, JoinWakes(t) PROVE Files'
  <2>1. /\ Go(t, "user") \/ UNCHANGED pc
        /\ pc[t] # "read" /\ UNCHANGED <<arg, pstate, streamVars>>
    BY <1>10 DEF JoinWakes
  <2> QED BY <1>3, <2>1, MovesReader, FilesSame
<1>11. ASSUME serial_rx_handler PROVE Files'
  BY <1>3, <1>11 DEF serial_rx_handler
<1>12. ASSUME Finished PROVE Files'
  BY <1>3, <1>12 DEF Finished, vars, tcbVars
<1> QED BY <1>1, <1>2, <1>4, <1>5, <1>6, <1>7, <1>8, <1>9, <1>10, <1>11, <1>12, Kinds,
           FilesExec, FilesCall, FilesRead, FilesReadEnds

-----------------------------------------------------------------------------
LEMMA NextProcess == Disciplined /\ ProcessInv /\ [Next]_vars => ProcessInv'
<1> SUFFICES ASSUME Disciplined, ProcessInv, [Next]_vars PROVE ProcessInv'
  OBVIOUS
<1>1. CASE Next
  BY <1>1, TypesStep, TreeStep, RootedStep, FreeListStep, AliveStep, PTCBsStep, InitAloneStep,
     JoinsStep, WaitingStep, FilesStep DEF ProcessInv
<1>2. CASE UNCHANGED vars
  <2>1. UNCHANGED <<pstate, parent, pcb_freelist, children_list, exited_list, process_count>>
    BY <1>2 DEF vars, treeVars
  <2>2. UNCHANGED <<thread_count, thread_list, allocated, exited, detached, ref_count>>
    BY <1>2 DEF vars, ptcbVars
  <2>3. UNCHANGED <<owner_pcb, pc, arg, asleep, tids, created, FIDT, refcount, FCB_freelist>>
    BY <1>2 DEF vars, tcbVars, streamVars
  <2>4. Types'
    BY <2>1, <2>2, <2>3 DEF ProcessInv, Types
  <2>5. Tree' /\ Rooted' /\ FreeList'
    <3>1. Tree'
      BY <2>1 DEF ProcessInv, Tree, Used
    <3>2. Rooted'
      BY <2>1 DEF ProcessInv, Rooted, IsDepth, Used
    <3>3. FreeList'
      BY <2>1 DEF ProcessInv, FreeList, IsFreeList, Link, Used
    <3> QED BY <3>1, <3>2, <3>3
  <2>6. ThreadsKeepProcessAlive' /\ PTCBs' /\ InitAlone'
    <3>1. ThreadsKeepProcessAlive'
      BY <2>1, <2>2, <2>3 DEF ProcessInv, ThreadsKeepProcessAlive, LiveThreads, Alive, Dead
    <3>2. PTCBs' /\ InitAlone'
      BY <2>2, <2>3 DEF ProcessInv, PTCBs, InitAlone, Alive, Dead
    <3> QED BY <3>1, <3>2
  <2>7. Joins' /\ Waiting'
    BY <2>1, <2>2, <2>3 DEF ProcessInv, Joins, Joiners, Waiting, Used
  <2>8. Files'
    <3>1. SameReaders /\ UNCHANGED streamVars
      BY <2>3 DEF SameReaders, streamVars
    <3> QED BY <2>1, <3>1, FilesSame
  <2> QED BY <2>4, <2>5, <2>6, <2>7, <2>8 DEF ProcessInv
<1> QED BY <1>1, <1>2

-----------------------------------------------------------------------------
(* After the boot, the free list holds every PCB but that of init.         *)
LEMMA InitFreeList ==
    ASSUME Init
    PROVE  FreeList
<1>1. MAX_PROC \in Nat /\ MAX_PROC >= 2 /\ 1 \in Pids /\ Pids = 1 .. MAX_PROC - 1
  BY StreamsAssumption, Constants DEF Pids
<1>2. /\ pstate = [p \in Pids |-> IF p = 1 THEN "ALIVE" ELSE "FREE"]
      /\ parent = [NewTree EXCEPT ![1] = NULL] /\ pcb_freelist = NewTree[1] /\ process_count = 2
  BY DEF Init
<1>3. \A p \in Pids : Used(p) <=> p = 1
  BY <1>2 DEF Used
<1>4. \A p \in Pids : NewTree[p] = IF p = MAX_PROC - 1 THEN NULL ELSE p + 1
  BY DEF NewTree
<1>5. \A p \in Pids \ {1} : parent[p] = NewTree[p]
  BY <1>2 DEF NewTree
<1> DEFINE n == MAX_PROC - 2
           s == [i \in 1 .. n |-> i + 1]
<1>6. n \in Nat /\ \A i \in 1 .. n : i + 1 \in Pids \ {1}
  BY <1>1
<1>7. s \in Seq(Pids) /\ Len(s) = n /\ DOMAIN s = 1 .. n /\ \A i \in 1 .. n : s[i] = i + 1
  <2>1. s \in [1 .. n -> Pids]
    BY <1>6
  <2> QED BY <1>6, <2>1
<1> HIDE DEF s
<1>8. IsInjective(s)
  BY <1>6, <1>7 DEF IsInjective
<1>9. \A p \in Pids : Contains(s, p) <=> ~ Used(p)
  <2> SUFFICES ASSUME NEW p \in Pids PROVE Contains(s, p) <=> p # 1
    BY <1>3
  <2>1. CASE p = 1
    BY <1>6, <1>7, <2>1 DEF Contains
  <2>2. CASE p # 1
    <3>1. p - 1 \in 1 .. n /\ (p - 1) + 1 = p
      BY <1>1, <2>2
    <3>2. s[p - 1] = p
      BY <1>7, <3>1
    <3> QED BY <1>7, <2>2, <3>1, <3>2 DEF Contains
  <2> QED BY <2>1, <2>2
<1>10. pcb_freelist = Link(s, 1)
  <2>1. NewTree[1] = IF 1 = MAX_PROC - 1 THEN NULL ELSE 2
    BY <1>1, <1>4
  <2>2. 1 \in 1 .. n <=> 1 # MAX_PROC - 1
    BY <1>1
  <2>3. 1 \in 1 .. n => s[1] = 2
    BY <1>7
  <2> QED BY <1>2, <1>7, <2>1, <2>2, <2>3 DEF Link
<1>11. ASSUME NEW i \in 1 .. Len(s) PROVE parent[s[i]] = Link(s, i + 1)
  <2>1. i \in 1 .. n /\ s[i] = i + 1 /\ i + 1 \in Pids \ {1}
    BY <1>6, <1>7
  <2>2. parent[s[i]] = IF i + 1 = MAX_PROC - 1 THEN NULL ELSE (i + 1) + 1
    BY <1>4, <1>5, <2>1
  <2>3. i + 1 \in 1 .. n <=> i + 1 # MAX_PROC - 1
    BY <1>1, <2>1
  <2>4. i + 1 \in 1 .. n => s[i + 1] = (i + 1) + 1
    BY <1>7
  <2> QED BY <1>7, <2>2, <2>3, <2>4 DEF Link
<1>12. IsFreeList(s)
  BY <1>8, <1>9, <1>10, <1>11 DEF IsFreeList
<1>13. process_count = MAX_PROC - Cardinality({p \in Pids : ~ Used(p)})
  <2>1. {p \in Pids : ~ Used(p)} = Pids \ {1}
    BY <1>3
  <2>2. Cardinality(Pids \ {1}) = Cardinality(Pids) - 1
    BY <1>1, Constants, FS_RemoveElement
  <2>3. Cardinality({p \in Pids : ~ Used(p)}) = (MAX_PROC - 1) - 1
    BY <2>1, <2>2, Constants
  <2>4. 2 = MAX_PROC - ((MAX_PROC - 1) - 1)
    BY <1>1
  <2> QED BY <1>2, <2>3, <2>4
<1> QED BY <1>7, <1>12, <1>13 DEF FreeList

LEMMA InitProcess == Init => ProcessInv
<1> SUFFICES ASSUME Init PROVE ProcessInv
  OBVIOUS
<1>c. 1 \in Pids /\ NULL \notin Pids
  BY Constants
<1>1. PICK main \in Threads :
      /\ pstate = [p \in Pids |-> IF p = 1 THEN "ALIVE" ELSE "FREE"]
      /\ parent = [NewTree EXCEPT ![1] = NULL]
      /\ pcb_freelist = NewTree[1]
      /\ children_list = [p \in Pids |-> {}]
      /\ exited_list = [p \in Pids |-> << >>]
      /\ thread_list = [p \in Pids |-> IF p = 1 THEN {main} ELSE {}]
      /\ thread_count = [p \in Pids |-> IF p = 1 THEN 1 ELSE 0]
      /\ process_count = 2
      /\ owner_pcb = [t \in Threads |-> 1]
      /\ allocated = {main}
      /\ exited = [t \in Threads |-> FALSE]
      /\ detached = [t \in Threads |-> FALSE]
      /\ ref_count = [t \in Threads |-> 0]
      /\ pc = [t \in Threads |-> IF t = main THEN "user" ELSE "none"]
      /\ arg = [t \in Threads |-> NULL]
      /\ asleep = {}
      /\ tids = {}
      /\ created = 0
      /\ initialize_files
  BY DEF Init
<1>2. NewTree \in [Pids -> Pids \cup {NULL}]
  <2>1. \A p \in Pids : p # MAX_PROC - 1 => p + 1 \in Pids
    BY StreamsAssumption DEF Pids
  <2> QED BY <2>1 DEF NewTree
<1>3. Types
  <2>1. parent \in [Pids -> Pids \cup {NULL}] /\ pcb_freelist \in Pids \cup {NULL}
    BY <1>1, <1>2, <1>c
  <2>2. created \in 0 .. MaxCreated
    BY <1>1, ProcessesAssumption
  <2>3. pstate \in [Pids -> Words] /\ pc \in [Threads -> Places]
    BY <1>1 DEF Words, Places
  <2>4. exited_list \in [Pids -> Seq(Pids)]
    BY <1>1
  <2> QED BY <1>1, <1>c, <2>1, <2>2, <2>3, <2>4 DEF Types
<1>u. \A p \in Pids : Used(p) <=> p = 1
  BY <1>1 DEF Used
<1>4. Tree
  <2>1. parent[1] = NULL
    BY <1>1, <1>2, <1>c
  <2>2. \A q \in Pids : IsInjective(exited_list[q]) /\ \A p : ~ Contains(exited_list[q], p)
    BY <1>1 DEF IsInjective, Contains
  <2>3. \A p \in Pids : pstate[p] # "ZOMBIE"
    BY <1>1
  <2>4. \A p, q \in Pids : p \in children_list[q] <=> Used(p) /\ parent[p] = q
    BY <1>1, <1>c, <1>u, <2>1
  <2> QED BY <1>c, <1>u, <2>1, <2>2, <2>3, <2>4 DEF Tree
<1>5. Rooted
  <2> DEFINE d == [p \in Pids |-> IF p = 1 THEN 0 ELSE 1]
  <2>1. d \in [Pids -> Nat] /\ IsDepth(d)
    BY <1>c, <1>u DEF IsDepth
  <2> QED BY <2>1 DEF Rooted
<1>6. FreeList
  BY InitFreeList
<1>a. \A t \in Threads : Alive(t) <=> t = main
  BY <1>1 DEF Alive, Dead
<1>7. ThreadsKeepProcessAlive
  <2> SUFFICES ASSUME NEW p \in Pids
               PROVE  /\ thread_count[p] = Cardinality(LiveThreads(p))
                      /\ pstate[p] = "ALIVE" <=> LiveThreads(p) # {}
    BY DEF ThreadsKeepProcessAlive
  <2>1. LiveThreads(p) = IF p = 1 THEN {main} ELSE {}
    BY <1>1, <1>a DEF LiveThreads
  <2>2. Cardinality({main}) = 1 /\ Cardinality({}) = 0
    BY FS_Singleton, FS_EmptySet
  <2> QED BY <1>1, <2>1, <2>2
<1>8. PTCBs
  BY <1>1, <1>a DEF PTCBs
<1>9. InitAlone
  BY <1>1, <1>a DEF InitAlone
<1>10. Joins
  <2>1. \A u \in Threads : Joiners(u) = {}
    BY <1>1 DEF Joiners
  <2>2. \A u \in Threads : ref_count[u] = Cardinality(Joiners(u))
    BY <1>1, <2>1, FS_EmptySet
  <2> QED BY <1>1, <2>2 DEF Joins
<1>11. Waiting
  BY <1>1 DEF Waiting, WaitPlaces
<1>12. Files
  <2>1. /\ FIDT = [p \in Pids |-> NoFiles] /\ refcount = [f \in FCBs |-> 0] /\ FCB_freelist = FCBs
    BY <1>1 DEF initialize_files
  <2>2. FIDT \in [Pids -> [Fids -> FCBs \cup {NULL}]]
    BY <2>1 DEF NoFiles
  <2>3. ASSUME NEW f \in FCBs PROVE References(f) = 0
    <3>1. Readers(f) = {}
      BY <1>1 DEF Readers
    <3>2. Points(FIDT, f) = {}
      <4>1. \A e \in Pids \X Fids : FIDT[e[1]][e[2]] = NULL
        BY <2>1 DEF NoFiles
      <4> QED BY <4>1, StreamsAssumption DEF Points
    <3>3. Cardinality(Points(FIDT, f)) = 0 /\ Cardinality(Readers(f)) = 0
      BY <3>1, <3>2, FS_EmptySet
    <3> QED BY <3>3, ReferencesAre
  <2>4. StreamReferences
    BY <2>1, <2>3 DEF StreamReferences
  <2>5. \A t \in Threads : pc[t] # "read"
    BY <1>1
  <2> QED BY <2>1, <2>2, <2>4, <2>5 DEF Files
<1> QED BY <1>3, <1>4, <1>5, <1>6, <1>7, <1>8, <1>9, <1>10, <1>11, <1>12 DEF ProcessInv

(* The inductive invariant of the process calls: programs that keep the    *)
(* discipline never leave it, whatever the interleaving of their threads.  *)
THEOREM ProcessInvariant == Disciplined => (Spec => []ProcessInv)
<1> SUFFICES ASSUME Disciplined PROVE Spec => []ProcessInv
  OBVIOUS
<1>1. ProcessInv /\ [Next]_vars => ProcessInv'
  BY NextProcess
<1> QED BY <1>1, InitProcess, PTL DEF Spec

(* thread_count counts the threads of a process, which is alive as long as *)
(* it has one, through CreateThread, ThreadExit and Exit.                  *)
THEOREM ProcessesLiveByThreads == Disciplined => (Spec => []ThreadsKeepProcessAlive)
<1> SUFFICES ASSUME Disciplined PROVE Spec => []ThreadsKeepProcessAlive
  OBVIOUS
<1>1. ProcessInv => ThreadsKeepProcessAlive
  BY DEF ProcessInv
<1> QED BY <1>1, ProcessInvariant, PTL

(* A thread that sleeps in WaitChild or in ThreadJoin has something to     *)
(* wait for: no broadcast of child_exit or exit_cv is missed.              *)
THEOREM ExitsAreSeen == Disciplined => (Spec => []NoMissedExit)
<1> SUFFICES ASSUME Disciplined PROVE Spec => []NoMissedExit
  OBVIOUS
<1>1. ProcessInv => NoMissedExit
  BY DEF ProcessInv, NoMissedExit, Waiting, Joins, Types
<1> QED BY <1>1, ProcessInvariant, PTL

(* The count of an FCB is the number of its references: no stream is       *)
(* closed while a table or a Read refers to it, and none is left open.     *)
THEOREM StreamsAreCounted == Disciplined => (Spec => []StreamReferences)
<1> SUFFICES ASSUME Disciplined PROVE Spec => []StreamReferences
  OBVIOUS
<1>1. ProcessInv => StreamReferences
  BY DEF ProcessInv, Files
<1> QED BY <1>1, ProcessInvariant, PTL

-----------------------------------------------------------------------------
(* The process table.                                                      *)
LEMMA InvTypeOK ==
    ASSUME ProcessInv
    PROVE  TypeOK
<1>1. Types /\ Files
  BY DEF ProcessInv
<1>2. thread_count \in [Pids -> 0 .. Cardinality(Threads)]
  <2> SUFFICES ASSUME NEW p \in Pids PROVE thread_count[p] \in 0 .. Cardinality(Threads)
    BY <1>1 DEF Types
  <2>1. LiveThreads(p) \subseteq Threads
    BY DEF LiveThreads
  <2>2. thread_count[p] = Cardinality(LiveThreads(p))
    BY DEF ProcessInv, ThreadsKeepProcessAlive
  <2> QED BY <2>1, <2>2, FiniteThreads
<1>3. ref_count \in [Threads -> 0 .. Cardinality(Threads)]
  <2> SUFFICES ASSUME NEW u \in Threads PROVE ref_count[u] \in 0 .. Cardinality(Threads)
    BY <1>1 DEF Types
  <2>1. Joiners(u) \subseteq Threads
    BY DEF Joiners
  <2>2. ref_count[u] = Cardinality(Joiners(u))
    BY DEF ProcessInv, Joins
  <2> QED BY <2>1, <2>2, FiniteThreads
<1>4. process_count \in 2 .. MAX_PROC
  <2> DEFINE F == {p \in Pids : ~ Used(p)}
  <2>1. F \in SUBSET (Pids \ {1})
    BY DEF ProcessInv, Tree
  <2>2. IsFiniteSet(Pids \ {1}) /\ Cardinality(Pids \ {1}) = Cardinality(Pids) - 1
    BY Constants, FS_RemoveElement
  <2>3. Cardinality(F) \in Nat /\ Cardinality(F) <= Cardinality(Pids \ {1})
    BY <2>1, <2>2, FS_Subset, FS_CardinalityType
  <2>4. PICK m : m = Cardinality(F)
    OBVIOUS
  <2>5. m \in Nat /\ m <= (MAX_PROC - 1) - 1 /\ MAX_PROC \in Nat
    BY <2>2, <2>3, <2>4, Constants, StreamsAssumption
  <2>6. process_count = MAX_PROC - m
    BY <2>4 DEF ProcessInv, FreeList
  <2> QED BY <2>5, <2>6
<1> QED BY <1>1, <1>2, <1>3, <1>4 DEF TypeOK, Types, Files

LEMMA InvProcessTree ==
    ASSUME ProcessInv
    PROVE  ProcessTree
<1>1. ASSUME NEW p \in Pids, NEW q \in Pids
      PROVE  Cardinality({i \in DOMAIN exited_list[q] : exited_list[q][i] = p})
               = IF pstate[p] = "ZOMBIE" /\ parent[p] = q THEN 1 ELSE 0
  <2> DEFINE e == exited_list[q]
             I == {i \in DOMAIN e : e[i] = p}
  <2>1. /\ e \in Seq(Pids) /\ IsInjective(e)
        /\ Contains(e, p) <=> pstate[p] = "ZOMBIE" /\ parent[p] = q
    BY DEF ProcessInv, Types, Tree
  <2>2. DOMAIN e = 1 .. Len(e)
    BY <2>1
  <2> HIDE DEF e
  <2>3. CASE Contains(e, p)
    <3>1. PICK i \in DOMAIN e : e[i] = p
      BY <2>2, <2>3 DEF Contains
    <3>2. I = {i}
      BY <2>1, <3>1 DEF IsInjective
    <3>3. Cardinality(I) = 1
      BY <3>2, FS_Singleton
    <3> QED BY <2>1, <2>3, <3>3 DEF e
  <2>4. CASE ~ Contains(e, p)
    <3>1. I = {}
      BY <2>2, <2>4 DEF Contains
    <3>2. Cardinality(I) = 0
      BY <3>1, FS_EmptySet
    <3> QED BY <2>1, <2>4, <3>2 DEF e
  <2> QED BY <2>3, <2>4
<1>2. \A p \in Pids \ {1} : Used(p) => parent[p] # NULL /\ pstate[parent[p]] = "ALIVE"
  BY Constants DEF ProcessInv, Tree
<1>3. Used(1) /\ parent[1] = NULL /\ \A p, q \in Pids : p \in children_list[q] <=> Used(p) /\ parent[p] = q
  BY DEF ProcessInv, Tree
<1>4. \A t \in Threads : pc[t] # "spin"
  BY DEF ProcessInv, InitAlone
<1> QED BY <1>1, <1>2, <1>3, <1>4 DEF ProcessTree

(* acquire_PCB, called again and again, returns the members of the list    *)
(* one after the other.                                                    *)
LEMMA ChainIsList ==
    ASSUME ProcessInv, NEW s \in Seq(Pids), IsFreeList(s)
    PROVE  \A n \in Nat : FreeChain[n] = Link(s, n + 1)
<1>1. /\ pcb_freelist = Link(s, 1) /\ \A i \in 1 .. Len(s) : parent[s[i]] = Link(s, i + 1)
      /\ Len(s) \in Nat
  BY DEF IsFreeList
<1>2. NULL \notin Pids
  BY Constants
<1> DEFINE Step(f, n) == IF n = 0 THEN pcb_freelist
                         ELSE IF f[n - 1] = NULL THEN NULL
                         ELSE parent[f[n - 1]]
           g == [n \in Nat |-> Link(s, n + 1)]
<1>3. \A n \in Nat \ {0} : Link(s, n + 1) = IF Link(s, n) = NULL THEN NULL ELSE parent[Link(s, n)]
  <2> SUFFICES ASSUME NEW n \in Nat \ {0}
               PROVE  Link(s, n + 1) = IF Link(s, n) = NULL THEN NULL ELSE parent[Link(s, n)]
    OBVIOUS
  <2>1. CASE n \in 1 .. Len(s)
    <3>1. Link(s, n) = s[n] /\ s[n] \in Pids
      BY <2>1 DEF Link
    <3> QED BY <1>1, <1>2, <2>1, <3>1
  <2>2. CASE n \notin 1 .. Len(s)
    <3>1. n + 1 \notin 1 .. Len(s)
      BY <1>1, <2>2
    <3> QED BY <2>2, <3>1 DEF Link
  <2> QED BY <2>1, <2>2
<1>4. g = [n \in Nat |-> Step(g, n)]
  <2> SUFFICES ASSUME NEW n \in Nat PROVE g[n] = Step(g, n)
    OBVIOUS
  <2>1. CASE n = 0
    BY <1>1, <2>1
  <2>2. CASE n # 0
    <3>1. n - 1 \in Nat /\ (n - 1) + 1 = n
      BY <2>2
    <3>2. g[n - 1] = Link(s, n) /\ g[n] = Link(s, n + 1)
      BY <3>1
    <3> QED BY <1>3, <2>2, <3>2
  <2> QED BY <2>1, <2>2
<1>5. FreeChain = [n \in Nat |-> Step(FreeChain, n)]
  <2> HIDE DEF g
  <2>1. \E f : f = [n \in Nat |-> Step(f, n)]
    BY <1>4
  <2>2. FreeChain = CHOOSE f : f = [n \in Nat |-> Step(f, n)]
    BY DEF FreeChain
  <2> QED BY <2>1, <2>2
<1>6. \A n \in Nat : FreeChain[n] = Step(FreeChain, n)
  <2> PICK f : f = FreeChain
    OBVIOUS
  <2>1. f = [n \in Nat |-> Step(f, n)]
    BY <1>5
  <2>2. \A n \in Nat : f[n] = Step(f, n)
    BY <2>1
  <2> QED BY <2>2
<1> DEFINE T == {n \in Nat : FreeChain[n] # Link(s, n + 1)}
<1>7. T = {}
  <2> SUFFICES ASSUME T # {} PROVE FALSE
    OBVIOUS
  <2>1. PICK n \in T : \A k \in T : n <= k
    <3>1. T \subseteq Nat
      OBVIOUS
    <3> HIDE DEF T
    <3> QED BY <3>1, LeastMember
  <2>2. n \in Nat /\ FreeChain[n] # Link(s, n + 1)
    BY <2>1
  <2>3. n # 0
    <3>1. FreeChain[0] = pcb_freelist
      BY <1>6
    <3> QED BY <1>1, <2>2, <3>1
  <2>4. n - 1 \in Nat /\ n - 1 \notin T /\ (n - 1) + 1 = n
    BY <2>1, <2>2, <2>3
  <2>5. FreeChain[n - 1] = Link(s, n)
    BY <2>4
  <2>6. FreeChain[n] = IF Link(s, n) = NULL THEN NULL ELSE parent[Link(s, n)]
    BY <1>6, <2>2, <2>3, <2>5
  <2> QED BY <1>3, <2>2, <2>3, <2>6
<1> QED BY <1>7

LEMMA InvFreeList ==
    ASSUME ProcessInv
    PROVE  FreeListInvariant
<1> DEFINE F == {p \in Pids : ~ Used(p)}
<1>1. PICK s \in Seq(Pids) : IsFreeList(s)
  BY DEF ProcessInv, FreeList
<1>2. /\ IsInjective(s) /\ \A p \in Pids : Contains(s, p) <=> p \in F
  BY <1>1 DEF IsFreeList
<1>3. DOMAIN s = 1 .. Len(s) /\ Len(s) \in Nat /\ s \in [1 .. Len(s) -> Pids]
  OBVIOUS
<1>4. \A i \in 1 .. Len(s) : s[i] \in F
  BY <1>2, <1>3 DEF Contains
<1>5. \A p \in F : \E i \in 1 .. Len(s) : s[i] = p
  BY <1>2 DEF Contains
<1> HIDE DEF F
<1>6. Cardinality(F) = Len(s)
  <2>1. s \in Bijection(1 .. Len(s), F)
    <3>1. s \in [1 .. Len(s) -> F]
      BY <1>3, <1>4
    <3>2. \A i, j \in 1 .. Len(s) : s[i] = s[j] => i = j
      BY <1>2, <1>3 DEF IsInjective
    <3> QED BY <1>5, <3>1, <3>2 DEF Bijection, Injection, Surjection, IsInjective
  <2>2. ExistsBijection(1 .. Len(s), F)
    BY <2>1 DEF ExistsBijection
  <2>3. IsFiniteSet(1 .. Len(s)) /\ Cardinality(1 .. Len(s)) = IF 1 > Len(s) THEN 0 ELSE Len(s) - 1 + 1
    BY <1>3, FS_Interval
  <2>4. Cardinality(1 .. Len(s)) = Len(s)
    BY <1>3, <2>3
  <2> QED BY <2>2, <2>3, <2>4, FS_Bijection
<1>7. \A n \in Nat : FreeChain[n] = Link(s, n + 1)
  BY <1>1, ChainIsList
<1>8. {FreeChain[n] : n \in 0 .. Cardinality(F)} = F \cup {NULL}
  <2>1. ASSUME NEW n \in 0 .. Len(s) PROVE FreeChain[n] \in F \cup {NULL}
    <3>1. FreeChain[n] = Link(s, n + 1)
      BY <1>7
    <3> QED BY <1>4, <3>1 DEF Link
  <2>2. ASSUME NEW p \in F PROVE \E n \in 0 .. Len(s) : p = FreeChain[n]
    <3>1. PICK i \in 1 .. Len(s) : s[i] = p
      BY <1>5
    <3>2. i - 1 \in Nat /\ i - 1 \in 0 .. Len(s) /\ (i - 1) + 1 = i
      BY <1>3
    <3>3. FreeChain[i - 1] = p
      BY <1>7, <3>1, <3>2 DEF Link
    <3> QED BY <3>2, <3>3
  <2>3. FreeChain[Len(s)] = NULL /\ Len(s) \in 0 .. Len(s)
    BY <1>3, <1>7 DEF Link
  <2> QED BY <1>6, <2>1, <2>2, <2>3
<1>9. process_count = MAX_PROC - Cardinality(F)
  BY DEF ProcessInv, FreeList, F
<1> QED BY <1>8, <1>9 DEF FreeListInvariant, F

(* The process table is sound: the field parent makes at once the tree of  *)
(* the processes and the list of the free PCBs, and Exec, WaitChild and    *)
(* the exits, which all rewrite it, keep both.                             *)
THEOREM TableIsSound == Disciplined => (Spec => []ProcessTable)
<1> SUFFICES ASSUME Disciplined PROVE Spec => []ProcessTable
  OBVIOUS
<1>1. ProcessInv => ProcessTable
  BY InvTypeOK, InvProcessTree, InvFreeList DEF ProcessTable
<1> QED BY <1>1, ProcessInvariant, PTL

=============================================================================
