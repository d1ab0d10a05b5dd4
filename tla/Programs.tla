------------------------------ MODULE Programs ------------------------------
(***************************************************************************)
(* The programs of the repository, run by the kernel of module Processes.  *)
(* A thread executes the text of its task, one call after the other; the   *)
(* calls are those of Processes and Streams, and this module adds what     *)
(* they return to the program: pids, exit values, file ids and data.  It   *)
(* also has the calls that fail, and user mutexes and condition variables  *)
(* (which module KernelMonitor has in detail).                             *)
(*                                                                         *)
(* Threads and FCBs are numbers, and the least free one is allocated.      *)
(***************************************************************************)
EXTENDS Processes, ApiTests, ShellPrograms

CONSTANT
    Boots            \* what may be booted, as <<program, the lines typed at each device>>

VARIABLES
    boot, text,      \* the program that was booted, and the text of its tasks
    task, at,        \* of each thread: its task and its next call
    mem,             \* the variables of each process
    exitval,         \* PCB.exitval
    inherited,       \* the file table that each process got from its parent
    device,          \* the device of each FCB
    input,           \* what was typed and not yet read, at each device
    expected,        \* what should be written to each terminal
    held,            \* the user mutexes that are locked
    waits,           \* the threads in a condition variable, in order
    midwait,         \* the threads inside Cond_Wait or Cond_TimedWait
    failed           \* the ASSERTs that failed

bootVars == <<boot, text>>
textVars == <<task, at, mem, failed>>
devVars  == <<device, input, expected>>
syncVars == <<held, waits, midwait>>
progVars == <<bootVars, textVars, exitval, inherited, devVars, syncVars>>
allVars  == <<vars, progVars>>

Console == 2        \* the devices: terminals 0 and 1, the console,
Null    == 3        \* and the null device
Devices == 0 .. 3

Tests ==
    [test_pid_of_init_is_one |-> test_pid_of_init_is_one,
     test_waitchild_error_on_invalid_pid |-> test_waitchild_error_on_invalid_pid,
     test_waitchild_error_on_nonchild |-> test_waitchild_error_on_nonchild,
     test_exec_getpid_wait |-> test_exec_getpid_wait,
     test_wait_for_any_child |-> test_wait_for_any_child,
     test_exit_returns_status |-> test_exit_returns_status,
     test_main_return_returns_status |-> test_main_return_returns_status,
     test_orphans_adopted_by_init |-> test_orphans_adopted_by_init,
     test_cond_timedwait_timeout |-> test_cond_timedwait_timeout,
     test_cond_timedwait_signal |-> test_cond_timedwait_signal,
     test_cond_timedwait_broadcast |-> test_cond_timedwait_broadcast,
     test_dup2_error_on_nonfile |-> test_dup2_error_on_nonfile,
     test_dup2_error_on_invalid_fid |-> test_dup2_error_on_invalid_fid,
     test_open_terminals |-> test_open_terminals,
     test_close_error_on_invalid_fid |-> test_close_error_on_invalid_fid,
     test_close_success_on_valid_nonfile_fid |-> test_close_success_on_valid_nonfile_fid,
     test_close_terminals |-> test_close_terminals,
     test_read_kbd |-> test_read_kbd,
     test_read_kbd_big |-> test_read_kbd_big,
     test_dup2_copies_file |-> test_dup2_copies_file,
     test_read_error_on_bad_fid |-> test_read_error_on_bad_fid,
     test_read_from_many_terminals |-> test_read_from_many_terminals,
     test_child_inherits_files |-> test_child_inherits_files,
     test_null_device |-> test_null_device,
     test_write_con |-> test_write_con,
     test_write_con_big |-> test_write_con_big,
     test_write_error_on_bad_fid |-> test_write_error_on_bad_fid,
     test_write_to_many_terminals |-> test_write_to_many_terminals,
     test_input_concurrency |-> test_input_concurrency,
     test_term_input_driver_interrupt |-> test_term_input_driver_interrupt,
     test_exit_many_threads |-> test_exit_many_threads,
     test_create_join_thread |-> test_create_join_thread,
     boot_shell |-> Commands @@ [main |-> boot_shell],
     boot_shell_console |-> Commands @@ [main |-> boot_shell_console],
     boot_symposium |-> Commands @@ [main |-> boot_symposium],
     boot_symposium_console |-> Commands @@ [main |-> boot_symposium_console]]

(* The numbers behind the names; a message or a command is a number too.   *)
Vocabulary == << "Hello", "world", "bytes", "zava", "raka", "trane", "mia", "NULs", "unknown", "exit", "q",
             "fibo", "hanoi", "echo", "help", "ls", "sysinfo", "cap", "lcase", "lenum", "wc",
             "more", "repeat", "runterm", "rserver", "rcli", "symposium", "symp_thr", "sh",
             "fibo|wc" >>

Word(i) == Vocabulary[i - 1000]

Literal ==
    [w \in ToSet(Vocabulary) |-> 1000 + CHOOSE i \in DOMAIN Vocabulary : Vocabulary[i] = w]
    @@ ("-1" :> -1) @@ ("0" :> 0) @@ ("1" :> 1) @@ ("2" :> 2) @@ ("3" :> 3) @@ ("4" :> 4)
    @@ ("100" :> 100) @@ ("102" :> 102) @@ ("EOF" :> -2)
    @@ ("MAX_PROC" :> MAX_PROC) @@ ("MAX_FILEID" :> MAX_FILEID)

(* The variables of main that its local functions use too.                 *)
Outer == {"cpid", "flag", "rec1", "rec2", "m", "pcv", "gcv"}

Scope(t, x) == IF x \in Outer THEN 1 ELSE owner_pcb[t]

Value(t, x) ==
    CASE x \in DOMAIN Literal -> Literal[x]
      [] x = "self" -> owner_pcb[t]
      [] x = "next" -> owner_pcb[t] + 1
      [] x \in DOMAIN mem[Scope(t, x)] -> mem[Scope(t, x)][x]
      [] OTHER -> 0

TaskOf(t) == text[task[t]]

Ended(t) == at[t] > Len(TaskOf(t).code)

Ins(t) == TaskOf(t).code[at[t]]

Arg(t, i) == Value(t, Ins(t).args[i])

(* The thread is at this call, in the program or in the kernel.            *)
At(t, call) == Alive(t) /\ pc[t] # "spin" /\ ~ Ended(t) /\ Ins(t).call = call

-----------------------------------------------------------------------------
ProgInit ==
    /\ Init
    /\ pc[1] = "user"                 \* thread 1 is the main thread of init
    /\ task = [t \in Threads |-> "main"]
    /\ at = [t \in Threads |-> 1]
    /\ mem = [p \in Pids |-> << >>]
    /\ exitval = [p \in Pids |-> 0]
    /\ inherited = FIDT
    /\ device = [f \in FCBs |-> Null]
    /\ \E start \in Boots :
         /\ boot = start[1] /\ text = Tests[start[1]]
         /\ input = [d \in Devices |-> [i \in DOMAIN start[2][d] |-> Literal[start[2][d][i]]]]
    /\ expected = [d \in Devices |-> << >>]
    /\ held = {} /\ waits = << >> /\ midwait = {} /\ failed = {}

(* A call has returned ret to t: the ASSERT about it is checked, it is     *)
(* stored, together with any other value, and t goes on to the next call.  *)
Stores(t, var, val, m) ==
    IF var = "none" THEN m ELSE [m EXCEPT ![Scope(t, var)] = (var :> val) @@ @]

Holds(t, ret) ==
    CASE Ins(t).want = "any" -> TRUE
      [] Ins(t).want = "valid" -> ret # -1
      [] OTHER -> ret = Value(t, Ins(t).want)

ReturnsAlso(t, ret, var, val) ==
    /\ mem' = Stores(t, var, val, Stores(t, Ins(t).var, ret, mem))
    /\ failed' = IF Holds(t, ret) THEN failed ELSE failed \cup {<<task[t], at[t]>>}
    /\ at' = [at EXCEPT ![t] = @ + 1]

Returns(t, ret) == ReturnsAlso(t, ret, "none", 0) /\ UNCHANGED task

(* The call goes on in the kernel.                                         *)
Blocks == UNCHANGED textVars

AtUser(t, call) == At(t, call) /\ Runs(t, "user")

(* A call that changes nothing in the kernel.                              *)
Immediate(t, ret) == Returns(t, ret) /\ UNCHANGED vars

-----------------------------------------------------------------------------
(* Processes and threads.                                                  *)

LeastUnused == CHOOSE u \in Threads : Unused(u) /\ \A v \in Threads : Unused(v) => u <= v

(* Exec of the task named, or of the command that a variable holds.        *)
DoExec(t) ==
    LET name == IF Ins(t).call = "Exec" THEN Ins(t).args[1] ELSE Word(Arg(t, 1))
        new  == LeastUnused
    IN  /\ AtUser(t, "Exec") \/ AtUser(t, "ExecCommand")
        /\ sys_Exec(t, new)
        /\ LET pid == pcb_freelist IN
           /\ mem' = [Stores(t, Ins(t).var, pid, mem) EXCEPT ![pid] = << >>]
           /\ failed' = IF Holds(t, pid) THEN failed ELSE failed \cup {<<task[t], at[t]>>}
           /\ inherited' = [inherited EXCEPT ![pid] = FIDT[owner_pcb[t]]]
        /\ task' = [task EXCEPT ![new] = name]
        /\ at' = [at EXCEPT ![t] = @ + 1, ![new] = 1]
        /\ UNCHANGED <<bootVars, exitval, devVars, syncVars>>

DoCreateThread(t) ==
    LET new == LeastUnused IN
    /\ AtUser(t, "CreateThread")
    /\ sys_CreateThread(t, new)
    /\ mem' = Stores(t, Ins(t).var, new, mem)
    /\ task' = [task EXCEPT ![new] = Ins(t).args[1]]
    /\ at' = [at EXCEPT ![t] = @ + 1, ![new] = 1]
    /\ UNCHANGED <<bootVars, failed, exitval, inherited, devVars, syncVars>>

(* WaitChild(pid, &status): the error cases, then the two kinds of wait.   *)
LegalChild(t, c) == c \in Pids /\ Used(c) /\ parent[c] = owner_pcb[t]

WaitReturns(t, child) ==
    IF pc'[t] = "user"
    THEN ReturnsAlso(t, child, Ins(t).args[2], exitval[child]) /\ UNCHANGED task
    ELSE Blocks

DoWaitChild(t) ==
    LET c    == Arg(t, 1)
        mine == exited_list[owner_pcb[t]]
    IN  /\ At(t, "WaitChild")
        /\ \/ /\ Runs(t, "user")
              /\ IF c = -1 THEN ~ HasChildren(owner_pcb[t]) ELSE ~ LegalChild(t, c)
              /\ Immediate(t, -1)
           \/ c \in Pids /\ wait_for_specific_child(t, c) /\ WaitReturns(t, c)
           \/ c = -1 /\ wait_for_any_child(t) /\ WaitReturns(t, Head(mine))
        /\ UNCHANGED <<bootVars, exitval, inherited, devVars, syncVars>>

(* ThreadJoin.  The result is 0 when the thread waited for has exited; a   *)
(* join of a thread that has exited already fails, unless another joiner   *)
(* still keeps the PTCB: then it is whatever *exitval holds.               *)
JoinResult(t) ==
    IF pc[t] = "join" /\ (arg[t] \notin thread_list[owner_pcb[t]] \/ detached[arg[t]] \/ arg[t] = t)
    THEN -1 ELSE 0

DoThreadJoin(t) ==
    /\ At(t, "ThreadJoin")
    /\ \/ CallThreadJoin(t, Arg(t, 1)) /\ Blocks
       \/ /\ sys_ThreadJoin(t) \/ sys_ThreadJoin_woken(t)
          /\ IF pc'[t] = "user" THEN Returns(t, JoinResult(t)) ELSE Blocks
    /\ UNCHANGED <<bootVars, exitval, inherited, devVars, syncVars>>

(* The end of a task: start_main_thread calls Exit, start_thread calls     *)
(* ThreadExit.  The last thread gives the process its exit value.          *)
ExitValue(t) == IF Ended(t) THEN Value(t, TaskOf(t).ret) ELSE Arg(t, 1)

DoExit(t) ==
    /\ Runs(t, "user")
    /\ IF Ended(t)
       THEN IF TaskOf(t).thread THEN ThreadExit(t) ELSE sys_Exit(t)
       ELSE Ins(t).call = "Exit" /\ sys_Exit(t)
    /\ exitval' = IF LastThread(t) THEN [exitval EXCEPT ![owner_pcb[t]] = ExitValue(t)] ELSE exitval
    /\ UNCHANGED <<bootVars, textVars, inherited, devVars, syncVars>>

DoExitLoop(t) == ExitLoop(t) /\ UNCHANGED progVars

-----------------------------------------------------------------------------
(* Streams.                                                                *)

get_fcb(t, fd) == IF fd \in Fids THEN FIDT[owner_pcb[t]][fd] ELSE NULL

KernelRest == UNCHANGED <<pstate, treeVars, thread_count, ptcbVars, tcbVars, created>>

(* OpenNull, OpenTerminal and tinyos_pseudo_console, for a device.         *)
Opens(t) ==
    CASE Ins(t).call = "OpenNull" -> Null
      [] Ins(t).call = "OpenConsole" -> Console
      [] Ins(t).call = "OpenTerminal" -> Arg(t, 1)

DoOpen(t) ==
    LET p  == owner_pcb[t]
        f  == Min(FCB_freelist)
        fd == Min({i \in Fids : FIDT[p][i] = NULL})
    IN  /\ AtUser(t, "OpenNull") \/ AtUser(t, "OpenTerminal") \/ AtUser(t, "OpenConsole")
        /\ open_stream(p, TRUE)
        /\ FIDT'[p][fd] = f
        /\ device' = [device EXCEPT ![f] = Opens(t)]
        /\ Returns(t, fd)
        /\ KernelRest
        /\ UNCHANGED <<bootVars, exitval, inherited, input, expected, syncVars>>

(* Closing a closed stream is legal.                                       *)
CloseFid(t, fd) ==
    IF get_fcb(t, fd) # NULL
    THEN sys_Close(owner_pcb[t], fd) /\ KernelRest /\ Returns(t, 0)
    ELSE Immediate(t, IF fd \in Fids THEN 0 ELSE -1)

DoClose(t) ==
    /\ \/ AtUser(t, "Close") /\ CloseFid(t, Arg(t, 1))
       \/ AtUser(t, "CloseAny") /\ \E fd \in Fids \cup {-1} : CloseFid(t, fd)
    /\ UNCHANGED <<bootVars, exitval, inherited, devVars, syncVars>>

DoDup2(t) ==
    LET old == Arg(t, 1)
        new == Arg(t, 2)
    IN  /\ AtUser(t, "Dup2")
        /\ IF get_fcb(t, old) = NULL \/ new \notin Fids THEN Immediate(t, -1)
           ELSE IF get_fcb(t, old) = get_fcb(t, new) THEN Immediate(t, 0)
           ELSE sys_Dup2(owner_pcb[t], old, new) /\ KernelRest /\ Returns(t, 0)
        /\ UNCHANGED <<bootVars, exitval, inherited, devVars, syncVars>>

(* Read.  The null device gives zeros and the console may be at its end; a *)
(* terminal makes the thread wait until something has been typed.          *)
DoRead(t) ==
    LET fd == Arg(t, 1)
        f  == get_fcb(t, fd)
        d  == IF f = NULL THEN Null ELSE device[f]
    IN  /\ AtUser(t, "Read")
        /\ \/ f = NULL /\ Immediate(t, -1) /\ UNCHANGED input
           \/ f # NULL /\ d = Null /\ Immediate(t, Literal["NULs"]) /\ UNCHANGED input
           \/ /\ d = Console
              /\ Immediate(t, IF input[d] = << >> THEN Literal["EOF"] ELSE Head(input[d]))
              /\ input' = [input EXCEPT ![d] = IF @ = << >> THEN @ ELSE Tail(@)]
           \/ d \in {0, 1} /\ sys_Read(t, fd) /\ Blocks /\ UNCHANGED input
        /\ UNCHANGED <<bootVars, exitval, inherited, device, expected, syncVars>>

DoReadEnds(t) ==
    LET d == device[arg[t]] IN
    /\ pc[t] = "read"
    /\ input[d] # << >>
    /\ sys_Read_ends(t)
    /\ input' = [input EXCEPT ![d] = Tail(@)]
    /\ Returns(t, Head(input[d]))
    /\ UNCHANGED <<bootVars, exitval, inherited, device, expected, syncVars>>

(* The interrupt wakes all the readers; one that finds nothing sleeps on.  *)
DoInterrupt ==
    /\ \E t \in asleep : pc[t] = "read" /\ input[device[arg[t]]] # << >>
    /\ asleep' = {t \in asleep : pc[t] # "read" \/ input[device[arg[t]]] = << >>}
    /\ UNCHANGED <<pstate, treeVars, thread_count, ptcbVars, owner_pcb, pc, arg, tids, created,
                   streamVars, progVars>>

DoReadAgain(t) ==
    /\ Runs(t, "read")
    /\ input[device[arg[t]]] = << >>
    /\ asleep' = asleep \cup {t}
    /\ UNCHANGED <<pstate, treeVars, thread_count, ptcbVars, owner_pcb, pc, arg, tids, created,
                   streamVars, progVars>>

(* What is written to a terminal must be what a test expects there.        *)
DoWrite(t) ==
    LET f == get_fcb(t, Arg(t, 1))
        d == IF f = NULL THEN Null ELSE device[f]
    IN  /\ AtUser(t, "Write")
        /\ Immediate(t, IF f = NULL THEN -1
                        ELSE IF expected[d] # << >> /\ Head(expected[d]) # Arg(t, 2) THEN -1
                        ELSE Arg(t, 2))
        /\ expected' = [expected EXCEPT ![d] = IF f = NULL \/ @ = << >> THEN @ ELSE Tail(@)]
        /\ UNCHANGED <<bootVars, exitval, inherited, device, input, syncVars>>

(* sendme and expect hand a message to the proxy of the terminal.          *)
DoProxy(t) ==
    /\ \/ AtUser(t, "sendme") /\ input' = [input EXCEPT ![Arg(t, 1)] = Append(@, Arg(t, 2))]
          /\ UNCHANGED expected
       \/ AtUser(t, "expect") /\ expected' = [expected EXCEPT ![Arg(t, 1)] = Append(@, Arg(t, 2))]
          /\ UNCHANGED input
    /\ Immediate(t, 0)
    /\ UNCHANGED <<bootVars, exitval, inherited, device, syncVars>>

-----------------------------------------------------------------------------
(* Mutexes and condition variables.                                        *)

Object(t, i) == <<Scope(t, Ins(t).args[i]), Ins(t).args[i]>>

InCond(t) == \E i \in DOMAIN waits : waits[i][1] = t

DoLock(t) ==
    /\ \/ /\ AtUser(t, "Mutex_Lock")
          /\ Object(t, 1) \notin held
          /\ held' = held \cup {Object(t, 1)}
       \/ AtUser(t, "Mutex_Unlock") /\ held' = held \ {Object(t, 1)}
    /\ Immediate(t, 0)
    /\ UNCHANGED <<bootVars, exitval, inherited, devVars, waits, midwait>>

AtCond(t) == AtUser(t, "Cond_Wait") \/ AtUser(t, "Cond_TimedWait")

(* The mutex is released and the thread enters the queue, in one step.     *)
DoCondWait(t) ==
    /\ AtCond(t)
    /\ t \notin midwait
    /\ held' = held \ {Object(t, 1)}
    /\ waits' = Append(waits, <<t, Object(t, 2)>>)
    /\ midwait' = midwait \cup {t}
    /\ UNCHANGED <<vars, bootVars, textVars, exitval, inherited, devVars>>

DoTimeout(t) ==
    /\ AtUser(t, "Cond_TimedWait")
    /\ InCond(t)
    /\ waits' = SelectSeq(waits, LAMBDA w : w[1] # t)
    /\ UNCHANGED <<vars, bootVars, textVars, exitval, inherited, devVars, held, midwait>>

(* The thread has been woken and gets the mutex again.                     *)
DoRelock(t) ==
    /\ AtCond(t)
    /\ t \in midwait /\ ~ InCond(t)
    /\ Object(t, 1) \notin held
    /\ held' = held \cup {Object(t, 1)}
    /\ midwait' = midwait \ {t}
    /\ Immediate(t, 0)
    /\ UNCHANGED <<bootVars, exitval, inherited, devVars, waits>>

DoSignal(t) ==
    LET at_cv == {i \in DOMAIN waits : waits[i][2] = Object(t, 1)} IN
    /\ \/ /\ AtUser(t, "Cond_Signal")
          /\ waits' = IF at_cv = {} THEN waits ELSE RemoveAt(waits, Min(at_cv))
       \/ /\ AtUser(t, "Cond_Broadcast")
          /\ waits' = SelectSeq(waits, LAMBDA w : w[2] # Object(t, 1))
    /\ Immediate(t, 0)
    /\ UNCHANGED <<bootVars, exitval, inherited, devVars, held, midwait>>

-----------------------------------------------------------------------------
(* What a program does by itself.                                          *)

Local == UNCHANGED <<vars, bootVars, exitval, inherited, devVars, syncVars>>

DoCompute(t) ==
    /\ Local
    /\ UNCHANGED task
    /\ \/ /\ AtUser(t, "Value") \/ AtUser(t, "GetPid")
          /\ ReturnsAlso(t, IF Ins(t).call = "Value" THEN Arg(t, 1) ELSE owner_pcb[t], "none", 0)
       \/ /\ AtUser(t, "Add")
          /\ ReturnsAlso(t, 0, Ins(t).args[1], Arg(t, 1) + Arg(t, 2))
       \/ /\ AtUser(t, "If")
          /\ at' = [at EXCEPT ![t] = @ + IF Arg(t, 1) = Arg(t, 2) THEN Ins(t).to ELSE 1]
          /\ UNCHANGED <<mem, failed>>
       \/ /\ AtUser(t, "Take")          \* find args[1] among the others
          /\ IF \E i \in 2 .. 3 : Arg(t, i) = Arg(t, 1)
             THEN LET i == CHOOSE i \in 2 .. 3 : Arg(t, i) = Arg(t, 1)
                  IN  ReturnsAlso(t, 0, Ins(t).args[i], -1)
             ELSE ReturnsAlso(t, -1, "none", 0)

(* The program uses a file id that it never set; "stray" tells if it ever  *)
(* was one of the ids in args.                                             *)
DoUninitialised(t) ==
    /\ AtUser(t, "Uninitialised")
    /\ \E fd \in Fids \cup {-1} :
         ReturnsAlso(t, fd, IF fd \in {Arg(t, 1), Arg(t, 2)} THEN "stray" ELSE "none", 1)
    /\ Local
    /\ UNCHANGED task

(* The steps of a thread.                                                  *)
Step(t) ==
    \/ DoExec(t) \/ DoCreateThread(t) \/ DoWaitChild(t) \/ DoThreadJoin(t)
    \/ DoExit(t) \/ DoExitLoop(t)
    \/ DoOpen(t) \/ DoClose(t) \/ DoDup2(t)
    \/ DoRead(t) \/ DoReadEnds(t) \/ DoReadAgain(t) \/ DoWrite(t) \/ DoProxy(t)
    \/ DoLock(t) \/ DoCondWait(t) \/ DoTimeout(t) \/ DoRelock(t) \/ DoSignal(t)
    \/ DoCompute(t) \/ DoUninitialised(t)

Halted == Finished /\ UNCHANGED progVars

(* A shell that has lost its input executes the last command for ever.     *)
OutOfThreads == created = MaxCreated /\ UNCHANGED allVars

ProgNext == (\E t \in Threads : Step(t)) \/ DoInterrupt \/ Halted \/ OutOfThreads

ProgSpec == ProgInit /\ [][ProgNext]_allVars

(* The scheduler runs threads as long as some are ready, whichever it      *)
(* takes, and the interrupts of the devices are delivered.                 *)
ProgFairness == WF_allVars(DoInterrupt) /\ WF_allVars(\E t \in Threads : Step(t))

ProgFairSpec == ProgSpec /\ ProgFairness

-----------------------------------------------------------------------------
(* Properties.                                                             *)

(* No ASSERT of a program fails, however its processes interleave, and     *)
(* when init has exited all that a test expected was written and all that  *)
(* it sent was read.                                                       *)
AssertionsHold ==
    /\ failed = {}
    /\ pstate[1] = "ZOMBIE" =>
         /\ \A d \in Devices : expected[d] = << >>
         /\ boot \notin {"boot_shell"} => \A d \in {0, 1} : input[d] = << >>

(* A pipeline of process p used, as an end of the pipe, the id of one of   *)
(* the streams that its shell had saved.                                   *)
Strayed(p) == "stray" \in DOMAIN mem[p]

(* The shell gives back what it borrows: whenever it reads a line it has   *)
(* exactly the streams that it started with, although process_line moves   *)
(* them away and back around every command.  That includes pipelines, with *)
(* one exception: the ids of the pipe, which are never set (Pipe always    *)
(* fails), may name one of the two streams that the shell has saved.       *)
ShellKeepsStreams ==
    \A t \in Threads :
      Alive(t) /\ task[t] = "sh" /\ at[t] = 1 /\ ~ TaskOf(t).thread
        => FIDT[owner_pcb[t]] = inherited[owner_pcb[t]] \/ Strayed(owner_pcb[t])

(* Every program ends, with all that it started: all processes have been   *)
(* reaped, no stream is left open, and init has exited.  The exception is  *)
(* the same: a shell that has lost its input may never end.                *)
ProgramsEnd ==
    <>(\/ /\ pstate[1] = "ZOMBIE"
          /\ \A p \in Pids \ {1} : ~ Used(p)
          /\ FCB_freelist = FCBs
       \/ \E p \in Pids : Strayed(p))

=============================================================================
