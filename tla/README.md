# A TLA+ model of the TinyOS kernel

This directory holds a verification project for the kernel in `src/`: TLA+
modules translated from its C code (the kernel, the machine below it, the
library and the programs above it, and the tests), the TLC configurations that
check them on small instances, and proofs, checked by TLAPS, for all sizes: the
invariants of the scheduler, of the kernel lock, of processes, threads and
streams, of the serial driver, of the interrupts of the machine, of a user
program, of the exceptions and of the test runner, that arguments arrive, and
that the kernel lock and the lists implement their abstract specifications.
`PROJECT.json` lists the components, the runs, the source lines of every definition, the hazards of the
code and the theorems.

## 1. The system

TinyOS is a small multi-core kernel that runs on a virtual machine made of
POSIX threads (`bios.c`): each core is a host thread, interrupts are signals,
and contexts are `ucontext_t`.

| Component | State | Operations | Works with |
|---|---|---|---|
| Scheduler (`kernel_sched.c`) | TCBs (state, phase, priority, wakeup time), `SCHED[]`, `TIMEOUT_LIST`, `active_threads`, `sched_spinlock`, a CCB per core | `spawn_thread`, `wakeup`, `sleep_releasing`, `yield`, `gain`, the idle loop, `run_scheduler` | cores (halt, restart, alarm), condition variables |
| Kernel lock and condition variables (`kernel_cc.c`) | `kernel_mutex`, `kernel_sem`, the waiter ring of each `CondVar` | `kernel_lock/unlock/wait/signal/broadcast/sleep`, `cv_wait`, `cv_signal` | scheduler, every system call, interrupt handlers |
| Preemption control, mutexes (`kernel_cc.c`) | the `preemption` flag of a core, mutex words | `Mutex_Lock/Unlock`, `set_core_preemption` | everything |
| Processes (`kernel_proc.c`) | process table, free list, parent and child links, exited lists | `Exec`, `Exit`, `WaitChild`, `GetPid`, `GetPPid` | threads, streams, scheduler |
| Process threads (`kernel_threads.c`) | PTCBs, `thread_list`, `thread_count` | `CreateThread`, `ThreadJoin`, `ThreadDetach`, `ThreadExit`, `ThreadSelf` | processes, scheduler |
| Streams (`kernel_streams.c`) | file tables, FCBs with reference counts, free list | `Open*`, `Close`, `Dup2`, `Read`, `Write` | processes, devices |
| Devices (`kernel_dev.c`) | null and serial device objects | `serial_read/write`, `serial_rx_handler` | BIOS interrupts, kernel lock |
| Virtual machine (`bios.c`) | cores (pending interrupts, masks, halt list), timers, terminals, the PIC daemon | `raise_interrupt`, `dispatch_interrupts`, `cpu_disable/enable_interrupts`, `cpu_core_halt/restart*`, `bios_set_timer`, `io_device_read/write`, context switch | host, kernel |
| Boot (`kernel_init.c`) | - | `boot`, `boot_tinyos_kernel` | all |
| Lists, exceptions, arguments (`util.h`, `util.c`) | intrusive rings; a stack of exception frames; packed strings | `rlist_*`, `rl_splice`; `TRY_WITH`, `ON_ERROR`, `FINALLY`, `raise_exception`; `argvpack`, `argvunpack` | all |
| Dining philosophers (`symposium.c`) | the table: a mutex, a state and a condition variable per philosopher | `trytoeat`, `SymposiumTable_philosopher`, the hosts | mutexes, condition variables, threads, processes |
| User library (`tinyoslib.c`, `console.c`) | standard streams, argument buffers | `Execute`, `exec_wrapper`, `ParseProcInfo`, `fidopen`, the pseudo console | system calls |
| Shell (`tinyos_shell.c`) | the streams that it moves around a command | `Shell`, `process_line`, 18 commands, `boot_shell` | system calls, user library |
| API tests (`validate_api.c`) | | one process tree per test | system calls, terminal proxies |
| Test runner (`unit_testing.c`) | the suite, signals of the tester, one process per test, two proxy daemons per terminal | `run_suite`, `execute_fork`, `expect`, `sendme`, `con_proc`, `kbd_proc` | host, the machine under test |

What is hard in this code:

* **Switching.**  A thread gives up its core in two steps: `yield` releases
  `sched_spinlock` while the core is still on the old thread's stack, and only
  `gain`, on the new stack, marks the old context clean.  Meanwhile other cores
  may wake, queue, or select the old thread.
* **One node.**  The ready queues and the timeout list share one intrusive node
  per TCB, and a signal races with a timeout for the same sleeper.
* **Sleeping.**  `cv_wait` drops two locks before it sleeps, and its waiter is a
  variable on the stack of the thread.
* **Two locks for one kernel.**  The kernel is a semaphore built from a mutex
  and a condition variable; `kernel_wait` and `kernel_sleep` give it back on
  paths of their own, and interrupt handlers signal without it.
* **Ends.**  The last thread of a process ends the process, the last process
  ends init, the last thread ends the scheduler on every core.  Zombies,
  orphans, joiners and detached threads must come out even.
* **Signals.**  An interrupt is a flag and a signal.  Signals are merged, come
  between any two steps of a core, also inside the BIOS and inside handlers,
  and are masked in two places.  Handlers run without the kernel lock.
* **Polling by accident.**  A broadcast of the serial driver can be lost before
  its reader sleeps, and an alarm before its core halts.  Only the periodic
  interrupts of the PIC daemon make up for that.
* **Reuse.**  PCBs, PTCBs, TCBs and FCBs are used again at once.
* **One splice.**  Every list operation is `rl_splice` on two nodes; on nodes of
  other rings than expected it merges or splits them without a trace.
* **Handlers that raise.**  An exception in a catcher or a finalizer starts the
  unwinding of the same frame again.
* **Verdicts.**  The daemons that compare the output of a test run beside the
  machine, and so does the alarm that limits it.  A test must not be passed, or
  a suite left, because of the order in which they come.

The properties that make each component correct are the ones of section 4.

## 2. Modules

| Module | Models | Uses |
|---|---|---|
| `Scheduler` | `kernel_sched.c`; halting and restarting of cores from `bios.c` | |
| `MCScheduler` | instances of `Scheduler` | `Scheduler` |
| `ListLemmas` | facts about the list operators, proved, and the least member of a set of numbers | |
| `SchedulerProofs` | the proofs about `Scheduler` | `Scheduler`, `ListLemmas` |
| `Monitor` | the abstract specification of the kernel lock and its condition variables | |
| `KernelMonitor` | `kernel_cc.c` in detail, shown to implement `Monitor` | `Monitor` |
| `MCKernelMonitor` | instances of `KernelMonitor` | `KernelMonitor` |
| `KernelMonitorProofs` | the proofs of the invariants of `KernelMonitor`, and that it implements `Monitor` | `KernelMonitor`, `ListLemmas` |
| `Streams` | file tables and FCBs | |
| `Processes` | `kernel_proc.c` and `kernel_threads.c`, with the stream calls | `Streams` |
| `MCProcesses` | instances of `Processes` | `Processes` |
| `ProcessesProofs` | the proofs about `Processes` and `Streams` | `Processes`, `ListLemmas` |
| `Serial` | the serial driver of `kernel_dev.c`, the io_devices and the device part of the PIC daemon of `bios.c` | |
| `MCSerial` | an instance of `Serial` | `Serial` |
| `SerialProofs` | the proofs about `Serial` | `Serial` |
| `Machine` | interrupts, masks, timers, halting and restarting in `bios.c` | |
| `MCMachine` | instances of `Machine` | `Machine` |
| `MachineProofs` | the proofs about `Machine` | `Machine` |
| `Symposium` | `symposium.c` | |
| `MCSymposium` | instances of `Symposium` | `Symposium` |
| `SymposiumProofs` | the proofs about `Symposium` | `Symposium` |
| `Lists` | the abstract specification of the lists: sequences | |
| `Rings` | the lists of `util.h` as rings of pointers, shown to implement `Lists` | `Lists` |
| `Exceptions` | the exceptions of `util.h` and `util.c` | |
| `Arguments` | the packing of arguments and their way through `Exec` | |
| `TermProxy` | the terminal proxies of `unit_testing.c` | |
| `UnitTesting` | the test runner of `unit_testing.c` | `TermProxy` |
| `Support` | a client of `Rings`, `Exceptions`, `Arguments` or `UnitTesting` | these |
| `MCSupport` | an instance of `Support` | `Support` |
| `SupportProofs` | the proofs about the four of them | `Support`, `ListLemmas` |
| `ProgramText` | how user programs are written down | |
| `ApiTests` | tests of `validate_api.c`, as programs | `ProgramText` |
| `ShellPrograms` | the shell, its commands, the symposium hosts and the boot tasks, as programs | `ProgramText` |
| `Programs` | threads that execute these programs with the calls of `Processes` | `Processes`, `ApiTests`, `ShellPrograms` |
| `MCPrograms` | an instance of `Programs` with all of them | `Programs` |

The models meet at seams, where one assumes what another shows.

* `KernelMonitor` uses of the scheduler only `wakeup` and `sleep_releasing`, as
  atomic steps: in the code both run under `sched_spinlock`, and `Scheduler` checks
  what happens below.
* `Processes` and `Serial` take each stretch of a system call between two points
  where the kernel lock is given up as one action, or hold the lock in a
  variable; that is what `Monitor` promises and `KernelMonitor` implements.
* `Scheduler` and `Serial` take the arrival of an interrupt at its core as one
  step.  `Machine` has the steps, and shows what can be relied on.
* `Symposium` takes a critical section of its mutex as one action and `Cond_Wait`
  as an atomic release and sleep; the ring below is that of `KernelMonitor`.
* `Programs` adds to `Processes` and `Streams` what calls return; its mutexes and
  condition variables are those of the abstract monitor, and its terminals
  deliver what `Serial` shows to arrive.
* Everything that has a list takes it for a sequence or a set; `Rings` implements
  `Lists`, which is that view.

### Scheduler

The variables are the fields of the TCBs (`state`, `phase`, `priority`,
`wakeup_time`), the globals of `kernel_sched.c` (`SCHED`, `TIMEOUT_LIST`,
`active_threads`, `sched_spinlock`, `scheduled`), the clock, and for each core
the fields of its CCB with a position `pc`.  The idle thread of core `c` is the
TCB `c` itself.  `pc` tells apart what other cores can see: `run`, `sleep`
(inside `sleep_releasing`, before `yield`), `wake` (the part of `yield` that
holds the spinlock), `gain` (after the unlock of `yield`, before `gain`),
`halted`, `off` (has left the scheduler), `boot`.  A step that takes and
releases the spinlock is one action; the critical section of `yield` is several,
because the loop over expired timeouts is in it.

`yield` is entered from four places with their own conditions, one action each:
the alarm (`yield_handler`), a kernel thread that yields (`YieldInKernel`), the
end of `sleep_releasing` (`YieldSleeping`), and the idle loop (`YieldIdle`).
`gain` contains the treatment of the previous thread: queueing it again, or
`release_TCB`.  `its`, `rts` and the causes that nothing reads are left out.
`DeviceCores` are the cores that get interrupts other than their alarm (core 0 in
`bios.c`); on those an interrupt handler calls `wakeup` also while the idle thread runs.
A core that halts may `miss` its alarm: section 3.

### Monitor and KernelMonitor

`Monitor` says what a kernel developer relies on: at most one thread is in the
kernel; `kernel_wait` leaves it and joins the waiters in a single step; a signal
wakes the first waiter, or nobody if there is none; a broadcast wakes all; a
timed wait may end by itself; a woken thread competes for the kernel again.

`KernelMonitor` has the steps of the code: the mutex, the semaphore, the waiter
ring and its spinlock, `cv_wait` with its unlock and sleep, a waiter that takes
itself out of the ring after a timeout, `cv_signal` skipping waiters that are
already awake.  Interrupt handlers are the actors of `Devices`: they signal
without the kernel lock.  The refinement mapping defines `place`, `waiters` and
`sending` from the concrete state and instantiates `Monitor`; `waiters` keeps of
a ring those who have not been woken.

### Streams and Processes

`Streams` has the file tables and the FCBs as operators, `Processes` the state of
the process table and of the PTCBs and one action per system call (one per
stretch where a call can block).  A slot of `Threads` is a TCB with its PTCB.
The two are freed separately, and a freed PTCB is a state, so a call on a
dangling `Tid` can be seen.  The calls have the guards of the kernel and no others.
What the programs do with them is in `Next`, and `Program` selects it: without the
flags `init_threads`, `shared_wait` and `detach_joined` they do not use the threads of init,
wait for children from two threads of a process at once, or detach a thread that is
being joined.  With a flag they do, and the code goes wrong; section 5 says how.

### Serial

A reader and a writer in the loops of `serial_read` and `serial_write`, with the
kernel lock.  The reader's attempt is split where the PIC daemon can come in
between: the read that finds nothing, the test and clearing of the ready flag, the
signal to the daemon, `kernel_wait`.  The daemon prepares its sets, selects,
and serves the terminals in turn; select ends early or after its timeout, and
`age` counts the latter, which is what `last_int` is compared with.  The interrupt
handler broadcasts to one terminal per step.  Bytes are counted.  The flag of
the screen is left out, as its handler is empty.

### Machine

A core is a host thread, and a signal can arrive between any two steps.  So a
core is a stack of frames: code of the guest, a function of the BIOS at the place
it has come to, a signal handler, `dispatch_interrupts` at the number it has come to,
with a handler of the guest on top.  `blocked` is the signal mask, restored when
a signal handler ends.  `raise_interrupt` is the three steps of the PIC daemon
(mark, send, restart).  The guest calls anything at any time, but it halts, and
returns from handlers, with interrupts enabled, as the kernel does.  `SERIAL` stands
for both serial interrupts.

### Symposium

The table is a monitor, so each critical section is one action, and `Cond_Wait`
splits one in two.  `trytoeat` is a function on the states of the philosophers;
the places after it tell who was signalled.  The host launches the philosophers,
collects them and frees the table.

### Lists and Rings

A heap gives each node its `next`, `prev` and key.  The operators are the functions of
`util.h`, each built on `rl_splice` as in the code.  The loops of the queries go along
`next` until they are back at the head: `walk` follows the pointer, `Turns` is the number of
turns after which it is back, `Ring` and `ListOf` are what the loop passes, and a query
looks for the first turn of a kind.  `rlist_select` changes the ring that it goes along,
so its loop is a recursive function, one `select_round` at a time.  The
actions are the calls, with the precondition that all callers in the kernel keep: a
node that is pushed is alone, and a list is not appended to itself.  `rlist_pop_back` is
an operator and no action: the kernel does not call it, and section 5 says what it does.  `call`
records the last call, so that the refinement says which operation on sequences it
must have been.  The refinement mapping is `ListOf`, the walk along the `next` pointers.

### Exceptions

The exception stack is a sequence of frames, each with its catchers and its finalizers.
setjmp and longjmp need the call stack, so that is modelled too, as a sequence of
activations: bodies of TRY blocks, `exception_unwind` with its local variables, handlers.
`raise_exception` drops everything
above the body of the top frame, as longjmp does.  User code may open a block or raise
anywhere, also in a handler.

### Arguments

The buffer of `Execute`, the copy that `sys_Exec` makes, and the unpacking in
`exec_wrapper`.  The stack of `Execute` is used for something else once it has returned.
The loops over strings and bytes are recursive functions, one round after the other, on
buffers of bytes with `NUL`.  `ParseProcInfo` unpacks only for processes that `exec_wrapper`
runs, and leaves the `prog` of its caller as it was.

### TermProxy and UnitTesting

The tester, the test, the two daemons of its terminal and the alarm are processes.
The tester goes through `execute_fork` call by call, with its signal mask and its
pending signals.  The daemons go through `con_proc` and `kbd_proc` between the points
where the monitor or the fifo is looked at: the poll and the test for
completion after it are two steps.  What `kbd_proc` writes arrives whole if it fits into
`PIPE_BUF`, and in parts otherwise.  What a test does is a script.  Suites are the
`internal` one of the repository and ones with a boot test, on machines with and
without terminals, which `parse_int_list` reads from the command line.

### ProgramText, ApiTests, ShellPrograms and Programs

A user program is a sequence of calls with the results that its ASSERTs require, small
enough to be compared with the C code line by line.  `Programs` executes them: a
`Do...` action per system call takes the step of `Processes` or `Streams`, and adds the
result, the exit value or the data.  Calls that fail, and change nothing, are there
as well.  A loop over N children runs for two, a message or a command line is one token, and
a page of `more` is a line.  `Pipe`, `Socket`, `Listen`, `Connect` and `OpenInfo` are
stubs that fail, so what programs do after their success is left out.  But `process_line`
does not look at what `Pipe` returned: `process_pipeline` goes on with any file ids as the two ends of
the pipe, as `rserver` does with its `listener_socket` (`CloseAny`).

## 3. Bounds and fairness

`MaxClock` bounds the clock and `MaxCreated` the number of threads ever
created; every other bound is the size of a constant set.

* *Scheduler.*  Two cores are needed for every race of a switch (the core that
  leaves a thread and the core that wakes or selects it).  Two threads with
  timeouts give two entries that can be ordered both ways and expire together,
  and two levels a queue to move to.  `scheduler_progress` has three threads on
  one core, so that two of them can keep passing the core to each other.  The
  invariants are proved for all values.
* *KernelMonitor.*  Three threads and a device: one in the kernel, one asleep in
  `kernel_lock`, one that barges in; or two waiters on a channel, a signaller and
  a broadcast from outside.  To have all of them in one run `MCKernelMonitor` gives each a role: one
  thread waits with a timeout, one without, one signals, and the device
  broadcasts.  The invariants and the refinement are proved for all values and without roles.
* *Processes.*  `proc_calls` has five PCBs (one is that of pid 0) with four threads, which allow an orphan
  whose grandparent is not init, and a PCB that is used again; or two processes
  with two threads each; or a joiner, a thread and a detacher.  One FCB and one file id
  run out at once.  The invariants are proved for all values, for programs that keep
  the discipline of section 6.
* *Serial.*  Two readers and a writer of one terminal: a byte wakes both readers, and one
  has to sleep again, while the writer keeps the kernel locked.  FIFOs hold one byte, so
  that the screen is full and the keyboard empty often; calls ask for two, so
  that they can end short.  `KeyboardIsWatched` is proved for all values, any number of
  terminals among them.
* *Machine.*  One core nests a handler in a handler (`DeepDepth`), the other only
  restarts cores.  Cores share nothing else but the daemon.  The invariants are
  proved for all values.
* *Symposium.*  Five philosophers are the least with two neighbours that are not
  neighbours of each other and one to spare; with two bites each, states recur.  The
  invariants are proved for all values.

The invariants of the four clients of `Support`, and its refinement, are proved for all
values as well.

* *Rings.*  Two lists and three nodes: a node between two others, and a list to move
  to.  Two keys, so that a search can pass a node.
* *Exceptions.*  Three blocks and three handlers: a handler that opens a block which
  raises through it, with another handler left to run.
* *Arguments.*  Up to two strings of up to two bytes, among them the empty list and the
  empty string, and a `PROCINFO_MAX_ARGS_SIZE` that some exceed.
* *UnitTesting.*  Fifos hold two bytes, and a pattern of three does not fit into `PIPE_BUF`;
  there is an empty pattern too.  Two tests
  per suite show that nothing is left over from the first.  `Bytes` is what terminals
  write and read.
* *Programs.*  Five PCBs besides pid 0, five threads at a time and twelve in all; five file ids, what the
  shell and a command need.  Each program is run alone, with one user line per shell.

Deadlock is checked except where programs can really block or end: threads
that join each other (the runs of `Processes`), the symposium,
which ends, and the clients of `support`, which end or, without a fork, hang.

Fairness:

* `Scheduler!Fairness`.  A core keeps executing (weak fairness of its own
  steps); a test-and-set on the spinlock wins eventually, and the code of the
  idle loop is shorter than a quantum (strong fairness of those steps).  The
  alarm that `gain` arms ends a halt, unless it was missed: in `cpu_core_halt`
  (`bios.c:740`) an alarm that comes between the blocking of the signal and the
  setting of `halted` restarts nobody.  Any halt may miss its alarm, and
  no fairness helps a core that did.  The cores of `DeviceCores` are restarted by
  the next periodic interrupt, the others by a core that queues a thread or leaves.
  `Machine` has the steps of the window, and `InterruptIsServed` the periodic interrupt.
* `KernelMonitor!Fairness`.  A thread goes on with a call it has begun, and an
  interrupt handler ends (weak fairness); a thread that spins on the lock of a
  ring gets it in the end (strong fairness), as the lock is held for a few
  instructions.  `kernel_mutex` may be lost to others for ever.  `KernelIsUsed`
  is therefore about some thread getting in, not about each one.
* `Programs!ProgFairness`.  As long as some thread can take a step, some thread does (weak
  fairness), and interrupts of the devices are delivered.  Which thread it is is left
  open: the programs end under every schedule.  A timeout may expire at any time and
  does when nothing else can happen.
* `UnitTesting!Fairness`.  The host runs the tester, the test and the daemons, and the
  alarm rings (weak fairness).  Nothing is assumed of a test that hangs.
* `Serial!Fairness`.  Threads, the daemon and the interrupted core go on (weak fairness);
  time passes in select; the terminal displays what it is sent.  Nobody need press a key
  or call `Read`.  A thread may lose the kernel lock to others for ever, as
  in `KernelMonitor`; `InputIsRead` and `WriteEnds` except a thread to which that
  happens while the others do give the lock back (`Starved`).
* `Machine!Fairness`.  The host runs its threads and delivers signals; the daemon
  raises the serial interrupts again after each `SERIAL_TIMEOUT`; the guest
  returns from handlers and enables what it disabled, although signals may
  always come first (strong fairness).
* `Symposium!Fairness`.  A philosopher that can go on goes on, and so does the host.

## 4. Runs

| Run | Instance | Checks |
|---|---|---|
| `scheduler_safety` | 2 cores, 2 threads, 2 levels, clock to 1 | `TypeOK`; `QueueInvariant`: queued if and only if ready, clean and not selected; `OneCorePerThread`: no stack is used by two cores, and a context is dirty exactly while a core runs on it; `OneNode`: the node of a TCB is in one list, once; `TimeoutInvariant`: the timeout list is exact and sorted; `NoOversleep`: nobody sleeps past its time when a decision is made; `NoDanglingTCB`: freed memory is in no list and on no core; `LeaveWhenDone` |
| `scheduler_shutdown` | 2 cores, one of them with devices, 2 threads | `Shutdown`: after the last thread every core leaves, halted or not, except a core without devices that halted last and missed its alarm |
| `scheduler_progress` | 1 core, 3 threads, 2 levels | `TopLevelRuns`: a ready thread of the top level runs, whatever the others do |
| `monitor` | 3 threads with roles, 1 device | `KernelExclusion`, `RingInvariant` (with the types), `NoLostWakeup`; the refinement `ImplementsMonitor`, with broadcasts from an interrupt handler; `KernelIsUsed`: when the kernel is free and wanted, a thread gets in |
| `proc_calls` | 5 PCBs, 4 threads, joined and detached, 1 FCB | `ProcessTable`: the tree of processes and the free list are sound, and init exits last; `ThreadsKeepProcessAlive`: `thread_count` is exact; `NoMissedExit`: nobody sleeps on what has happened or for what cannot happen; `StreamReferences`: reference counts are exact |
| `programs` | 33 boot tasks, and the two shell boots with 22 user inputs | `AssertionsHold`: no ASSERT fails in any interleaving, and all that was expected was written and all that was sent was read; `ShellKeepsStreams`: the shell has its own streams at every prompt, but for the pipelines of section 5; `StreamReferences` with `Dup2` among all file ids; `ProgramsEnd`: everything ends, is reaped and closed |
| `support` | see section 3 | `ImplementsLists`: the rings implement sequences; `QueriesAgree`: the pointers are each other's inverse, and what searches return; `ExceptionsUnwind`: the exception stack follows the blocks, and handlers run once, in order; `ArgumentsArrive`; `VerdictIsSound`: a test that is passed has done what it promised; `SuiteEnds`: the tester gets to the end of a suite, or is killed by the `SIGALRM` of section 5 |
| `serial` | 1 terminal, 2 readers, a writer | `KeyboardIsWatched`: the daemon does not sleep without a keyboard that is not ready; `InputIsRead`: no reader sleeps on while there is input, and `WriteEnds`, but for starvation at the kernel lock |
| `machine` | 2 cores | `MasksAgree`: signal mask and `int_disabled`; `NoInterruptForgotten`: somebody will look at every pending interrupt; `InterruptIsServed`: each interrupt of the core that has the devices is dispatched |
| `symposium` | 5 philosophers, 2 bites | `ForksAreExclusive`, `SleepersHaveReason`, `TableOutlivesPhilosophers`, `SymposiumEnds` |

Each property has a mutant in `PROJECT.json`: a slip in one definition under
which the same run finds the property violated.  The slips stand next to the
definitions they replace and are used by nothing else.

The programs of `proc_calls` do not detach a thread that is being joined, do not
wait for children from two threads of a process at once, and do not use the
threads of init.  The kernel allows all three, and the next section says what
happens then.

## 5. Where the code and its documentation disagree

Two runs end in a counterexample.

* `proc_join_documented`: `ThreadJoin` fails for a thread that exited before it was
  joined, as `ThreadExit` has freed its PTCB (`JoinFindsThread`;
  `kernel_threads.c:170` against `tinyos.h:346` and a test at `validate_api.c:938`).
* `proc_shared_wait`: two threads of a process wait for the same child.  Its exit
  wakes both; the first releases the PCB, and the second, which only asks whether the
  process is `ALIVE`, releases it again, or releases a process that has got the PCB
  since (`ReapsOwnChild`: a PCB is released by its parent, once; `kernel_proc.c:271`
  against `tinyos.h:274`).

Seen in the models and not given a run of their own:

* detaching a thread that is being joined makes the joiner free its PTCB and
  count it down a second time, so that the process can become a zombie while
  the thread runs (`kernel_threads.c:118`, flag `detach_joined`);
* an alarm that is raised between the two steps of `cpu_core_halt` (`bios.c:740`)
  does not end the halt, where `bios.h:233` says "Halt the core until an
  interrupt arrives": the core stays halted with the interrupt pending.  If it has no
  devices and halts after the other cores have left, that is for ever, and the
  machine does not shut down.  `Shutdown` names this case (`Stranded`); without it
  the property is violated;
* handlers that `cpu_enable_interrupts` or `cpu_core_halt` dispatch run with
  the signal unblocked, where `bios.h:38` says that interrupts are disabled at first;
* a broadcast of `serial_rx_handler` before the reader sleeps is lost, and the
  reader waits for the next periodic interrupt;
* the queue invariant of `kernel_sched.h:60` fails for a thread between `yield`
  and `gain`; `QueueInvariant` is the form that holds;
* the order of queue selection is never reversed (`kernel_sched.c:316`): the
  loop probes `i % 4` for `i` from 0, the same order, so low levels can starve;
  `TopLevelRuns` says nothing of them;
* `Exit` ends one thread, where `tinyos.h:246` says the process;
* of two threads that wait for any child of a process with one child, the second
  sleeps on without a child (`kernel_proc.c:293`, flag `shared_wait`);
* `ThreadExit` of the last thread of init moves the children of init to the same list
  for ever (`kernel_threads.c:202`, flag `init_threads`);
* `initialize_scheduler` writes `SCHED[SCHED_MAX_LEVEL]`, past the array;
* `ThreadJoin` never stores the exit value, and searches the thread list with the
  wrong key afterwards, so that the PTCB stays in it;
* `ThreadSelf` returns a TCB where the other calls expect a PTCB;
* `rlist_pop_back` empties a list of two or more nodes, where its comment (`util.h:447`)
  says that it removes the tail.  `PopBackIsWrong` is the proof.  `Lists` has no such
  operation, and the call is left out of the refinement: the kernel does not
  make it, and the test of it does not notice;
* a catcher that raises makes the frame unwind again with `captured` 0
  (`util.c:19`), so that the error goes on although a catcher was called;
* a test that did everything right can be reported as failed: `con_proc` polls, the
  machine writes and ends, and `con_proc` sees the completion and not the output
  (`unit_testing.c:346`), where the comment at `unit_testing.c:314` says that it
  returns when "there is no available input and the daemon is marked 'complete'";
* `alarm(0)` after the comment "Cancel pending alarm" (`unit_testing.c:512`) leaves a
  pending `SIGALRM`, which kills the tester when the mask is restored;
* `parse_int_list` compares with the old list (`unit_testing.c:870`): `-t 1,0` drops the 0
  and `-t 1,1` runs tests twice;
* `internal_skip` ("A test that is skipped") is a bare test, and those are never skipped;
* `ParseProcInfo` copies the program pointer over its own parameter
  (`tinyoslib.c:129`), so the caller does not get it, where `tinyoslib.h:59` says that
  `*prog` will be filled;
* `RunTerm` returns the pid of its child as its exit status, and does not wait for it;
* the remote server closes `listener_socket`, which is not initialised when `Listen` has
  failed (`tinyos_shell.c:518`);
* `process_line` does not look at the result of `Pipe` (`tinyos_shell.c:849`), which always
  fails, so `Dup2` and `Close` get ends of a pipe that were never set.  If one of them happens to be
  `savein` or `saveout`, the shell loses a stream that it has saved: it does not have it back at
  the next prompt, and may never end.  `ShellKeepsStreams` and `ProgramsEnd` except this case and hold
  for all other ids, 0 and 1 among them;
* `test_create_join_thread` passes or fails with the interleaving, for the reason of
  `proc_join_documented`, and is not among the programs of the run.

## 6. Proofs

### Scheduler

`SchedulerProofs` proves, for any finite sets of cores and threads and any
numbers of levels and decisions (`SetsAssumption`, `NumbersAssumption` in
`Scheduler`):

| Theorem | States |
|---|---|
| `SchedulerInvariance` | `Spec => []SchedulerInv` |
| `TypeCorrect` | `Spec => []TypeOK` |
| `QueueCorrect` | `Spec => []QueueInvariant` |
| `OneListPerNode` | `Spec => []OneNode` |
| `ThreadsOnOneCore` | `Spec => []OneCorePerThread` |
| `TimeoutsCorrect` | `Spec => []TimeoutInvariant` |
| `FreedIsUnreachable` | `Spec => []NoDanglingTCB` |
| `StopsWhenDone` | `Spec => []LeaveWhenDone` |
| `SleepersAreOnTime` | `Spec => NoOversleep` |

The inductive invariant `SchedulerInv` is the conjunction of the properties with
what they need of each other.  `QueueInvariant` is not inductive alone: `gain`
queues the previous thread when it is `READY`, which is right only because no
other core has queued or selected it, which holds because its context is dirty
(`OneCorePerThread`), which holds because a core that runs a thread is where
`CoreInv` says.  `LockInv` says who is in the critical section of `yield`;
`IdleInv` that the idle thread can be switched to when nothing is ready;
`TimeoutInvariant` that a thread made ready by a timeout is really blocked;
`CountInv` (`active_threads` is the number of allocated TCBs) is what makes
`LeaveWhenDone` true.  The proof has one lemma per action and under it a step
per conjunct that the action can disturb.  `ListLemmas` proves what appending,
removing the head, removing one element, and inserting into a sorted list do to
membership, injectivity and order.

### Symposium

`SymposiumProofs` proves for any number of philosophers and of bites
(`SymposiumAssumption`):

| Theorem | States |
|---|---|
| `SymposiumInvariance` | `Spec => []SymposiumInv` |
| `Exclusion` | `Spec => []ForksAreExclusive` |
| `NoMissedSignal` | `Spec => []SleepersHaveReason` |
| `TableIsSafe` | `Spec => []TableOutlivesPhilosophers` |

`SymposiumInv` adds to the properties that the place of a philosopher determines its
state (`PlacesAgree`): `SleepersHaveReason` needs that a philosopher who is let
to eat was asleep, and `TableOutlivesPhilosophers` that one who has left is
`NOTHERE`.  `RoundTable` and `Neighbours` say that `LEFT` and `RIGHT` are the
inverse of each other, `TryResult` and `TryExcludes` what one call of `trytoeat`
does; the end of a meal is two of them in a row.

### Kernel lock

`KernelMonitorProofs` proves for any sets of threads, devices and channels
(`MonitorAssumption`: they are different things):

| Theorem | States |
|---|---|
| `MonitorInvariant` | `Spec => []MonitorInv` |
| `OneThreadInKernel` | `Spec => []KernelExclusion` |
| `RingsAreSound` | `Spec => []RingInvariant` |
| `WakeupsKept` | `Spec => []NoLostWakeup` |

None of the three properties is inductive.  `KernelExclusion` needs that
`kernel_sem` changes only under `kernel_mutex`, so `MutexInvariant` says who holds
the mutex at each place of each call, and `RingLocks` the same for the spinlock of
every ring.  `RingsInvariant` needs that a thread is stopped only inside `cv_wait`,
after its unlock and before somebody removes it (`StatesInvariant`), and that the
condition variable of a call does not change under it (`CallsInvariant`).
`NoLostWakeup` is about a thread that has gone to sleep on `kernel_sem_cv`.
`WakeupInvariant` begins earlier: a thread that has decided to wait holds the mutex
until it holds the ring, and `kernel_sem` stays 0 for so long.

It also proves `MonitorImplemented`, `Spec => ImplementsMonitor`.  Each
action of `KernelMonitor` has a lemma that names the action of `Monitor` which it is
seen as, or shows that nothing is seen:

| Step of `kernel_cc.c` | Step of `Monitor` |
|---|---|
| the call of `kernel_lock` | `Ask` |
| the decrement of `kernel_sem` | `Enter` |
| the end of `kernel_unlock`, and of `kernel_sleep` | `Unlock`, `Exit` |
| the unlock of `kernel_mutex` in the `cv_wait` of `kernel_wait` | `Wait`: leaves the kernel and is the last of the waiters |
| the call of `kernel_signal` or `kernel_broadcast` | `Send` |
| the iteration of `cv_signal` that finds a waiter asleep | `WakeFirst` |
| the end of the loop of `cv_signal` with an empty ring | `EndSend` |
| an expired timeout | `Timeout` |
| everything on the ring of `kernel_sem_cv`, every lock and unlock of a ring, a waiter that takes itself out | none |

The hard step is `WakeFirst`: the first waiter of `Monitor` is the first in the ring
only when those before it have been passed over, because they woke by a timeout.
The lemmas about `Kept`, which selects the waiters from a ring, say what happens to
them when the ring or the set of those who wait changes.  `Kept` is a recursive
function; that such a function exists, is unique, and commutes with appending and
removing is shown by induction on the length, in the form that a counterexample
of the least length has a shorter one (`LeastMember`).

### Processes, threads and streams

`ProcessesProofs` proves for process tables, file tables and sets of FCBs and
threads of any size (`ProcessesAssumption`, `StreamsAssumption`):

| Theorem | States |
|---|---|
| `ProcessInvariant` | `Disciplined => (Spec => []ProcessInv)` |
| `TableIsSound` | `Disciplined => (Spec => []ProcessTable)` |
| `ProcessesLiveByThreads` | `Disciplined => (Spec => []ThreadsKeepProcessAlive)` |
| `ExitsAreSeen` | `Disciplined => (Spec => []NoMissedExit)` |
| `StreamsAreCounted` | `Disciplined => (Spec => []StreamReferences)` |

`Disciplined` says of the constant `Program` that it has none of `init_threads`,
`shared_wait` and `detach_joined`: init has one thread, the threads of a process do
not call `WaitChild` together, and nobody detaches a thread that is being joined.
The program of `proc_calls` is disciplined, and with each of the three flags the code breaks
the invariants, in the ways that section 5 describes.  So this is a condition on the programs,
which the kernel does not enforce.  That a process reaps only its own children is not among the theorems:
under this condition it says little, and without it `proc_shared_wait` refutes it.

`ProcessInv` has ten parts.

* `Tree`: who is whose child, and that `children_list` and `exited_list` agree with
  `parent`.  An exit moves all children to init, so the parent of a process is always
  alive.
* `Rooted`: there is a depth that grows from parent to child.  Without it a cycle of processes
  that are each other's parents would satisfy `Tree`, and init could find no children and exit
  while they live.
* `FreeList`: there is a sequence of the free PCBs along which `parent` points, as the code
  uses the same field for both.  `ProcessTable` states this with a recursive
  function (`FreeChain`) that follows the pointers; it is shown to return that sequence
  with the same form of induction as above.
* `ThreadsKeepProcessAlive` and `PTCBs`: `thread_count` and `thread_list`.  The count is
  that of the threads that live, and the list that of the PTCBs, which can outlive them.
* `InitAlone`: only a thread of init is in the loop of `Exit`, and it is the only one.
* `Joins`: the `ref_count` of a PTCB is the number of threads that join it, so the
  PTCB is freed by the last one and not before.
* `Waiting`: one thread of a process waits at a time, so the child that it was promised is still
  there, and is still its child, when it wakes, and nobody else has reaped it.
* `Files`: a process that is not alive has no files, and `refcount` is the number
  of table entries and of blocked calls.

Exits take most of the proof.  `sys_ThreadExit` and `sys_Exit` of a last thread
close all files, move the children and the zombies to init, and end the process, in
one stretch under the kernel lock; each part is an operator of the
model, and has a lemma for each part of the invariant.  Lemmas
about cardinalities say what happens to a count when one entry of a table, or a whole table, is
replaced.

### Serial driver

`SerialProofs` proves `KeyboardsWatched`, `Spec => []KeyboardIsWatched`, for any number of terminals,
readers and writers, any sizes and any `SERIAL_TIMEOUT`
(`SerialAssumption`).  The property is nearly inductive: it already speaks of the places where flag,
descriptor set and signal disagree for a moment.  It needs only that nobody but a reader is in
`io_device_read` (`CallsInProgress`), and the types.

### Machine

`MachineProofs` proves for any number of cores and any depth of nested handlers
(`MachineAssumption`):

| Theorem | States |
|---|---|
| `MachineInvariant` | `Spec => []MachineInv` |
| `MasksAlwaysAgree` | `Spec => []MasksAgree` |
| `InterruptsRemembered` | `Spec => []NoInterruptForgotten` |

A signal puts frames on the stack of a core that later leave it again, so the
invariant has to say of every frame what it may stand on, not only of the top
(`GoodStack`): otherwise nothing would be known of the frame that comes to the top
when a handler ends.  `GoodMasks` says what the masks allow on top.  The mask that a signal
handler restores is the unblocked one, as it could only arrive with that; hence the case of
`GoodMasks` with the signal blocked and interrupts enabled.  One lemma each says what
pushing, popping and replacing the top frame preserve.

### Exceptions

`SupportProofs` proves `ExceptionsAreUnwound`, `SupportSpec => []ExceptionsUnwind`, for any
number of blocks and handlers (`MaxTries` and `MaxHandlers` may be anything).

The inductive invariant `ExceptionsInv` describes the whole call stack, because a
longjmp uncovers what has been below for long.

* `GoodStack`: exception_unwind stands on the body of its frame, a handler on
  exception_unwind, and the frames of the bodies grow towards the top.
* `Blocks`: the frames of the context are those of the bodies on the stack, in order.  So the
  target of a `raise_exception` is found, and is the innermost body.
* `FrameOK`: the handlers in the lists of a frame are its own, in reverse order of
  declaration, and those that were called were declared later; a handler of a frame is called only while
  the frame is unwound, and its finalizers only after all its catchers.  That is
  what makes the order right when a handler raises and the unwinding starts again.
* `FinalizersKept`: a finalizer that was declared was called, or is still in its frame.
* `InOrder`: what was called so far was called in the right order.

A raise in a handler is the hard step: it removes the handler, the activation of
exception_unwind, and whatever blocks the handler had opened, and must leave the lists as they are.

### Test runner

`VerdictsAreSound`, `SupportSpec => []VerdictIsSound`, holds for any scripts, any bytes, any `-t`
arguments and fifos of any capacity (`SupportAssumption`: scripts are sequences of the
operations that there are).

A verdict compares all that a test wanted of a terminal with all that passed.  In between
the bytes are in several places, and `Carried` says how: what was wanted is split, by
offsets, into what passed, the rest of the pattern that the daemon works on, and the patterns that
wait in its queue; on the console, bytes that the machine wrote and `con_proc` has not read are
still in the fifo and not compared.  The
steps are a new pattern, a byte written by the machine, a pattern taken from the queue,
and a part of a pattern that is matched or typed.  `VerdictInv` adds that a failure is never lost
(`FailuresKept`), and that a process which exits with success had both daemons end with
nothing left.

### Arguments

`ArgumentsDoArrive`, `SupportSpec => []ArgumentsArrive`, holds for lists of up to `MaxArgs` strings
over any characters other than the zero byte.  `Packed` says where in the buffer the strings and their
zero bytes are; `argscount` counts the zero bytes, and `argvunpack` takes what is between
them.  Each of these loops is a recursive function.  `LoopExists` shows once that a loop of n rounds
defines a function, and `EveryRound` that what holds before the first round and is kept by every round
holds after all of them; both by a least counterexample.  A loop body
is passed to them as a function, where the induction theorems of the library would take an
operator.

### Lists

| Theorem | States |
|---|---|
| `QueriesDoAgree` | `SupportSpec => []QueriesAgree` |
| `RingsImplementLists` | `SupportSpec => ImplementsLists` |
| `PopBackIsWrong` | `SupportSpec => []PopBackEmpties` |

They hold for any finite sets of heads and items that have nothing in common (`NodesAssumption`).

`RingsInv` says that there are lists `f`, one per head, such that no item is in two of
them or twice in one, the `next` pointers lead from each head through its list
and back (`Strung`), and the `prev` pointers are the inverse of the `next` pointers
(`Paired`).  Nothing is said of the items that are in no list: they need not be alone.
`PopBackEmpties` says of every state that can be reached that `rlist_pop_back`, called there on a
list of two or more, would leave an empty list.

* *One splice.*  `rl_splice` exchanges the `next` pointers of two nodes, and keeps `Paired`
  (`Spliced`).  If one is on a list and the other alone, the list
  is longer by one item (`InsertKeeps`), if they follow each other on one list, it is
  shorter (`RemoveKeeps`); with the head and its `prev`, the whole list becomes a ring without a
  head (`PopBackLinks`), and nodes of such rings are spliced without a trace in the lists
  (`OrphansKeep`).  `rlist_append` and `rlist_prepend` splice twice, and put one list into the other
  (`GraftKeeps`).
* *Walks.*  A walk on a strung list returns that list (`WalkIs`, `ListOfIs`), so the refinement
  mapping gives `f`, and the queries answer what the sequences say.
* *Selecting.*  After i rounds `rlist_select` has moved the chosen ones among the first i items, and stands
  on the last item that it kept (`SelectStep`, `SelectLinks`).
* *Refinement.*  Each call of `Rings` is the call of `Lists` of the same name, which `call` records.

### Only model-checked

* The liveness properties (`Shutdown`, `TopLevelRuns`, `KernelIsUsed`, `ProgramsEnd`,
  `SuiteEnds`, `InputIsRead`, `WriteEnds`, `InterruptIsServed`, `SymposiumEnds`): fairness is out
  of the prover's reach.
* `AssertionsHold` and `ShellKeepsStreams` of `Programs`.  They are about the texts of fixed
  programs; there is no constant to generalise but the sizes of the tables, and a
  test that needs five processes does need them.
* `JoinFindsThread` and `ReapsOwnChild`, which the code violates (section 5).

The library's induction theorems have an operator as a parameter, which the
provers cannot instantiate.  Where induction was needed above it is an argument about a least
counterexample (`LeastMember`), or goes through `EveryRound`.

## 7. Not modelled

* Preemption control and mutexes that spin: `Mutex_Lock` spins without yielding
  when preemption is off, and `active_threads_spinlock` is taken with it on.
  Mutexes are atomic in the models.
* Contexts that move between cores inside a handler, so that a core pointer read
  before is stale; the start and the end of the machine; terminals that hang up.
* `GetPPid` and `ThreadSelf`; the exit value of a thread.
* Pipes and sockets: stubs that fail.  The log and the clients of the remote server, and
  the tests of pipes and sockets, with them.  Pipelines of the shell run as they do
  when `Pipe` fails, in one form with two commands.
* Tests that measure time (`test_multitask`, `test_preemption`, `test_parallelism`), the
  ASSERT of `test_cond_timedwait` on the time that has passed (`validate_api.c:386`), and
  printing.
* Starvation of the lower levels by the queue selection, programs that end init with
  `ThreadExit` while it has children, and a broadcast that is lost to a waiter with a
  timeout: the first two go wrong (section 5) and nothing promises otherwise; the third is
  excluded by `NoLostWakeup` and `ImplementsMonitor` below, and would not show in
  `ProgramsEnd`, where every timed wait ends.  The terminal emulator (`terminal.c`) and the examples.

## 8. Plan

Written so far, in this order: scheduler, kernel lock, processes and streams, since
everything stands on them; the serial driver, the machine and the symposium; then
the support code, the programs and the test runner.  Every invariant and every refinement that
the passing runs check is proved, but for the two about fixed programs.  What would come next:

1. `PreemptLocks`: mutexes that spin or yield, preemption, and the deadlocks
   between them.
2. The end of the machine (barriers, the last interrupts).
