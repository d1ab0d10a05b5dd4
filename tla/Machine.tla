------------------------------ MODULE Machine ------------------------------
(***************************************************************************)
(* The cores of the virtual machine (bios.c): interrupts, their masking    *)
(* and dispatching, timers, halting and restarting.                        *)
(*                                                                         *)
(* A core is a host thread; an interrupt is a flag in intpending and a     *)
(* SIGUSR1 for the thread.  Signals interrupt the core between any two     *)
(* steps, also in the middle of the functions of the BIOS, and handlers    *)
(* may enable interrupts and so be interrupted themselves.  A core is      *)
(* therefore a stack of frames, each a place in the code with the number   *)
(* of the interrupt that a loop has come to.  Switching to another context *)
(* is left out: a handler that yields is one that returns later.           *)
(*                                                                         *)
(* The guest, which is the kernel, may call any function at any time, but  *)
(* halts and returns from a handler only with interrupts enabled.          *)
(***************************************************************************)
EXTENDS Naturals, Sequences

CONSTANTS
    Cores,
    SerialCore,   \* the core that io_devices send their interrupts to
    MaxDepth      \* bound on the depth of the stack of each core

ASSUME MachineAssumption ==
    /\ SerialCore \in Cores
    /\ MaxDepth \in [Cores -> Nat]

(* The interrupts that the PIC raises, in the order of dispatching; SERIAL *)
(* stands for SERIAL_RX_READY and SERIAL_TX_READY.                         *)
ALARM                == 1
SERIAL               == 2
maximum_interrupt_no == 3
InterruptNos         == {ALARM, SERIAL}

VARIABLES
    timer,          \* the timer of the core is armed
    sigalrm,        \* the cores whose timers have sent a SIGALRM
    intpending,     \* Core.intpending, as a set
    usr1,           \* a SIGUSR1 is pending for the thread of the core
    blocked,        \* its signal mask holds SIGUSR1
    int_disabled,   \* Core.int_disabled
    halted,         \* Core.halted; the list of halted cores
    stack,          \* the stack of the core, the current frame first
    pic               \* what the PIC daemon is doing

flagVars == <<blocked, int_disabled, halted>>
vars     == <<timer, sigalrm, intpending, usr1, flagVars, stack, pic>>

(* Places:                                                                 *)
(*   guest     code of the guest                                           *)
(*   disable   cpu_disable_interrupts, before int_disabled is set          *)
(*   enable    cpu_enable_interrupts, before the signal is unblocked       *)
(*   timer     bios_set_timer, before the pending alarm is cleared         *)
(*   halt      cpu_core_halt, before the core is marked halted             *)
(*   wait      cpu_core_halt, in the loop                                  *)
(*   signal    sigusr1_handler, before the test of int_disabled            *)
(*   loop      dispatch_interrupts, at interrupt n                         *)
(*   call      dispatch_interrupts, has found interrupt n pending          *)
(* The frame of a signal handler remembers that it is one.                 *)
Places == {"guest", "disable", "enable", "timer", "halt", "wait", "signal", "loop", "call"}

Frame(at, n, sig) == [at |-> at, n |-> n, sig |-> sig]

(* Room for a frame, and for that of a handler which it may call.          *)
HasRoom(c) == Len(stack[c]) + 1 < MaxDepth[c]

Top(c)   == stack[c][1]
At(c, p) == Top(c).at = p

Push(c, f) == stack' = [stack EXCEPT ![c] = <<f>> \o @]
Pop(c)     == stack' = [stack EXCEPT ![c] = Tail(@)]
Go(c, p, n) == stack' = [stack EXCEPT ![c][1] = Frame(p, n, @.sig)]

(* The steps of raise_interrupt, in their order.                           *)
raise_interrupt_signal_first == <<"send", "mark", "restart">>   \* a slip

raise_interrupt_no_restart   == <<"mark", "send">>              \* a slip

raise_interrupt == <<"mark", "send", "restart">>

(* The PIC daemon: step 0 is its select, the others raise interrupt n.     *)
Idle    == [step |-> 0, core |-> SerialCore, n |-> SERIAL]
Does(p) == pic.step # 0 /\ raise_interrupt[pic.step] = p

Init ==
    /\ timer = [c \in Cores |-> FALSE]
    /\ sigalrm = {}
    /\ intpending = [c \in Cores |-> {}]
    /\ usr1 = [c \in Cores |-> FALSE]
    /\ blocked = [c \in Cores |-> FALSE]
    /\ int_disabled = [c \in Cores |-> FALSE]
    /\ halted = [c \in Cores |-> FALSE]
    /\ stack = [c \in Cores |-> <<Frame("guest", 0, FALSE)>>]
    /\ pic = Idle

-----------------------------------------------------------------------------
(* The PIC daemon and the timers.                                          *)

TimerExpires(c) ==
    /\ timer[c]
    /\ timer' = [timer EXCEPT ![c] = FALSE]
    /\ sigalrm' = sigalrm \cup {c}
    /\ UNCHANGED <<intpending, usr1, flagVars, stack, pic>>

(* A SIGALRM is read from its descriptor.                                  *)
PICAlarm(c) ==
    /\ pic = Idle
    /\ c \in sigalrm
    /\ sigalrm' = sigalrm \ {c}
    /\ pic' = [step |-> 1, core |-> c, n |-> ALARM]
    /\ UNCHANGED <<timer, intpending, usr1, flagVars, stack>>

(* A device has become ready, or was inactive for too long.                *)
PICSerial ==
    /\ pic = Idle
    /\ pic' = [Idle EXCEPT !.step = 1]
    /\ UNCHANGED <<timer, sigalrm, intpending, usr1, flagVars, stack>>

NextStep == pic' = IF pic.step < Len(raise_interrupt) THEN [pic EXCEPT !.step = @ + 1] ELSE Idle

Mark ==
    /\ Does("mark")
    /\ intpending' = [intpending EXCEPT ![pic.core] = @ \cup {pic.n}]
    /\ NextStep
    /\ UNCHANGED <<timer, sigalrm, usr1, flagVars, stack>>

Send ==
    /\ Does("send")
    /\ usr1' = [usr1 EXCEPT ![pic.core] = TRUE]
    /\ NextStep
    /\ UNCHANGED <<timer, sigalrm, intpending, flagVars, stack>>

(* A core that is not halted, or not yet, is not affected.                 *)
cpu_core_restart ==
    /\ Does("restart")
    /\ halted' = [halted EXCEPT ![pic.core] = FALSE]
    /\ NextStep
    /\ UNCHANGED <<timer, sigalrm, intpending, usr1, blocked, int_disabled, stack>>

-----------------------------------------------------------------------------
(* Signals and dispatching.                                                *)

(* The host delivers SIGUSR1 and blocks it for the time of the handler.    *)
Deliver(c) ==
    /\ usr1[c] /\ ~ blocked[c]
    /\ HasRoom(c)
    /\ usr1' = [usr1 EXCEPT ![c] = FALSE]
    /\ blocked' = [blocked EXCEPT ![c] = TRUE]
    /\ Push(c, Frame("signal", 0, TRUE))
    /\ UNCHANGED <<timer, sigalrm, intpending, int_disabled, halted, pic>>

(* The frame on top ends; the end of a signal handler restores the mask.   *)
End(c) ==
    /\ Pop(c)
    /\ blocked' = [blocked EXCEPT ![c] = IF Top(c).sig THEN FALSE ELSE @]

sigusr1_handler(c) ==
    /\ At(c, "signal")
    /\ IF int_disabled[c] THEN End(c) ELSE Go(c, "loop", ALARM) /\ UNCHANGED blocked
    /\ UNCHANGED <<timer, sigalrm, intpending, usr1, int_disabled, halted, pic>>

(* The head of the loop of dispatch_interrupts.                            *)
InRange(n) == n < maximum_interrupt_no

dispatch_interrupts(c) ==
    LET n == Top(c).n IN
    /\ At(c, "loop")
    /\ IF int_disabled[c] \/ ~ InRange(n)
       THEN End(c)
       ELSE /\ IF n \in intpending[c] THEN Go(c, "call", n) ELSE Go(c, "loop", n + 1)
            /\ UNCHANGED blocked
    /\ UNCHANGED <<timer, sigalrm, intpending, usr1, int_disabled, halted, pic>>

(* The flag is cleared and the handler called.                             *)
CallHandler(c) ==
    /\ At(c, "call")
    /\ intpending' = [intpending EXCEPT ![c] = @ \ {Top(c).n}]
    /\ stack' = [stack EXCEPT ![c] =
                   <<Frame("guest", 0, FALSE), Frame("loop", Top(c).n + 1, Top(c).sig)>>
                     \o Tail(@)]
    /\ UNCHANGED <<timer, sigalrm, usr1, flagVars, pic>>

HandlerReturns(c) ==
    /\ At(c, "guest")
    /\ Len(stack[c]) > 1
    /\ ~ int_disabled[c]
    /\ Pop(c)
    /\ UNCHANGED <<timer, sigalrm, intpending, usr1, flagVars, pic>>

-----------------------------------------------------------------------------
(* The calls of the guest.                                                 *)

Calls(c) == At(c, "guest") /\ HasRoom(c)

cpu_disable_interrupts(c) ==
    /\ Calls(c)
    /\ ~ int_disabled[c]
    /\ blocked' = [blocked EXCEPT ![c] = TRUE]
    /\ Push(c, Frame("disable", 0, FALSE))
    /\ UNCHANGED <<timer, sigalrm, intpending, usr1, int_disabled, halted, pic>>

DisableEnds(c) ==
    /\ At(c, "disable")
    /\ int_disabled' = [int_disabled EXCEPT ![c] = TRUE]
    /\ Pop(c)
    /\ UNCHANGED <<timer, sigalrm, intpending, usr1, blocked, halted, pic>>

cpu_enable_interrupts(c) ==
    /\ Calls(c)
    /\ int_disabled[c]
    /\ int_disabled' = [int_disabled EXCEPT ![c] = FALSE]
    /\ Push(c, Frame("enable", 0, FALSE))
    /\ UNCHANGED <<timer, sigalrm, intpending, usr1, blocked, halted, pic>>

Unblock_forgotten(c) ==   \* a slip
    /\ UNCHANGED blocked
    /\ Go(c, "loop", ALARM)

Unblock(c) ==
    /\ blocked' = [blocked EXCEPT ![c] = FALSE]
    /\ Go(c, "loop", ALARM)

EnableEnds(c) ==
    /\ At(c, "enable")
    /\ Unblock(c)
    /\ UNCHANGED <<timer, sigalrm, intpending, usr1, int_disabled, halted, pic>>

(* timer_settime, with a duration or with zero; whether a SIGALRM that the *)
(* timer has sent is still read afterwards is unspecified by POSIX.        *)
bios_set_timer(c, armed) ==
    /\ Calls(c)
    /\ timer' = [timer EXCEPT ![c] = armed]
    /\ sigalrm' \in {sigalrm, sigalrm \ {c}}
    /\ Push(c, Frame("timer", 0, FALSE))
    /\ UNCHANGED <<intpending, usr1, flagVars, pic>>

SetTimerEnds(c) ==
    /\ At(c, "timer")
    /\ intpending' = [intpending EXCEPT ![c] = @ \ {ALARM}]
    /\ Pop(c)
    /\ UNCHANGED <<timer, sigalrm, usr1, flagVars, pic>>

cpu_core_halt(c) ==
    /\ Calls(c)
    /\ ~ int_disabled[c]
    /\ blocked' = [blocked EXCEPT ![c] = TRUE]
    /\ Push(c, Frame("halt", 0, FALSE))
    /\ UNCHANGED <<timer, sigalrm, intpending, usr1, int_disabled, halted, pic>>

MarkHalted(c) ==
    /\ At(c, "halt")
    /\ halted' = [halted EXCEPT ![c] = TRUE]
    /\ Go(c, "wait", 0)
    /\ UNCHANGED <<timer, sigalrm, intpending, usr1, blocked, int_disabled, pic>>

HaltEnds(c) ==
    /\ At(c, "wait")
    /\ ~ halted[c]
    /\ Unblock(c)
    /\ UNCHANGED <<timer, sigalrm, intpending, usr1, int_disabled, halted, pic>>

cpu_core_restart_one(c) ==
    /\ At(c, "guest")
    /\ \E d \in Cores : halted[d] /\ halted' = [halted EXCEPT ![d] = FALSE]
    /\ UNCHANGED <<timer, sigalrm, intpending, usr1, blocked, int_disabled, stack, pic>>

cpu_core_restart_all(c) ==
    /\ At(c, "guest")
    /\ halted' = [d \in Cores |-> FALSE]
    /\ UNCHANGED <<timer, sigalrm, intpending, usr1, blocked, int_disabled, stack, pic>>

-----------------------------------------------------------------------------
PIC_daemon ==
    \/ \E c \in Cores : PICAlarm(c)
    \/ PICSerial
    \/ Mark
    \/ Send
    \/ cpu_core_restart

Guest(c) ==
    \/ HandlerReturns(c)
    \/ cpu_disable_interrupts(c)
    \/ cpu_enable_interrupts(c)
    \/ \E armed \in BOOLEAN : bios_set_timer(c, armed)
    \/ cpu_core_halt(c)
    \/ cpu_core_restart_one(c)
    \/ cpu_core_restart_all(c)

Bios(c) ==
    \/ Deliver(c)
    \/ sigusr1_handler(c)
    \/ dispatch_interrupts(c)
    \/ CallHandler(c)
    \/ DisableEnds(c)
    \/ EnableEnds(c)
    \/ SetTimerEnds(c)
    \/ MarkHalted(c)
    \/ HaltEnds(c)

Next ==
    \/ \E c \in Cores : TimerExpires(c) \/ Guest(c) \/ Bios(c)
    \/ PIC_daemon

Spec == Init /\ [][Next]_vars

(* The daemon goes on, and raises the serial interrupts again after each   *)
(* SERIAL_TIMEOUT; the host runs the threads of the cores and delivers     *)
(* signals.  The guest returns from handlers and enables interrupts that   *)
(* it has disabled, though other signals may always come first.            *)
Fairness ==
    /\ WF_vars(PIC_daemon)
    /\ SF_vars(PICSerial)
    /\ \A c \in Cores :
         /\ WF_vars(Bios(c))
         /\ SF_vars(Deliver(c))
         /\ SF_vars(HandlerReturns(c))
         /\ SF_vars(cpu_enable_interrupts(c))

FairSpec == Spec /\ Fairness

-----------------------------------------------------------------------------
(* Properties.                                                             *)

(* The states of the variables; loops over interrupts stay in the arrays   *)
(* that they index.                                                        *)
TypeOK ==
    /\ timer \in [Cores -> BOOLEAN]
    /\ sigalrm \subseteq Cores
    /\ intpending \in [Cores -> SUBSET InterruptNos]
    /\ usr1 \in [Cores -> BOOLEAN]
    /\ blocked \in [Cores -> BOOLEAN]
    /\ int_disabled \in [Cores -> BOOLEAN]
    /\ halted \in [Cores -> BOOLEAN]
    /\ \A c \in Cores :
         stack[c] \in Seq([at : Places, n : 0 .. maximum_interrupt_no, sig : BOOLEAN])
    /\ pic \in [step : 0 .. Len(raise_interrupt), core : Cores, n : InterruptNos]

(* The two masks agree: no handler can start while interrupts are          *)
(* disabled, and a core that is outside of the BIOS and of handlers        *)
(* receives signals exactly when interrupts are enabled.                   *)
MasksAgree ==
    /\ TypeOK
    /\ \A c \in Cores :
         /\ int_disabled[c] => blocked[c]
         /\ Len(stack[c]) = 1 => blocked[c] = int_disabled[c]

(* A frame that will look at interrupt n before it ends.                   *)
WillDispatch(f, n) ==
    \/ f.at \in {"enable", "halt", "wait", "signal"}
    \/ f.at \in {"loop", "call"} /\ f.n <= n

(* No interrupt is forgotten: one that is pending has a signal on its way, *)
(* or its core is disabled and will dispatch when it is enabled, or is in  *)
(* a loop that will come to it.  Signals are merged, and loops interrupted *)
(* by other loops on the same flags.                                       *)
NoInterruptForgotten ==
    \A c \in Cores : \A n \in intpending[c] :
      \/ usr1[c]
      \/ Does("send") /\ pic.core = c
      \/ int_disabled[c]
      \/ \E k \in DOMAIN stack[c] : WillDispatch(stack[c][k], n)

(* Every interrupt of the core that serves the devices is dispatched at    *)
(* last, also one that was raised in the window of cpu_core_halt between   *)
(* the blocking of the signal and the mark: the next serial interrupt      *)
(* restarts the core.  A core without devices has no such rescue.          *)
InterruptIsServed ==
    \A n \in InterruptNos : n \in intpending[SerialCore] ~> n \notin intpending[SerialCore]

=============================================================================
