------------------------------- MODULE Serial -------------------------------
(***************************************************************************)
(* The terminals, from the keyboard to Read and from Write to the screen:  *)
(* the serial driver of kernel_dev.c, the io_devices and the device part   *)
(* of the PIC daemon of bios.c.                                            *)
(*                                                                         *)
(* The driver sleeps with kernel_wait, which is one step here (module      *)
(* Monitor says what it promises).  But it tests the device before it      *)
(* sleeps, and the interrupt handler broadcasts without the kernel lock:   *)
(* a broadcast between the test and the sleep is lost.  What makes up for  *)
(* it is that the PIC raises SERIAL_RX_READY again whenever a device has   *)
(* been inactive for SERIAL_TIMEOUT.                                       *)
(*                                                                         *)
(* Bytes are counted and not told apart.  The arrival of an interrupt at   *)
(* its core is one step (module Machine has the steps).                    *)
(***************************************************************************)
EXTENDS Naturals

CONSTANTS
    Readers, Writers,   \* threads in Read and in Write
    NTerm,              \* the number of terminals
    Term,               \* the terminal of each thread
    Size,               \* the size argument of Read and Write
    Capacity,           \* what a FIFO to or from a terminal holds
    SERIAL_TIMEOUT,     \* in turns of the PIC daemon that end by timeout
    Nobody

ASSUME SerialAssumption ==
    /\ NTerm \in Nat \ {0}
    /\ Size \in Nat \ {0}
    /\ Capacity \in Nat \ {0}
    /\ SERIAL_TIMEOUT \in Nat
    /\ Term \in [Readers \cup Writers -> 1 .. NTerm]
    /\ Nobody \notin Readers \cup Writers

Threads   == Readers \cup Writers
Terminals == 1 .. NTerm

VARIABLES
    kbd,         \* bytes in the FIFO of the keyboard
    con,         \* bytes in the FIFO of the screen
    kbd_ready,   \* io_device.ready of the keyboard
    age,         \* system_clock - last_int of the keyboard
    pic,         \* where the PIC daemon is
    watched,     \* the keyboards that the PIC daemon selects
    found,       \* the keyboards that select or the timeout has reported
    usr1,        \* a SIGUSR1 is pending for the PIC daemon
    pending,     \* SERIAL_RX_READY is pending at its core
    handler,     \* the terminal that serial_rx_handler signals next, or 0
    kernel,      \* the thread that is in the kernel
    pc,          \* where each thread is
    count          \* the bytes that its call has transferred

deviceVars == <<kbd, con, kbd_ready>>
picVars    == <<age, pic, watched, found>>
threadVars == <<kernel, pc, count>>
vars       == <<deviceVars, picVars, usr1, pending, handler, threadVars>>

(* Positions of a thread:                                                  *)
(*   user     outside of Read and Write                                    *)
(*   lock     waits for the kernel lock                                    *)
(*   try      in the loop of the driver                                    *)
(*   empty    has found no byte, before the test of the ready flag         *)
(*   notify   has marked the device not ready, must interrupt the PIC      *)
(*   sleep    is about to call kernel_wait                                 *)
(*   asleep   sleeps on rx_ready                                           *)
Places == {"user", "lock", "try", "empty", "notify", "sleep", "asleep"}

Init ==
    /\ kbd = [t \in Terminals |-> 0]
    /\ con = [t \in Terminals |-> 0]
    /\ kbd_ready = [t \in Terminals |-> FALSE]
    /\ age = [t \in Terminals |-> 0]
    /\ pic = "prepare"
    /\ watched = {}
    /\ found = {}
    /\ usr1 = FALSE
    /\ pending = FALSE
    /\ handler = 0
    /\ kernel = Nobody
    /\ pc = [r \in Threads |-> "user"]
    /\ count = [r \in Threads |-> 0]

Go(r, place) == pc' = [pc EXCEPT ![r] = place]

-----------------------------------------------------------------------------
(* The terminals: a key is pressed, a character is displayed.              *)

KeyPressed(t) ==
    /\ kbd[t] < Capacity
    /\ kbd' = [kbd EXCEPT ![t] = @ + 1]
    /\ UNCHANGED <<con, kbd_ready, picVars, usr1, pending, handler, threadVars>>

Displayed(t) ==
    /\ con[t] > 0
    /\ con' = [con EXCEPT ![t] = @ - 1]
    /\ UNCHANGED <<kbd, kbd_ready, picVars, usr1, pending, handler, threadVars>>

-----------------------------------------------------------------------------
(* Read and Write, with the kernel lock from the system call.              *)

Call(r) ==
    /\ pc[r] = "user"
    /\ Go(r, "lock")
    /\ count' = [count EXCEPT ![r] = 0]
    /\ UNCHANGED <<deviceVars, picVars, usr1, pending, handler, kernel>>

(* kernel_lock at the start of the call, and at the end of kernel_wait.    *)
Lock(r) ==
    /\ pc[r] = "lock"
    /\ kernel = Nobody
    /\ kernel' = r
    /\ Go(r, "try")
    /\ UNCHANGED <<deviceVars, picVars, usr1, pending, handler, count>>

(* Slip: the call returns with the kernel locked.                          *)
Return_locked(r) ==
    /\ UNCHANGED kernel
    /\ Go(r, "user")

Return(r) ==
    /\ kernel' = Nobody
    /\ Go(r, "user")

(* The loop has transferred a byte; it goes on or ends.                    *)
Transferred(r) ==
    /\ count' = [count EXCEPT ![r] = @ + 1]
    /\ IF count[r] + 1 < Size THEN UNCHANGED <<kernel, pc>> ELSE Return(r)

(* What the loops do when the device could not transfer a byte.            *)
NotTransferred(r) ==
    /\ UNCHANGED count
    /\ IF count[r] > 0 THEN Return(r)
       ELSE Go(r, IF r \in Readers THEN "sleep" ELSE "try") /\ UNCHANGED kernel

(* bios_read_serial in the loop of serial_read.                            *)
io_device_read(r) ==
    LET t == Term[r] IN
    /\ pc[r] = "try" /\ r \in Readers
    /\ IF kbd[t] > 0
       THEN kbd' = [kbd EXCEPT ![t] = @ - 1] /\ Transferred(r)
       ELSE Go(r, "empty") /\ UNCHANGED <<kbd, kernel, count>>
    /\ UNCHANGED <<con, kbd_ready, picVars, usr1, pending, handler>>

(* A keyboard that is ready, perhaps only since the read has failed, is    *)
(* marked not ready; InterruptPIC is the rest.                             *)
io_device_read_failed(r) ==
    LET t == Term[r] IN
    /\ pc[r] = "empty"
    /\ kbd_ready' = [kbd_ready EXCEPT ![t] = FALSE]
    /\ IF kbd_ready[t]
       THEN Go(r, "notify") /\ UNCHANGED <<kernel, count>>
       ELSE NotTransferred(r)
    /\ UNCHANGED <<kbd, con, picVars, usr1, pending, handler>>

(* bios_write_serial in the loop of serial_write, which polls: it keeps    *)
(* the kernel lock while it yields.  The ready flag of the screen is left  *)
(* out: all it leads to is serial_tx_handler, which does nothing.          *)
io_device_write(r) ==
    LET t == Term[r] IN
    /\ pc[r] = "try" /\ r \in Writers
    /\ IF con[t] < Capacity
       THEN con' = [con EXCEPT ![t] = @ + 1] /\ Transferred(r)
       ELSE NotTransferred(r) /\ UNCHANGED con
    /\ UNCHANGED <<kbd, kbd_ready, picVars, usr1, pending, handler>>

(* Slip: the PIC is not interrupted.                                       *)
interrupt_pic_thread_never == UNCHANGED usr1

interrupt_pic_thread == usr1' = TRUE

InterruptPIC(r) ==
    /\ pc[r] = "notify"
    /\ interrupt_pic_thread
    /\ NotTransferred(r)
    /\ UNCHANGED <<deviceVars, picVars, pending, handler>>

kernel_wait(r) ==
    /\ pc[r] = "sleep"
    /\ kernel' = Nobody
    /\ Go(r, "asleep")
    /\ UNCHANGED <<deviceVars, picVars, usr1, pending, handler, count>>

-----------------------------------------------------------------------------
(* The PIC daemon.                                                         *)

(* The descriptor sets: devices that are not ready are selected.           *)
Prepare ==
    /\ pic = "prepare"
    /\ watched' = {t \in Terminals : ~ kbd_ready[t]}
    /\ pic' = "select"
    /\ UNCHANGED <<deviceVars, age, found, usr1, pending, handler, threadVars>>

Readable == {t \in watched : kbd[t] > 0}

(* The device has been inactive for more than SERIAL_TIMEOUT.              *)
Inactive(t, elapsed) == age[t] + elapsed > SERIAL_TIMEOUT

(* select returns after SLOW_HZ, or before (a keyboard, a screen, a timer  *)
(* or SIGUSR1 may end it); SIGUSR1 is discarded.                           *)
Select(elapsed) ==
    /\ pic = "select"
    /\ usr1' = FALSE
    /\ found' = Readable \cup {t \in Terminals : Inactive(t, elapsed)}
    /\ age' = [t \in Terminals |-> IF t \in found' THEN 0 ELSE age[t] + elapsed]
    /\ pic' = "serve"
    /\ UNCHANGED <<deviceVars, watched, pending, handler, threadVars>>

Reported(t) == pic = "serve" /\ t \in found /\ \A u \in found : t <= u

(* Slip: only a device that was not ready raises its interrupt.            *)
Serve_once(t) ==
    /\ Reported(t)
    /\ found' = found \ {t}
    /\ kbd_ready' = [kbd_ready EXCEPT ![t] = TRUE]
    /\ pending' = (pending \/ ~ kbd_ready[t])
    /\ UNCHANGED <<kbd, con, age, pic, watched, usr1, handler, threadVars>>

(* One turn of the loop over the devices: SERIAL_RX_READY is raised.       *)
Serve(t) ==
    /\ Reported(t)
    /\ found' = found \ {t}
    /\ kbd_ready' = [kbd_ready EXCEPT ![t] = TRUE]
    /\ pending' = TRUE
    /\ UNCHANGED <<kbd, con, age, pic, watched, usr1, handler, threadVars>>

Served ==
    /\ pic = "serve"
    /\ found = {}
    /\ pic' = "prepare"
    /\ UNCHANGED <<deviceVars, age, watched, found, usr1, pending, handler, threadVars>>

-----------------------------------------------------------------------------
(* The core dispatches the interrupt.                                      *)

dispatch_interrupts ==
    /\ pending
    /\ handler = 0
    /\ pending' = FALSE
    /\ handler' = 1
    /\ UNCHANGED <<deviceVars, picVars, usr1, threadVars>>

NextTerminal(t) == IF t < NTerm THEN t + 1 ELSE 0

(* One turn of the loop: Cond_Broadcast of rx_ready.                       *)
serial_rx_handler ==
    /\ handler # 0
    /\ pc' = [r \in Threads |->
                IF pc[r] = "asleep" /\ Term[r] = handler THEN "lock" ELSE pc[r]]
    /\ handler' = NextTerminal(handler)
    /\ UNCHANGED <<deviceVars, picVars, usr1, pending, kernel, count>>

-----------------------------------------------------------------------------
Thread(r) ==
    \/ Lock(r)
    \/ io_device_read(r)
    \/ io_device_read_failed(r)
    \/ io_device_write(r)
    \/ InterruptPIC(r)
    \/ kernel_wait(r)

PIC_daemon ==
    \/ Prepare
    \/ \E elapsed \in {0, 1} : Select(elapsed)
    \/ \E t \in Terminals : Serve(t)
    \/ Served

Interrupt == dispatch_interrupts \/ serial_rx_handler

Next ==
    \/ \E t \in Terminals : KeyPressed(t) \/ Displayed(t)
    \/ \E r \in Threads : Call(r) \/ Thread(r)
    \/ PIC_daemon
    \/ Interrupt

Spec == Init /\ [][Next]_vars

(* Threads in a call, the PIC daemon and the core of the interrupt go on;  *)
(* time passes in select; the terminal displays what it is sent.  Nobody   *)
(* need press a key or call Read.  The kernel lock is not fair: a thread   *)
(* that wants it gets it for certain only if it stays free.                *)
Fairness ==
    /\ \A r \in Threads : WF_vars(Thread(r))
    /\ WF_vars(PIC_daemon)
    /\ SF_vars(Select(1))
    /\ WF_vars(Interrupt)
    /\ \A t \in Terminals : WF_vars(Displayed(t))

FairSpec == Spec /\ Fairness

-----------------------------------------------------------------------------
(* Properties.                                                             *)

(* Every variable keeps its type: no FIFO overflows, no call transfers     *)
(* more than Size bytes.                                                   *)
TypeOK ==
    /\ kbd \in [Terminals -> 0 .. Capacity]
    /\ con \in [Terminals -> 0 .. Capacity]
    /\ kbd_ready \in [Terminals -> BOOLEAN]
    /\ age \in [Terminals -> 0 .. SERIAL_TIMEOUT]
    /\ pic \in {"prepare", "select", "serve"}
    /\ watched \subseteq Terminals
    /\ found \subseteq Terminals
    /\ usr1 \in BOOLEAN
    /\ pending \in BOOLEAN
    /\ handler \in 0 .. NTerm
    /\ kernel \in Threads \cup {Nobody}
    /\ pc \in [Threads -> Places]
    /\ count \in [Threads -> 0 .. Size]

(* The PIC daemon never sleeps in select without a keyboard that is not    *)
(* ready, unless it is about to be interrupted: io_device_read interrupts  *)
(* it after clearing the flag that Prepare reads.                          *)
KeyboardIsWatched ==
    /\ TypeOK
    /\ pic = "select" =>
         \A t \in Terminals \ watched :
           \/ kbd_ready[t]
           \/ usr1
           \/ \E r \in Readers : pc[r] = "notify" /\ Term[r] = t

(* What kernel_lock allows: the lock becomes free again and again, and     *)
(* others take it each time.                                               *)
Starved(r) == []<> (kernel = Nobody) /\ <>[] (pc[r] = "lock")

(* A call of Read does not stay in the kernel, asleep or not, while its    *)
(* terminal has input, but for starvation at the kernel lock: whatever     *)
(* broadcast is lost, and whoever else was woken for the same byte, the    *)
(* reader is woken again.                                                  *)
InputIsRead ==
    \A r \in Readers :
       \/ []<> (pc[r] = "user" \/ kbd[Term[r]] = 0)
       \/ Starved(r)

(* A call of Write ends, and so gives the kernel lock back, although it    *)
(* polls with the lock held.  What can keep it out is starvation, where    *)
(* all who take the lock give it back.                                     *)
WriteEnds ==
    \A r \in Writers : []<> (pc[r] = "user") \/ Starved(r)

=============================================================================
