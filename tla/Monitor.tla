------------------------------- MODULE Monitor -------------------------------
(***************************************************************************)
(* What kernel_cc.c promises the system calls: a lock that at most one     *)
(* thread holds, and channels on which the holder waits, giving the lock   *)
(* up and joining the waiters in one step.  A signal wakes the thread that *)
(* has waited longest; a broadcast wakes every waiter.  Nothing else wakes *)
(* a thread, except its timeout.                                           *)
(*                                                                         *)
(* Module KernelMonitor is shown to implement this specification.          *)
(***************************************************************************)
EXTENDS Integers, Sequences, FiniteSets, SequencesExt

CONSTANTS Threads, Devices, Channels

VARIABLES
    place,       \* where each thread is with respect to the lock
    waiters,     \* the threads that wait on each channel, in order
    sending      \* the signals that each thread or device is sending

vars == <<place, waiters, sending>>

Quiet == [channel |-> << >>, all |-> FALSE]
Sent(v, broadcast) == [channel |-> <<v>>, all |-> broadcast]

Init ==
    /\ place = [t \in Threads |-> "out"]
    /\ waiters = [v \in Channels |-> << >>]
    /\ sending = [a \in Threads \cup Devices |-> Quiet]

Free == \A t \in Threads : place[t] # "in"

Move(t, from, to) == place[t] = from /\ place' = [place EXCEPT ![t] = to]

Ask(t) == Move(t, "out", "asking") /\ UNCHANGED <<waiters, sending>>

Enter(t) == Free /\ Move(t, "asking", "in") /\ UNCHANGED <<waiters, sending>>

(* The holder of the lock leaves, unless it is in the middle of a signal.  *)
Leave(t, to) ==
    sending[t] = Quiet /\ Move(t, "in", to) /\ UNCHANGED sending

Unlock(t) == Leave(t, "out") /\ UNCHANGED waiters

Exit(t) == Leave(t, "gone") /\ UNCHANGED waiters

Wait(t, v) ==
    Leave(t, "waiting") /\ waiters' = [waiters EXCEPT ![v] = Append(@, t)]

(* A thread signals while it holds the lock, a device at any time.         *)
Send(a, v, broadcast) ==
    /\ a \in Threads => place[a] = "in"
    /\ sending[a] = Quiet
    /\ sending' = [sending EXCEPT ![a] = Sent(v, broadcast)]
    /\ UNCHANGED <<place, waiters>>

(* The oldest waiter is woken; that completes a signal.                    *)
WakeFirst(a, v) ==
    /\ sending[a].channel = <<v>>
    /\ waiters[v] # << >>
    /\ Move(Head(waiters[v]), "waiting", "asking")
    /\ waiters' = [waiters EXCEPT ![v] = Tail(@)]
    /\ sending' = IF sending[a].all THEN sending ELSE [sending EXCEPT ![a] = Quiet]

(* A broadcast, or a signal that woke nobody, ends when nobody waits.      *)
EndSend(a, v) ==
    /\ sending[a].channel = <<v>>
    /\ waiters[v] = << >>
    /\ sending' = [sending EXCEPT ![a] = Quiet]
    /\ UNCHANGED <<place, waiters>>

Timeout(t, v) ==
    /\ Move(t, "waiting", "asking")
    /\ \E i \in DOMAIN waiters[v] :
         waiters[v][i] = t /\ waiters' = [waiters EXCEPT ![v] = RemoveAt(@, i)]
    /\ UNCHANGED sending

Next ==
    \/ \E t \in Threads :
         \/ Ask(t)
         \/ Enter(t)
         \/ Unlock(t)
         \/ Exit(t)
         \/ \E v \in Channels : Wait(t, v) \/ Timeout(t, v)
    \/ \E a \in Threads \cup Devices, v \in Channels :
         \/ \E broadcast \in BOOLEAN : Send(a, v, broadcast)
         \/ WakeFirst(a, v)
         \/ EndSend(a, v)

Spec == Init /\ [][Next]_vars

(* When the lock is free and somebody asks for it, somebody gets it.       *)
LockIsGranted == WF_vars(\E t \in Threads : Enter(t))

=============================================================================
