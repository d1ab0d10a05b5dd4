---------------------------- MODULE MachineProofs ----------------------------
(***************************************************************************)
(* Proofs about the interrupts of the virtual machine, for any number of   *)
(* cores and any depth of nested handlers.                                 *)
(*                                                                         *)
(* Interrupts may come between any two steps of the functions that mask    *)
(* and dispatch them, so the invariant describes the whole stack of a      *)
(* core: which frames can be below others, and which frame on top the two  *)
(* masks allow.                                                            *)
(***************************************************************************)
EXTENDS Machine, SequenceTheorems, TLAPS

Frames == [at : Places, n : 0 .. maximum_interrupt_no, sig : BOOLEAN]

(* The places at which a signal can interrupt a core, and which therefore  *)
(* can be below another frame.                                             *)
Interruptible == {"guest", "timer", "loop", "call"}

(* The frames of a stack: the guest is at the bottom; what disables        *)
(* interrupts or sets a timer was called by the guest; only a handler of a *)
(* signal remembers a mask.                                                *)
GoodFrame(s, k) ==
    /\ s[k].at \in {"disable", "timer"} => k < Len(s) /\ s[k + 1].at = "guest"
    /\ s[k].sig => s[k].at \in {"signal", "loop", "call"}
    /\ s[k].at = "signal" => s[k].sig
    /\ s[k].at = "call" => s[k].n \in InterruptNos
    /\ k > 1 => s[k].at \in Interruptible

GoodStack(s) ==
    /\ s \in Seq(Frames)
    /\ Len(s) > 0
    /\ s[Len(s)].at = "guest"
    /\ \A k \in 1 .. Len(s) : GoodFrame(s, k)

(* The masks of a core with stack s: interrupts are disabled only in the   *)
(* guest and bios_set_timer; the functions that change the masks run with  *)
(* the signal blocked; and the signal is blocked with interrupts enabled   *)
(* only by them and by a signal handler.                                   *)
GoodMasks(s, b, d) ==
    /\ d => b /\ s[1].at \in {"guest", "timer"}
    /\ s[1].at \notin Interruptible => b /\ ~ d
    /\ b /\ ~ d => s[1].at \notin Interruptible \/ \E k \in 1 .. Len(s) : s[k].sig

CoreInvariant ==
    /\ stack \in [Cores -> Seq(Frames)]
    /\ \A c \in Cores : GoodStack(stack[c]) /\ GoodMasks(stack[c], blocked[c], int_disabled[c])

MachineInv == TypeOK /\ CoreInvariant /\ NoInterruptForgotten

-----------------------------------------------------------------------------
(* The operations on a stack.                                              *)

(* A call or a signal puts a frame on top.                                 *)
LEMMA PushFrame ==
    ASSUME NEW s, GoodStack(s), s[1].at \in Interruptible, NEW f \in Frames,
           f.at \in {"disable", "timer"} => s[1].at = "guest",
           f.sig <=> f.at = "signal", f.at # "call"
    PROVE  /\ GoodStack(<<f>> \o s)
           /\ Len(<<f>> \o s) = Len(s) + 1
           /\ (<<f>> \o s)[1] = f
           /\ \A k \in 1 .. Len(s) : (<<f>> \o s)[k + 1] = s[k]
<1> DEFINE r == <<f>> \o s
<1>1. s \in Seq(Frames) /\ Len(s) \in Nat /\ Len(s) > 0
  BY DEF GoodStack
<1>2. <<f>> \in Seq(Frames) /\ Len(<<f>>) = 1 /\ <<f>>[1] = f
  OBVIOUS
<1>3. /\ r \in Seq(Frames)
      /\ Len(r) = Len(s) + 1
      /\ \A k \in 1 .. Len(s) + 1 : r[k] = IF k <= 1 THEN <<f>>[k] ELSE s[k - 1]
  BY <1>1, <1>2, ConcatProperties
<1>4. r[1] = f /\ \A k \in 1 .. Len(s) : r[k + 1] = s[k]
  BY <1>1, <1>2, <1>3
<1> HIDE DEF r
<1>5. r[Len(r)].at = "guest"
  BY <1>1, <1>3, <1>4 DEF GoodStack
<1>6. ASSUME NEW k \in 1 .. Len(r) PROVE GoodFrame(r, k)
  <2>1. CASE k = 1
    BY <1>1, <1>3, <1>4, <2>1 DEF GoodFrame
  <2>2. CASE k > 1
    <3>1. PICK j \in 1 .. Len(s) : k = j + 1
      BY <1>1, <1>3, <2>2
    <3>2. GoodFrame(s, j)
      BY <3>1 DEF GoodStack
    <3>3. r[k] = s[j] /\ (j < Len(s) => r[k + 1] = s[j + 1])
      BY <1>1, <1>4, <3>1
    <3>4. s[j].at \in Interruptible
      BY <3>1, <3>2 DEF GoodFrame
    <3> QED BY <1>1, <1>3, <3>1, <3>2, <3>3, <3>4 DEF GoodFrame
  <2> QED BY <1>1, <1>3, <2>1, <2>2
<1> QED BY <1>3, <1>4, <1>5, <1>6 DEF GoodStack, r

(* A frame ends.  It is not the last one, which is the guest.              *)
LEMMA PopFrame ==
    ASSUME NEW s, GoodStack(s), Len(s) > 1
    PROVE  /\ GoodStack(Tail(s))
           /\ Len(Tail(s)) = Len(s) - 1
           /\ \A k \in 1 .. Len(s) - 1 : Tail(s)[k] = s[k + 1]
           /\ Tail(s)[1].at \in Interruptible
<1> DEFINE r == Tail(s)
<1>1. s \in Seq(Frames) /\ Len(s) \in Nat
  BY DEF GoodStack
<1>2. /\ r \in Seq(Frames)
      /\ Len(r) = Len(s) - 1
      /\ \A k \in 1 .. Len(s) - 1 : r[k] = s[k + 1]
  BY <1>1, HeadTailProperties
<1> HIDE DEF r
<1>3. r[Len(r)].at = "guest"
  BY <1>1, <1>2 DEF GoodStack
<1>4. ASSUME NEW k \in 1 .. Len(r)
      PROVE  GoodFrame(r, k) /\ r[k].at \in Interruptible
  <2>1. k + 1 \in 1 .. Len(s) /\ GoodFrame(s, k + 1)
    BY <1>1, <1>2 DEF GoodStack
  <2>2. r[k] = s[k + 1] /\ (k + 1 < Len(s) => r[k + 1] = s[k + 2])
    BY <1>1, <1>2
  <2> QED BY <1>1, <1>2, <2>1, <2>2 DEF GoodFrame
<1> QED BY <1>1, <1>2, <1>3, <1>4 DEF GoodStack, r

(* The frame on top goes to another place.                                 *)
LEMMA GoFrame ==
    ASSUME NEW s, GoodStack(s), s[1].at # "guest", NEW f \in Frames,
           f.at \notin {"disable", "timer", "signal"},
           f.sig => f.at \in {"loop", "call"},
           f.at = "call" => f.n \in InterruptNos
    PROVE  /\ GoodStack([s EXCEPT ![1] = f])
           /\ Len([s EXCEPT ![1] = f]) = Len(s)
           /\ [s EXCEPT ![1] = f][1] = f
           /\ \A k \in 2 .. Len(s) : [s EXCEPT ![1] = f][k] = s[k]
<1> DEFINE r == [s EXCEPT ![1] = f]
<1>1. s \in Seq(Frames) /\ Len(s) \in Nat /\ Len(s) > 0 /\ s[Len(s)].at = "guest"
  BY DEF GoodStack
<1>2. Len(s) > 1
  BY <1>1
<1>3. /\ r \in Seq(Frames)
      /\ Len(r) = Len(s)
      /\ r[1] = f
      /\ \A k \in 2 .. Len(s) : r[k] = s[k]
  BY <1>1, <1>2, ExceptSeq
<1> HIDE DEF r
<1>4. ASSUME NEW k \in 1 .. Len(r) PROVE GoodFrame(r, k)
  <2>1. CASE k = 1
    BY <1>1, <1>3, <2>1 DEF GoodFrame
  <2>2. CASE k > 1
    <3>1. GoodFrame(s, k)
      BY <1>3 DEF GoodStack
    <3>2. r[k] = s[k] /\ (k < Len(s) => r[k + 1] = s[k + 1])
      BY <1>1, <1>3, <2>2
    <3> QED BY <1>1, <1>3, <2>2, <3>1, <3>2 DEF GoodFrame
  <2> QED BY <1>1, <1>3, <2>1, <2>2
<1>5. GoodStack(r)
  BY <1>1, <1>2, <1>3, <1>4 DEF GoodStack
<1> QED BY <1>3, <1>5 DEF r

(* A handler is called from the loop of dispatch_interrupts.               *)
LEMMA CallFrame ==
    ASSUME NEW s, GoodStack(s), s[1].at = "call"
    PROVE  LET f == Frame("loop", s[1].n + 1, s[1].sig)
               r == <<Frame("guest", 0, FALSE), f>> \o Tail(s)
           IN  /\ GoodStack(r)
               /\ Len(r) = Len(s) + 1
               /\ r[1] = Frame("guest", 0, FALSE)
               /\ r[2] = f
               /\ \A k \in 2 .. Len(s) : r[k + 1] = s[k]
<1> DEFINE g == Frame("guest", 0, FALSE)
           f == Frame("loop", s[1].n + 1, s[1].sig)
           u == [s EXCEPT ![1] = f]
           r == <<g, f>> \o Tail(s)
<1>1. s \in Seq(Frames) /\ Len(s) \in Nat /\ Len(s) > 0 /\ s[1] \in Frames /\ GoodFrame(s, 1)
  BY DEF GoodStack
<1>2. g \in Frames /\ f \in Frames /\ f.at = "loop" /\ g.at = "guest" /\ ~ g.sig
  BY <1>1 DEF Frames, Frame, Places, GoodFrame, InterruptNos, ALARM, SERIAL, maximum_interrupt_no
<1> HIDE DEF g, f
<1>3. /\ GoodStack(u) /\ Len(u) = Len(s) /\ u[1] = f
      /\ \A k \in 2 .. Len(s) : u[k] = s[k]
  BY <1>2, GoFrame
<1> HIDE DEF u
<1>4. /\ GoodStack(<<g>> \o u) /\ Len(<<g>> \o u) = Len(s) + 1 /\ (<<g>> \o u)[1] = g
      /\ \A k \in 1 .. Len(s) : (<<g>> \o u)[k + 1] = u[k]
  <2>1. u[1].at \in Interruptible /\ g.at \notin {"disable", "timer", "call", "signal"}
    BY <1>2, <1>3 DEF Interruptible
  <2> QED BY <1>2, <1>3, <2>1, PushFrame
<1>5. r = <<g>> \o u
  <2>1. /\ Tail(s) \in Seq(Frames) /\ Len(Tail(s)) = Len(s) - 1
        /\ \A k \in 1 .. Len(s) - 1 : Tail(s)[k] = s[k + 1]
    BY <1>1, HeadTailProperties
  <2>2. <<g, f>> \in Seq(Frames) /\ Len(<<g, f>>) = 2 /\ <<g, f>>[1] = g /\ <<g, f>>[2] = f
    BY <1>2
  <2> DEFINE t == Tail(s)
             h == <<g, f>>
  <2> HIDE DEF t, h
  <2>3. /\ h \o t \in Seq(Frames)
        /\ Len(h \o t) = Len(s) + 1
        /\ \A k \in 1 .. Len(s) + 1 : (h \o t)[k] = IF k <= 2 THEN h[k] ELSE t[k - 2]
    BY <1>1, <2>1, <2>2, ConcatProperties DEF t, h
  <2>4. \A k \in 1 .. Len(s) + 1 : (h \o t)[k] = (<<g>> \o u)[k]
    <3> SUFFICES ASSUME NEW k \in 1 .. Len(s) + 1 PROVE (h \o t)[k] = (<<g>> \o u)[k]
      OBVIOUS
    <3>1. CASE k = 1
      BY <1>1, <1>4, <2>2, <2>3, <3>1 DEF h
    <3>2. CASE k = 2
      <4>1. (<<g>> \o u)[1 + 1] = u[1]
        BY <1>1, <1>4
      <4> QED BY <1>1, <1>3, <2>2, <2>3, <3>2, <4>1 DEF h
    <3>3. CASE k > 2
      <4>1. PICK j \in 2 .. Len(s) : k = j + 1
        BY <1>1, <3>3
      <4>2. (<<g>> \o u)[j + 1] = u[j] /\ u[j] = s[j]
        BY <1>1, <1>3, <1>4, <4>1
      <4>3. (h \o t)[k] = t[j - 1] /\ t[j - 1] = s[j]
        BY <1>1, <2>1, <2>3, <4>1 DEF t
      <4> QED BY <4>1, <4>2, <4>3
    <3>4. k = 1 \/ k = 2 \/ k > 2
      BY <1>1
    <3> QED BY <3>1, <3>2, <3>3, <3>4
  <2>5. <<g>> \o u \in Seq(Frames)
    BY <1>4 DEF GoodStack
  <2> QED BY <1>1, <1>4, <2>3, <2>4, <2>5, SeqEqual DEF t, h
<1>6. r[2] = f /\ \A k \in 2 .. Len(s) : r[k + 1] = s[k]
  <2>1. r[1 + 1] = u[1]
    BY <1>1, <1>4, <1>5
  <2> QED BY <1>1, <1>3, <1>4, <1>5, <2>1
<1>7. GoodStack(r) /\ Len(r) = Len(s) + 1 /\ r[1] = g
  BY <1>4, <1>5
<1> QED
  BY <1>6, <1>7 DEF g, f, r
-----------------------------------------------------------------------------
LEMMA RaiseInterrupt ==
    /\ Len(raise_interrupt) = 3
    /\ raise_interrupt[1] = "mark" /\ raise_interrupt[2] = "send" /\ raise_interrupt[3] = "restart"
  BY DEF raise_interrupt

(* TypeOK, without the length of the tuple of the steps.                   *)
LEMMA Types ==
    TypeOK <=> /\ timer \in [Cores -> BOOLEAN]
               /\ sigalrm \subseteq Cores
               /\ intpending \in [Cores -> SUBSET InterruptNos]
               /\ usr1 \in [Cores -> BOOLEAN]
               /\ blocked \in [Cores -> BOOLEAN]
               /\ int_disabled \in [Cores -> BOOLEAN]
               /\ halted \in [Cores -> BOOLEAN]
               /\ \A c \in Cores : stack[c] \in Seq(Frames)
               /\ pic \in [step : 0 .. 3, core : Cores, n : InterruptNos]
  BY RaiseInterrupt DEF TypeOK, Frames

LEMMA InitMachine == Init => MachineInv
<1> SUFFICES ASSUME Init PROVE MachineInv
  OBVIOUS
<1>1. Frame("guest", 0, FALSE) \in Frames
  BY DEF Frame, Frames, Places, maximum_interrupt_no
<1>2. stack \in [Cores -> Seq(Frames)]
  <2>1. \A f \in Frames : <<f>> \in Seq(Frames)
    OBVIOUS
  <2> QED BY <1>1, <2>1 DEF Init
<1>3. TypeOK
  <2>1. SERIAL \in InterruptNos /\ 0 \in 0 .. 3
    BY DEF InterruptNos
  <2>2. pic \in [step : 0 .. 3, core : Cores, n : InterruptNos]
    BY <2>1, MachineAssumption DEF Init, Idle
  <2>3. intpending \in [Cores -> SUBSET InterruptNos]
    BY DEF Init
  <2> QED BY <1>2, <2>2, <2>3, Types DEF Init
<1>4. ASSUME NEW c \in Cores
      PROVE  GoodStack(stack[c]) /\ GoodMasks(stack[c], blocked[c], int_disabled[c])
  <2>1. stack[c] = <<Frame("guest", 0, FALSE)>>
    BY DEF Init
  <2>2. GoodStack(stack[c])
    BY <1>1, <2>1 DEF GoodStack, GoodFrame, Frame
  <2>3. GoodMasks(stack[c], blocked[c], int_disabled[c])
    BY <2>1 DEF Init, GoodMasks, Frame, Interruptible
  <2> QED BY <2>2, <2>3
<1>5. NoInterruptForgotten
  BY DEF Init, NoInterruptForgotten
<1> QED BY <1>2, <1>3, <1>4, <1>5 DEF MachineInv, CoreInvariant

(* The PIC daemon and the timers do not touch the stacks and the masks.    *)
LEMMA PICKeeps ==
    ASSUME MachineInv, PIC_daemon \/ \E c \in Cores : TimerExpires(c)
    PROVE  MachineInv'
<1> DEFINE Work == [step : 0 .. 3, core : Cores, n : InterruptNos]
<1>t. TypeOK
  BY DEF MachineInv
<1>w. pic \in Work
  BY <1>t, Types
<1>r. pic.step \in 0 .. 3 /\ pic.core \in Cores /\ pic.n \in InterruptNos
  BY <1>w
<1>i. Idle \in Work /\ \A c \in Cores : [step |-> 1, core |-> c, n |-> ALARM] \in Work
  <2>1. SERIAL \in InterruptNos /\ ALARM \in InterruptNos /\ 0 \in 0 .. 3 /\ 1 \in 0 .. 3
    BY DEF InterruptNos
  <2> QED BY <2>1, MachineAssumption DEF Idle
<1>1. UNCHANGED <<blocked, int_disabled, stack>>
  BY DEF PIC_daemon, TimerExpires, PICAlarm, PICSerial, Mark, Send, cpu_core_restart, flagVars
<1>2. CoreInvariant'
  BY <1>1 DEF MachineInv, CoreInvariant
<1>n. ASSUME NextStep PROVE pic' \in Work
  <2>1. pic' = Idle \/ (pic.step < 3 /\ pic' = [pic EXCEPT !.step = pic.step + 1])
    BY <1>n, RaiseInterrupt DEF NextStep
  <2>2. pic.step < 3 => pic.step + 1 \in 0 .. 3
    BY <1>r
  <2> HIDE <1>n
  <2> QED BY <1>i, <1>w, <2>1, <2>2
<1>3. pic' \in Work
  <2>1. CASE Mark \/ Send \/ cpu_core_restart
    BY <1>n, <2>1 DEF Mark, Send, cpu_core_restart
  <2>2. CASE PICSerial
    <3>1. pic' = [Idle EXCEPT !.step = 1] /\ 1 \in 0 .. 3
      BY <2>2 DEF PICSerial
    <3> QED BY <1>i, <3>1
  <2>3. CASE \E c \in Cores : PICAlarm(c)
    BY <1>i, <2>3 DEF PICAlarm
  <2>4. CASE \E c \in Cores : TimerExpires(c)
    BY <1>w, <2>4 DEF TimerExpires
  <2> QED BY <2>1, <2>2, <2>3, <2>4 DEF PIC_daemon
<1> HIDE DEF Work
<1>4. TypeOK'
  <2>1. timer' \in [Cores -> BOOLEAN] /\ sigalrm' \subseteq Cores
    BY <1>t, Types DEF PIC_daemon, TimerExpires, PICAlarm, PICSerial, Mark, Send, cpu_core_restart
  <2>2. intpending' \in [Cores -> SUBSET InterruptNos]
    BY <1>t, <1>r, Types DEF PIC_daemon, TimerExpires, PICAlarm, PICSerial, Mark, Send, cpu_core_restart
  <2>3. usr1' \in [Cores -> BOOLEAN]
    BY <1>t, <1>r, Types DEF PIC_daemon, TimerExpires, PICAlarm, PICSerial, Mark, Send, cpu_core_restart
  <2>4. halted' \in [Cores -> BOOLEAN]
    BY <1>t, <1>r, Types
       DEF PIC_daemon, TimerExpires, PICAlarm, PICSerial, Mark, Send, cpu_core_restart, flagVars
  <2>5. /\ blocked' \in [Cores -> BOOLEAN] /\ int_disabled' \in [Cores -> BOOLEAN]
        /\ \A c \in Cores : stack'[c] \in Seq(Frames)
    BY <1>1, <1>t, Types
  <2>6. pic' \in [step : 0 .. 3, core : Cores, n : InterruptNos]
    BY <1>3 DEF Work
  <2> HIDE <1>1
  <2> QED BY <2>1, <2>2, <2>3, <2>4, <2>5, <2>6, RaiseInterrupt DEF TypeOK, Frames
<1>5. NoInterruptForgotten'
  <2> SUFFICES ASSUME NEW c \in Cores, NEW n \in intpending'[c],
                      ~ usr1'[c], ~ (Does("send")' /\ pic'.core = c), ~ int_disabled'[c]
               PROVE  \E k \in DOMAIN stack'[c] : WillDispatch(stack'[c][k], n)
    BY DEF NoInterruptForgotten
  <2>1. n \in intpending[c] /\ ~ usr1[c] /\ ~ (Does("send") /\ pic.core = c)
    <3>1. CASE Mark
      BY <3>1 DEF MachineInv, TypeOK, Mark, NextStep, Does, raise_interrupt
    <3>2. CASE Send
      BY <3>2 DEF MachineInv, TypeOK, Send, NextStep, Does, raise_interrupt
    <3>3. CASE cpu_core_restart
      BY <3>3 DEF MachineInv, TypeOK, cpu_core_restart, NextStep, Does, raise_interrupt
    <3>4. CASE PICSerial \/ \E d \in Cores : PICAlarm(d) \/ TimerExpires(d)
      BY <3>4 DEF MachineInv, TypeOK, PICSerial, PICAlarm, TimerExpires, Idle, Does, raise_interrupt
    <3> QED BY <3>1, <3>2, <3>3, <3>4 DEF PIC_daemon
  <2> QED BY <1>1, <2>1 DEF MachineInv, NoInterruptForgotten
<1> QED BY <1>2, <1>4, <1>5 DEF MachineInv

-----------------------------------------------------------------------------
(* Steps of core c.                                                        *)

(* Some frame of stack s will look at interrupt n.                         *)
Watched(s, n) == \E k \in 1 .. Len(s) : WillDispatch(s[k], n)

(* A step of core c, to stack s and masks b and d, preserves the invariant *)
(* if s and the masks fit, no interrupt is raised, and the interrupts that *)
(* are pending are still watched.                                          *)
LEMMA CoreStep ==
    ASSUME MachineInv, NEW c \in Cores, NEW s, NEW b \in BOOLEAN, NEW d \in BOOLEAN,
           stack' = [stack EXCEPT ![c] = s],
           blocked' = [blocked EXCEPT ![c] = b],
           int_disabled' = [int_disabled EXCEPT ![c] = d],
           pic' = pic,
           timer' \in [Cores -> BOOLEAN], sigalrm' \subseteq Cores,
           halted' \in [Cores -> BOOLEAN],
           intpending' \in [Cores -> SUBSET InterruptNos],
           usr1' \in [Cores -> BOOLEAN],
           \A e \in Cores \ {c} : intpending'[e] = intpending[e] /\ usr1'[e] = usr1[e],
           GoodStack(s), GoodMasks(s, b, d),
           \A n \in intpending'[c] :
             usr1'[c] \/ (Does("send") /\ pic.core = c) \/ d \/ Watched(s, n)
    PROVE  MachineInv'
<1>1. TypeOK /\ CoreInvariant /\ NoInterruptForgotten
  BY DEF MachineInv
<1>2. s \in Seq(Frames)
  BY DEF GoodStack
<1>3. stack \in [Cores -> Seq(Frames)]
  BY <1>1 DEF CoreInvariant
<1>4. stack' \in [Cores -> Seq(Frames)]
  BY <1>2, <1>3
<1>5. /\ blocked \in [Cores -> BOOLEAN] /\ int_disabled \in [Cores -> BOOLEAN]
      /\ blocked' \in [Cores -> BOOLEAN] /\ int_disabled' \in [Cores -> BOOLEAN]
  BY <1>1, Types
<1>6. TypeOK'
  <2>1. pic' \in [step : 0 .. 3, core : Cores, n : InterruptNos]
    BY <1>1, Types
  <2> QED BY <1>4, <1>5, <2>1, RaiseInterrupt DEF TypeOK, Frames
<1>7. ASSUME NEW e \in Cores
      PROVE  GoodStack(stack'[e]) /\ GoodMasks(stack'[e], blocked'[e], int_disabled'[e])
  <2>1. CASE e = c
    BY <1>3, <1>5, <2>1
  <2>2. CASE e # c
    <3>1. /\ stack'[e] = stack[e] /\ blocked'[e] = blocked[e]
          /\ int_disabled'[e] = int_disabled[e]
      BY <1>3, <1>5, <2>2
    <3> QED BY <1>1, <3>1 DEF CoreInvariant
  <2> QED BY <2>1, <2>2
<1>8. NoInterruptForgotten'
  <2> SUFFICES ASSUME NEW e \in Cores, NEW n \in intpending'[e],
                      ~ usr1'[e], ~ (Does("send")' /\ pic'.core = e), ~ int_disabled'[e]
               PROVE  \E k \in DOMAIN stack'[e] : WillDispatch(stack'[e][k], n)
    BY DEF NoInterruptForgotten
  <2>1. Does("send")' = Does("send")
    BY DEF Does
  <2>2. CASE e = c
    <3>1. stack'[e] = s /\ int_disabled'[e] = d
      BY <1>3, <1>5, <2>2
    <3>2. PICK k \in 1 .. Len(s) : WillDispatch(s[k], n)
      BY <2>1, <2>2, <3>1 DEF Watched
    <3>3. DOMAIN s = 1 .. Len(s)
      BY <1>2
    <3> QED BY <3>1, <3>2, <3>3
  <2>3. CASE e # c
    <3>1. stack'[e] = stack[e] /\ int_disabled'[e] = int_disabled[e]
      BY <1>3, <1>5, <2>3
    <3> QED BY <1>1, <2>1, <2>3, <3>1 DEF NoInterruptForgotten
  <2> QED BY <2>2, <2>3
<1> QED BY <1>4, <1>6, <1>7, <1>8 DEF MachineInv, CoreInvariant

(* What the invariant says of a core.                                      *)
LEMMA CoreFacts ==
    ASSUME MachineInv, NEW c \in Cores
    PROVE  /\ timer \in [Cores -> BOOLEAN] /\ sigalrm \subseteq Cores
           /\ intpending \in [Cores -> SUBSET InterruptNos]
           /\ usr1 \in [Cores -> BOOLEAN] /\ halted \in [Cores -> BOOLEAN]
           /\ blocked[c] \in BOOLEAN /\ blocked = [blocked EXCEPT ![c] = blocked[c]]
           /\ int_disabled[c] \in BOOLEAN
           /\ int_disabled = [int_disabled EXCEPT ![c] = int_disabled[c]]
           /\ stack[c] \in Seq(Frames) /\ Len(stack[c]) \in Nat
           /\ stack = [stack EXCEPT ![c] = stack[c]]
           /\ GoodStack(stack[c]) /\ GoodMasks(stack[c], blocked[c], int_disabled[c])
           /\ Top(c) = stack[c][1] /\ Top(c) \in Frames /\ GoodFrame(stack[c], 1)
           /\ \A n \in intpending[c] :
                usr1[c] \/ (Does("send") /\ pic.core = c) \/ int_disabled[c] \/ Watched(stack[c], n)
<1>1. TypeOK /\ CoreInvariant /\ NoInterruptForgotten
  BY DEF MachineInv
<1>2. stack \in [Cores -> Seq(Frames)] /\ GoodStack(stack[c])
  BY <1>1 DEF CoreInvariant
<1>3. stack[c] \in Seq(Frames) /\ Len(stack[c]) \in Nat /\ stack = [stack EXCEPT ![c] = stack[c]]
  BY <1>2
<1>4. Top(c) = stack[c][1] /\ Top(c) \in Frames /\ GoodFrame(stack[c], 1)
  BY <1>2, <1>3 DEF Top, GoodStack
<1>5. DOMAIN stack[c] = 1 .. Len(stack[c])
  BY <1>3
<1>6. ASSUME NEW n \in intpending[c]
      PROVE  usr1[c] \/ (Does("send") /\ pic.core = c) \/ int_disabled[c] \/ Watched(stack[c], n)
  BY <1>1, <1>5 DEF NoInterruptForgotten, Watched
<1>7. blocked \in [Cores -> BOOLEAN] /\ int_disabled \in [Cores -> BOOLEAN]
  BY <1>1, Types
<1>8. GoodMasks(stack[c], blocked[c], int_disabled[c])
  BY <1>1 DEF CoreInvariant
<1>9. /\ timer \in [Cores -> BOOLEAN] /\ sigalrm \subseteq Cores
      /\ intpending \in [Cores -> SUBSET InterruptNos]
      /\ usr1 \in [Cores -> BOOLEAN] /\ halted \in [Cores -> BOOLEAN]
  BY <1>1, Types
<1> QED BY <1>2, <1>3, <1>4, <1>6, <1>7, <1>8, <1>9

(* How pushing, popping and moving on change what is watched and whether   *)
(* there is a signal handler on the stack.                                 *)
LEMMA PushKeeps ==
    ASSUME NEW s, NEW r, Len(s) \in Nat, Len(r) = Len(s) + 1,
           \A k \in 1 .. Len(s) : r[k + 1] = s[k]
    PROVE  /\ \A n : Watched(s, n) => Watched(r, n)
           /\ (\E k \in 1 .. Len(s) : s[k].sig) => \E k \in 1 .. Len(r) : r[k].sig
<1>1. \A k \in 1 .. Len(s) : k + 1 \in 1 .. Len(r)
  OBVIOUS
<1> QED BY <1>1 DEF Watched

LEMMA PopKeeps ==
    ASSUME NEW s, NEW r, Len(s) \in Nat, Len(s) > 1, Len(r) = Len(s) - 1,
           \A k \in 1 .. Len(s) - 1 : r[k] = s[k + 1]
    PROVE  /\ \A n : Watched(s, n) /\ ~ WillDispatch(s[1], n) => Watched(r, n)
           /\ (\E k \in 1 .. Len(s) : s[k].sig) /\ ~ s[1].sig => \E k \in 1 .. Len(r) : r[k].sig
<1>1. \A k \in 1 .. Len(s) : k # 1 => k - 1 \in 1 .. Len(r) /\ r[k - 1] = s[k]
  OBVIOUS
<1> QED BY <1>1 DEF Watched

LEMMA GoKeeps ==
    ASSUME NEW s, NEW r, Len(s) \in Nat, Len(s) > 0, Len(r) = Len(s),
           r[1].sig = s[1].sig,
           \A k \in 2 .. Len(s) : r[k] = s[k]
    PROVE  /\ \A n : Watched(s, n) /\ (WillDispatch(s[1], n) => WillDispatch(r[1], n))
                       => Watched(r, n)
           /\ (\E k \in 1 .. Len(s) : s[k].sig) => \E k \in 1 .. Len(r) : r[k].sig
<1>1. \A k \in 1 .. Len(s) : k = 1 \/ k \in 2 .. Len(s)
  OBVIOUS
<1> QED BY <1>1 DEF Watched

-----------------------------------------------------------------------------
(* A function of the BIOS is entered: the guest calls it, or a signal is   *)
(* delivered.                                                              *)
LEMMA EntryKeeps ==
    ASSUME MachineInv, NEW c \in Cores,
           Deliver(c) \/ cpu_disable_interrupts(c) \/ cpu_enable_interrupts(c)
             \/ cpu_core_halt(c) \/ \E armed \in BOOLEAN : bios_set_timer(c, armed)
    PROVE  MachineInv'
<1> DEFINE s == stack[c]
           New(p) == <<Frame(p, 0, p = "signal")>> \o s
<1>f. ASSUME NEW p \in Places, p \notin {"loop", "call"},
             s[1].at \in Interruptible,
             p \in {"disable", "timer"} => s[1].at = "guest"
      PROVE  /\ GoodStack(New(p)) /\ New(p)[1].at = p
             /\ p \in {"enable", "halt", "signal"} => \A n : Watched(New(p), n)
             /\ \A n : Watched(s, n) => Watched(New(p), n)
             /\ p = "signal" => \E k \in 1 .. Len(New(p)) : New(p)[k].sig
             /\ (\E k \in 1 .. Len(s) : s[k].sig) => \E k \in 1 .. Len(New(p)) : New(p)[k].sig
  <2> DEFINE f == Frame(p, 0, p = "signal")
             r == New(p)
  <2>1. f \in Frames /\ f.at = p /\ f.sig = (p = "signal")
    BY DEF Frame, Frames, maximum_interrupt_no
  <2>2. GoodStack(s) /\ Len(s) \in Nat
    BY CoreFacts
  <2> HIDE DEF f
  <2>3. GoodStack(<<f>> \o s) /\ Len(<<f>> \o s) = Len(s) + 1 /\ (<<f>> \o s)[1] = f
        /\ \A k \in 1 .. Len(s) : (<<f>> \o s)[k + 1] = s[k]
    BY <1>f, <2>1, <2>2, PushFrame
  <2>4. r = <<f>> \o s
    BY DEF f
  <2> HIDE DEF r, New, s
  <2>5. /\ \A n : Watched(s, n) => Watched(r, n)
        /\ (\E k \in 1 .. Len(s) : s[k].sig) => \E k \in 1 .. Len(r) : r[k].sig
    BY <2>2, <2>3, <2>4, PushKeeps
  <2>6. 1 \in 1 .. Len(r)
    BY <2>2, <2>3, <2>4
  <2>7. r[1] = f /\ GoodStack(r)
    BY <2>3, <2>4
  <2>8. p \in {"enable", "halt", "signal"} => \A n : Watched(r, n)
    BY <2>1, <2>6, <2>7 DEF Watched, WillDispatch
  <2>9. p = "signal" => \E k \in 1 .. Len(r) : r[k].sig
    BY <2>1, <2>6, <2>7
  <2> QED BY <2>1, <2>5, <2>7, <2>8, <2>9 DEF r
<1> HIDE DEF New
<1>m. GoodMasks(s, blocked[c], int_disabled[c]) /\ s[1] = Top(c)
  BY CoreFacts
<1>1. CASE Deliver(c)
  <2>1. s[1].at \in Interruptible /\ ~ int_disabled[c]
    BY <1>1, <1>m DEF Deliver, GoodMasks
  <2>2. stack' = [stack EXCEPT ![c] = New("signal")]
    BY <1>1 DEF Deliver, Push, New
  <2>3. GoodStack(New("signal")) /\ GoodMasks(New("signal"), TRUE, FALSE)
    BY <1>f, <2>1 DEF GoodMasks, Interruptible, Places
  <2>4. \A n : Watched(New("signal"), n)
    BY <1>f, <2>1 DEF Places
  <2>5. /\ int_disabled' = [int_disabled EXCEPT ![c] = FALSE]
        /\ usr1' \in [Cores -> BOOLEAN] /\ \A e \in Cores \ {c} : usr1'[e] = usr1[e]
    BY <1>1, <2>1, CoreFacts DEF Deliver
  <2> QED BY <1>1, <2>2, <2>3, <2>4, <2>5, CoreStep, CoreFacts DEF Deliver
<1>2. CASE cpu_disable_interrupts(c)
  <2>1. s[1].at = "guest" /\ ~ int_disabled[c]
    BY <1>2, <1>m DEF cpu_disable_interrupts, Calls, At
  <2>2. stack' = [stack EXCEPT ![c] = New("disable")]
    BY <1>2 DEF cpu_disable_interrupts, Push, New
  <2>3. GoodStack(New("disable")) /\ GoodMasks(New("disable"), TRUE, FALSE)
    BY <1>f, <2>1 DEF GoodMasks, Interruptible, Places
  <2>4. \A n : Watched(s, n) => Watched(New("disable"), n)
    BY <1>f, <2>1 DEF Places, Interruptible
  <2>5. int_disabled' = [int_disabled EXCEPT ![c] = FALSE]
    BY <1>2, <2>1, CoreFacts DEF cpu_disable_interrupts
  <2> QED BY <1>2, <2>1, <2>2, <2>3, <2>4, <2>5, CoreStep, CoreFacts DEF cpu_disable_interrupts
<1>3. CASE cpu_enable_interrupts(c)
  <2>1. s[1].at = "guest" /\ int_disabled[c] /\ blocked[c]
    BY <1>3, <1>m DEF cpu_enable_interrupts, Calls, At, GoodMasks
  <2>2. stack' = [stack EXCEPT ![c] = New("enable")]
    BY <1>3 DEF cpu_enable_interrupts, Push, New
  <2>3. GoodStack(New("enable")) /\ GoodMasks(New("enable"), TRUE, FALSE)
    BY <1>f, <2>1 DEF GoodMasks, Interruptible, Places
  <2>4. \A n : Watched(New("enable"), n)
    BY <1>f, <2>1 DEF Places, Interruptible
  <2>5. blocked' = [blocked EXCEPT ![c] = TRUE]
    BY <1>3, <2>1, CoreFacts DEF cpu_enable_interrupts
  <2> QED BY <1>3, <2>2, <2>3, <2>4, <2>5, CoreStep, CoreFacts DEF cpu_enable_interrupts
<1>4. CASE cpu_core_halt(c)
  <2>1. s[1].at = "guest" /\ ~ int_disabled[c]
    BY <1>4, <1>m DEF cpu_core_halt, Calls, At
  <2>2. stack' = [stack EXCEPT ![c] = New("halt")]
    BY <1>4 DEF cpu_core_halt, Push, New
  <2>3. GoodStack(New("halt")) /\ GoodMasks(New("halt"), TRUE, FALSE)
    BY <1>f, <2>1 DEF GoodMasks, Interruptible, Places
  <2>4. \A n : Watched(New("halt"), n)
    BY <1>f, <2>1 DEF Places, Interruptible
  <2>5. int_disabled' = [int_disabled EXCEPT ![c] = FALSE]
    BY <1>4, <2>1, CoreFacts DEF cpu_core_halt
  <2> QED BY <1>4, <2>2, <2>3, <2>4, <2>5, CoreStep, CoreFacts DEF cpu_core_halt
<1>5. ASSUME NEW armed \in BOOLEAN, bios_set_timer(c, armed) PROVE MachineInv'
  <2>1. s[1].at = "guest"
    BY <1>5, <1>m DEF bios_set_timer, Calls, At
  <2>2. stack' = [stack EXCEPT ![c] = New("timer")]
    BY <1>5 DEF bios_set_timer, Push, New
  <2>3. GoodStack(New("timer")) /\ GoodMasks(New("timer"), blocked[c], int_disabled[c])
    BY <1>f, <1>m, <2>1 DEF GoodMasks, Interruptible, Places
  <2>4. \A n : Watched(s, n) => Watched(New("timer"), n)
    BY <1>f, <2>1 DEF Places, Interruptible
  <2>5. /\ blocked' = [blocked EXCEPT ![c] = blocked[c]]
        /\ int_disabled' = [int_disabled EXCEPT ![c] = int_disabled[c]]
        /\ timer' \in [Cores -> BOOLEAN] /\ sigalrm' \subseteq Cores
    BY <1>5, CoreFacts DEF bios_set_timer, flagVars
  <2>6. intpending' = intpending /\ usr1' = usr1 /\ pic' = pic /\ halted' = halted
    BY <1>5 DEF bios_set_timer, flagVars
  <2>7. /\ blocked[c] \in BOOLEAN /\ int_disabled[c] \in BOOLEAN
        /\ intpending' \in [Cores -> SUBSET InterruptNos]
        /\ usr1' \in [Cores -> BOOLEAN] /\ halted' \in [Cores -> BOOLEAN]
        /\ \A n \in intpending'[c] :
             usr1'[c] \/ (Does("send") /\ pic.core = c) \/ int_disabled[c] \/ Watched(New("timer"), n)
    BY <2>4, <2>6, CoreFacts
  <2> QED BY <2>2, <2>3, <2>5, <2>6, <2>7, CoreStep
<1> QED BY <1>1, <1>2, <1>3, <1>4, <1>5

(* A function of the BIOS, or a handler, ends.                             *)
LEMMA EndKeeps ==
    ASSUME MachineInv, NEW c \in Cores,
           \/ HandlerReturns(c) \/ DisableEnds(c) \/ SetTimerEnds(c)
           \/ dispatch_interrupts(c) /\ ~ InRange(Top(c).n)
    PROVE  MachineInv'
<1> DEFINE s == stack[c]
           r == Tail(s)
<1>s. /\ GoodStack(s) /\ Len(s) \in Nat /\ Len(s) > 0 /\ s[1] = Top(c) /\ GoodFrame(s, 1)
      /\ GoodMasks(s, blocked[c], int_disabled[c]) /\ s[Len(s)].at = "guest"
  BY CoreFacts DEF GoodStack
<1>1. Len(s) > 1
  <2>1. CASE HandlerReturns(c)
    BY <2>1 DEF HandlerReturns
  <2>2. CASE ~ HandlerReturns(c)
    <3>1. s[1].at # "guest"
      BY <1>s, <2>2 DEF DisableEnds, SetTimerEnds, dispatch_interrupts, At
    <3> QED BY <1>s, <3>1
  <2> QED BY <2>1, <2>2
<1>2. /\ GoodStack(r) /\ Len(r) = Len(s) - 1 /\ r[1].at \in Interruptible
      /\ \A k \in 1 .. Len(s) - 1 : r[k] = s[k + 1]
  BY <1>s, <1>1, PopFrame
<1>3. stack' = [stack EXCEPT ![c] = r]
  BY DEF HandlerReturns, DisableEnds, SetTimerEnds, dispatch_interrupts, End, Pop
<1>0. r[1] = s[2]
  BY <1>s, <1>1, <1>2
<1> HIDE DEF r, s
<1>4. /\ \A n : Watched(s, n) /\ ~ WillDispatch(s[1], n) => Watched(r, n)
      /\ (\E k \in 1 .. Len(s) : s[k].sig) /\ ~ s[1].sig => \E k \in 1 .. Len(r) : r[k].sig
  BY <1>s, <1>1, <1>2, PopKeeps
<1>c. /\ timer \in [Cores -> BOOLEAN] /\ sigalrm \subseteq Cores
      /\ intpending \in [Cores -> SUBSET InterruptNos]
      /\ usr1 \in [Cores -> BOOLEAN] /\ halted \in [Cores -> BOOLEAN]
      /\ blocked[c] \in BOOLEAN /\ blocked = [blocked EXCEPT ![c] = blocked[c]]
      /\ int_disabled[c] \in BOOLEAN
      /\ int_disabled = [int_disabled EXCEPT ![c] = int_disabled[c]]
      /\ \A n \in intpending[c] :
           usr1[c] \/ (Does("send") /\ pic.core = c) \/ int_disabled[c] \/ Watched(s, n)
  BY CoreFacts DEF s
<1>5. CASE HandlerReturns(c)
  <2>1. s[1].at = "guest" /\ ~ int_disabled[c]
    BY <1>5, <1>s DEF HandlerReturns, At
  <2>2. ~ s[1].sig /\ \A n : ~ WillDispatch(s[1], n)
    BY <1>s, <2>1 DEF GoodFrame, WillDispatch
  <2>3. GoodMasks(r, blocked[c], FALSE)
    BY <1>s, <1>2, <1>4, <2>1, <2>2 DEF GoodMasks, Interruptible
  <2>4. UNCHANGED <<timer, sigalrm, intpending, usr1, blocked, int_disabled, halted, pic>>
    BY <1>5 DEF HandlerReturns, flagVars
  <2>5. \A n \in intpending[c] : usr1[c] \/ (Does("send") /\ pic.core = c) \/ Watched(r, n)
    BY <1>4, <1>c, <2>1, <2>2
  <2>6. int_disabled' = [int_disabled EXCEPT ![c] = FALSE]
    BY <1>c, <2>1, <2>4
  <2> QED BY <1>2, <1>3, <1>c, <2>3, <2>4, <2>5, <2>6, CoreStep
<1>6. CASE DisableEnds(c)
  <2>1. s[1].at = "disable"
    BY <1>6, <1>s DEF DisableEnds, At
  <2>2. r[1].at = "guest" /\ blocked[c] 
    BY <1>0, <1>s, <2>1 DEF GoodFrame, GoodMasks, Interruptible
  <2>3. GoodMasks(r, blocked[c], TRUE)
    BY <2>2 DEF GoodMasks, Interruptible
  <2>4. UNCHANGED <<timer, sigalrm, intpending, usr1, blocked, halted, pic>>
    BY <1>6 DEF DisableEnds
  <2>5. int_disabled' = [int_disabled EXCEPT ![c] = TRUE]
    BY <1>6 DEF DisableEnds
  <2> QED BY <1>2, <1>3, <1>c, <2>3, <2>4, <2>5, CoreStep
<1>7. CASE SetTimerEnds(c)
  <2>1. s[1].at = "timer"
    BY <1>7, <1>s DEF SetTimerEnds, At
  <2>2. r[1].at = "guest" /\ ~ s[1].sig /\ \A n : ~ WillDispatch(s[1], n)
    BY <1>0, <1>s, <2>1 DEF GoodFrame, WillDispatch
  <2>3. GoodMasks(r, blocked[c], int_disabled[c])
    BY <1>s, <1>4, <2>1, <2>2 DEF GoodMasks, Interruptible
  <2>4. /\ UNCHANGED <<timer, sigalrm, usr1, blocked, int_disabled, halted, pic>>
        /\ intpending' = [intpending EXCEPT ![c] = @ \ {ALARM}]
    BY <1>7 DEF SetTimerEnds, flagVars
  <2>5. intpending' \in [Cores -> SUBSET InterruptNos] /\ intpending'[c] \subseteq intpending[c]
        /\ \A e \in Cores \ {c} : intpending'[e] = intpending[e]
    BY <1>c, <2>4
  <2>6. \A n \in intpending'[c] :
          usr1[c] \/ (Does("send") /\ pic.core = c) \/ int_disabled[c] \/ Watched(r, n)
    BY <1>4, <1>c, <2>2, <2>5
  <2>7. /\ blocked' = [blocked EXCEPT ![c] = blocked[c]]
        /\ int_disabled' = [int_disabled EXCEPT ![c] = int_disabled[c]]
        /\ timer' = timer /\ sigalrm' = sigalrm /\ usr1' = usr1 /\ halted' = halted /\ pic' = pic
    BY <1>c, <2>4
  <2> HIDE <2>4
  <2> QED BY <1>2, <1>3, <1>c, <2>3, <2>5, <2>6, <2>7, CoreStep
<1>8. CASE dispatch_interrupts(c) /\ ~ InRange(Top(c).n)
  <2>1. s[1].at = "loop" /\ ~ int_disabled[c] /\ ~ InRange(s[1].n)
    BY <1>8, <1>s DEF dispatch_interrupts, At, GoodMasks
  <2>2. UNCHANGED <<timer, sigalrm, intpending, usr1, int_disabled, halted, pic>>
    BY <1>8 DEF dispatch_interrupts
  <2>4. \A n \in InterruptNos : ~ WillDispatch(s[1], n)
    <3>1. s[1].n \in Nat
      BY <1>s, CoreFacts DEF Frames
    <3> QED BY <2>1, <3>1 DEF WillDispatch, InRange, maximum_interrupt_no, InterruptNos, ALARM, SERIAL
  <2>5. \A n \in intpending[c] : usr1[c] \/ (Does("send") /\ pic.core = c) \/ Watched(r, n)
    <3>1. intpending[c] \subseteq InterruptNos
      BY <1>c
    <3> QED BY <1>4, <1>c, <2>1, <2>4, <3>1
  <2>6. int_disabled' = [int_disabled EXCEPT ![c] = FALSE]
    BY <1>c, <2>1, <2>2
  <2> DEFINE b == IF s[1].sig THEN FALSE ELSE blocked[c]
  <2>7. blocked' = [blocked EXCEPT ![c] = b] /\ b \in BOOLEAN
    BY <1>8, <1>s, <1>c DEF dispatch_interrupts, End
  <2>8. GoodMasks(r, b, FALSE)
    BY <1>s, <1>2, <1>4, <2>1 DEF GoodMasks, Interruptible
  <2> HIDE DEF b
  <2> QED BY <1>2, <1>3, <1>c, <2>2, <2>5, <2>6, <2>7, <2>8, CoreStep
<1> QED BY <1>5, <1>6, <1>7, <1>8

(* A function of the BIOS goes on to its next step.                        *)
LEMMA GoKeepsInv ==
    ASSUME MachineInv, NEW c \in Cores,
           \/ sigusr1_handler(c) \/ MarkHalted(c) \/ EnableEnds(c) \/ HaltEnds(c)
           \/ dispatch_interrupts(c) /\ InRange(Top(c).n)
    PROVE  MachineInv'
<1> DEFINE s == stack[c]
           New(p, n) == [s EXCEPT ![1] = Frame(p, n, s[1].sig)]
<1>s. /\ GoodStack(s) /\ Len(s) \in Nat /\ Len(s) > 0 /\ s[1] = Top(c) /\ GoodFrame(s, 1)
      /\ GoodMasks(s, blocked[c], int_disabled[c]) /\ s[1] \in Frames
  BY CoreFacts DEF GoodStack
<1>0. /\ s[1].at \in {"signal", "halt", "enable", "wait", "loop"}
      /\ s[1].at \in {"signal", "loop"} \/ ~ s[1].sig
      /\ ~ int_disabled[c]
  BY <1>s DEF sigusr1_handler, MarkHalted, EnableEnds, HaltEnds, dispatch_interrupts, At,
              GoodFrame, GoodMasks, Interruptible
<1>1. ASSUME NEW p \in {"wait", "loop", "call"}, NEW n \in 0 .. maximum_interrupt_no,
             p = "call" => n \in InterruptNos, p = "wait" => ~ s[1].sig
      PROVE  /\ GoodStack(New(p, n)) /\ New(p, n)[1] = Frame(p, n, s[1].sig)
             /\ New(p, n)[1].at = p
             /\ \A i : Watched(s, i) /\ (WillDispatch(s[1], i) => WillDispatch(New(p, n)[1], i))
                         => Watched(New(p, n), i)
             /\ (\E k \in 1 .. Len(s) : s[k].sig)
                  => \E k \in 1 .. Len(New(p, n)) : New(p, n)[k].sig
  <2> DEFINE f == Frame(p, n, s[1].sig)
  <2>1. f \in Frames /\ f.at = p /\ f.n = n /\ f.sig = s[1].sig
    BY <1>s DEF Frame, Frames, Places
  <2> HIDE DEF f
  <2>2. /\ GoodStack([s EXCEPT ![1] = f]) /\ Len([s EXCEPT ![1] = f]) = Len(s)
        /\ [s EXCEPT ![1] = f][1] = f
        /\ \A k \in 2 .. Len(s) : [s EXCEPT ![1] = f][k] = s[k]
    BY <1>s, <1>0, <1>1, <2>1, GoFrame
  <2> DEFINE r == [s EXCEPT ![1] = f]
  <2>r. /\ GoodStack(r) /\ Len(r) = Len(s) /\ r[1] = f /\ r[1].sig = s[1].sig /\ r[1].at = p
        /\ \A k \in 2 .. Len(s) : r[k] = s[k]
    BY <2>1, <2>2
  <2> HIDE DEF r, s
  <2>3. /\ \A i : Watched(s, i) /\ (WillDispatch(s[1], i) => WillDispatch(r[1], i))
                   => Watched(r, i)
        /\ (\E k \in 1 .. Len(s) : s[k].sig) => \E k \in 1 .. Len(r) : r[k].sig
    BY <1>s, <2>r, GoKeeps
  <2> QED BY <2>r, <2>3 DEF r, f
<1>2. ASSUME NEW p, NEW n, Go(c, p, n) PROVE stack' = [stack EXCEPT ![c] = New(p, n)]
  BY <1>2 DEF Go
<1> HIDE DEF New, s
<1>c. /\ timer \in [Cores -> BOOLEAN] /\ sigalrm \subseteq Cores
      /\ intpending \in [Cores -> SUBSET InterruptNos]
      /\ usr1 \in [Cores -> BOOLEAN] /\ halted \in [Cores -> BOOLEAN]
      /\ blocked[c] \in BOOLEAN /\ blocked = [blocked EXCEPT ![c] = blocked[c]]
      /\ int_disabled = [int_disabled EXCEPT ![c] = FALSE]
      /\ \A n \in intpending[c] :
           usr1[c] \/ (Does("send") /\ pic.core = c) \/ Watched(s, n)
  BY <1>0, CoreFacts DEF s
<1>n. /\ ALARM \in 0 .. maximum_interrupt_no /\ 0 \in 0 .. maximum_interrupt_no
      /\ \A n \in InterruptNos : n \in Nat /\ ALARM <= n
  BY DEF ALARM, SERIAL, maximum_interrupt_no, InterruptNos
<1>g. ASSUME NEW p \in {"wait", "loop", "call"}, NEW n \in 0 .. maximum_interrupt_no,
             NEW b \in BOOLEAN,
             p = "call" => n \in InterruptNos, p = "wait" => ~ s[1].sig,
             stack' = [stack EXCEPT ![c] = New(p, n)],
             blocked' = [blocked EXCEPT ![c] = b],
             GoodMasks(New(p, n), b, FALSE),
             \A i \in intpending[c] : WillDispatch(s[1], i) => WillDispatch(Frame(p, n, s[1].sig), i),
             halted' \in [Cores -> BOOLEAN],
             UNCHANGED <<timer, sigalrm, intpending, usr1, int_disabled, pic>>
      PROVE  MachineInv'
  <2>1. GoodStack(New(p, n)) /\ New(p, n)[1] = Frame(p, n, s[1].sig)
    BY <1>1, <1>g
  <2>2. \A i \in intpending[c] :
          usr1[c] \/ (Does("send") /\ pic.core = c) \/ Watched(New(p, n), i)
    BY <1>1, <1>c, <1>g
  <2>3. int_disabled' = [int_disabled EXCEPT ![c] = FALSE]
    BY <1>c, <1>g
  <2> QED BY <1>c, <1>g, <2>1, <2>2, <2>3, CoreStep
<1>3. CASE sigusr1_handler(c)
  <2>1. s[1].at = "signal" /\ blocked[c]
    BY <1>3, <1>s DEF sigusr1_handler, At, GoodMasks, Interruptible
  <2>2. Go(c, "loop", ALARM) /\ blocked' = blocked
    BY <1>3, <1>0 DEF sigusr1_handler
  <2>3. stack' = [stack EXCEPT ![c] = New("loop", ALARM)]
    BY <1>2, <2>2
  <2>4. s[1].sig /\ 1 \in 1 .. Len(s)
    BY <1>s, <2>1 DEF GoodFrame
  <2>5. New("loop", ALARM)[1].at = "loop"
        /\ \E k \in 1 .. Len(New("loop", ALARM)) : New("loop", ALARM)[k].sig
    BY <1>1, <1>n, <2>4
  <2>6. GoodMasks(New("loop", ALARM), blocked[c], FALSE)
    BY <2>5 DEF GoodMasks, Interruptible
  <2>7. \A i \in intpending[c] : WillDispatch(Frame("loop", ALARM, s[1].sig), i)
    BY <1>c, <1>n DEF WillDispatch, Frame
  <2>8. UNCHANGED <<timer, sigalrm, intpending, usr1, int_disabled, halted, pic>>
    BY <1>3 DEF sigusr1_handler
  <2> QED BY <1>c, <1>n, <1>g, <2>2, <2>3, <2>6, <2>7, <2>8
<1>4. CASE MarkHalted(c)
  <2>1. s[1].at = "halt" /\ blocked[c] /\ ~ s[1].sig
    BY <1>4, <1>s DEF MarkHalted, At, GoodMasks, GoodFrame, Interruptible
  <2>2. stack' = [stack EXCEPT ![c] = New("wait", 0)]
    BY <1>2, <1>4 DEF MarkHalted
  <2>3. New("wait", 0)[1].at = "wait"
    BY <1>1, <1>n, <2>1
  <2>4. GoodMasks(New("wait", 0), blocked[c], FALSE)
    BY <2>1, <2>3 DEF GoodMasks, Interruptible
  <2>5. \A i \in intpending[c] : WillDispatch(Frame("wait", 0, s[1].sig), i)
    BY DEF WillDispatch, Frame
  <2>6. /\ UNCHANGED <<timer, sigalrm, intpending, usr1, blocked, int_disabled, pic>>
        /\ halted' \in [Cores -> BOOLEAN]
    BY <1>4, <1>c DEF MarkHalted
  <2> QED BY <1>c, <1>n, <1>g, <2>1, <2>2, <2>4, <2>5, <2>6
<1>5. CASE EnableEnds(c) \/ HaltEnds(c)
  <2>1. stack' = [stack EXCEPT ![c] = New("loop", ALARM)]
    BY <1>2, <1>5 DEF EnableEnds, HaltEnds, Unblock
  <2>2. blocked' = [blocked EXCEPT ![c] = FALSE]
    BY <1>5 DEF EnableEnds, HaltEnds, Unblock
  <2>3. New("loop", ALARM)[1].at = "loop"
    BY <1>1, <1>n
  <2>4. GoodMasks(New("loop", ALARM), FALSE, FALSE)
    BY <2>3 DEF GoodMasks, Interruptible
  <2>5. \A i \in intpending[c] : WillDispatch(Frame("loop", ALARM, s[1].sig), i)
    BY <1>c, <1>n DEF WillDispatch, Frame
  <2>6. UNCHANGED <<timer, sigalrm, intpending, usr1, int_disabled, halted, pic>>
    BY <1>5 DEF EnableEnds, HaltEnds
  <2> QED BY <1>c, <1>n, <1>g, <2>1, <2>2, <2>4, <2>5, <2>6
<1>6. CASE dispatch_interrupts(c) /\ InRange(Top(c).n)
  <2> DEFINE n == s[1].n
  <2>1. s[1].at = "loop" /\ n \in Nat /\ n < maximum_interrupt_no
    BY <1>6, <1>s DEF dispatch_interrupts, At, InRange, Frames
  <2>2. UNCHANGED <<timer, sigalrm, intpending, usr1, int_disabled, halted, pic>>
    BY <1>6 DEF dispatch_interrupts
  <2>3. blocked' = blocked /\ IF n \in intpending[c] THEN Go(c, "call", n) ELSE Go(c, "loop", n + 1)
    BY <1>0, <1>6, <1>s DEF dispatch_interrupts
  <2>4. n \in 0 .. maximum_interrupt_no /\ n + 1 \in 0 .. maximum_interrupt_no
    BY <2>1 DEF maximum_interrupt_no
  <2> HIDE DEF n
  <2>5. ASSUME NEW p \in {"loop", "call"}, NEW m \in 0 .. maximum_interrupt_no,
               p = "call" => m \in InterruptNos
        PROVE  GoodMasks(New(p, m), blocked[c], FALSE)
    <3>1. New(p, m)[1].at = p
      BY <1>1, <2>5
    <3>2. (\E k \in 1 .. Len(s) : s[k].sig) => \E k \in 1 .. Len(New(p, m)) : New(p, m)[k].sig
      BY <1>1, <2>5
    <3> QED BY <1>s, <1>0, <2>1, <3>1, <3>2 DEF GoodMasks, Interruptible
  <2>6. CASE n \in intpending[c]
    <3>1. stack' = [stack EXCEPT ![c] = New("call", n)]
      BY <1>2, <2>3, <2>6
    <3>2. n \in InterruptNos
      BY <1>c, <2>6
    <3>3. \A i \in intpending[c] : WillDispatch(s[1], i) => WillDispatch(Frame("call", n, s[1].sig), i)
      BY <2>1 DEF WillDispatch, Frame, n
    <3>4. GoodMasks(New("call", n), blocked[c], FALSE)
      BY <2>4, <2>5, <3>2
    <3> QED BY <1>c, <1>g, <2>2, <2>3, <2>4, <3>1, <3>2, <3>3, <3>4
  <2>7. CASE n \notin intpending[c]
    <3>1. stack' = [stack EXCEPT ![c] = New("loop", n + 1)]
      BY <1>2, <2>3, <2>7
    <3>2. \A i \in intpending[c] :
            WillDispatch(s[1], i) => WillDispatch(Frame("loop", n + 1, s[1].sig), i)
      <4> SUFFICES ASSUME NEW i \in intpending[c], WillDispatch(s[1], i)
                   PROVE  WillDispatch(Frame("loop", n + 1, s[1].sig), i)
        OBVIOUS
      <4>1. i \in Nat /\ i # n /\ n \in Nat
        BY <1>c, <1>n, <2>1, <2>7
      <4>2. n <= i
        BY <2>1 DEF WillDispatch, n
      <4>3. n + 1 <= i
        BY <4>1, <4>2
      <4> QED BY <4>3 DEF WillDispatch, Frame
    <3>3. GoodMasks(New("loop", n + 1), blocked[c], FALSE)
      BY <2>4, <2>5
    <3> QED BY <1>c, <1>g, <2>2, <2>3, <2>4, <3>1, <3>2, <3>3
  <2> QED BY <2>6, <2>7
<1> QED BY <1>3, <1>4, <1>5, <1>6

(* A handler is called, or cores are restarted.                            *)
LEMMA CallKeeps ==
    ASSUME MachineInv, NEW c \in Cores,
           CallHandler(c) \/ cpu_core_restart_one(c) \/ cpu_core_restart_all(c)
    PROVE  MachineInv'
<1> DEFINE s == stack[c]
           f == Frame("loop", s[1].n + 1, s[1].sig)
           r == <<Frame("guest", 0, FALSE), f>> \o Tail(s)
<1>s. /\ GoodStack(s) /\ Len(s) \in Nat /\ Len(s) > 0 /\ s[1] = Top(c) /\ GoodFrame(s, 1)
      /\ GoodMasks(s, blocked[c], int_disabled[c])
  BY CoreFacts DEF GoodStack
<1>c. /\ timer \in [Cores -> BOOLEAN] /\ sigalrm \subseteq Cores
      /\ intpending \in [Cores -> SUBSET InterruptNos]
      /\ usr1 \in [Cores -> BOOLEAN] /\ halted \in [Cores -> BOOLEAN]
      /\ blocked[c] \in BOOLEAN /\ blocked = [blocked EXCEPT ![c] = blocked[c]]
      /\ int_disabled[c] \in BOOLEAN
      /\ int_disabled = [int_disabled EXCEPT ![c] = int_disabled[c]]
      /\ stack = [stack EXCEPT ![c] = s]
      /\ \A n \in intpending[c] :
           usr1[c] \/ (Does("send") /\ pic.core = c) \/ int_disabled[c] \/ Watched(s, n)
  BY CoreFacts
<1>1. CASE CallHandler(c)
  <2>1. s[1].at = "call" /\ ~ int_disabled[c]
    BY <1>1, <1>s DEF CallHandler, At, GoodMasks
  <2>2. /\ stack' = [stack EXCEPT ![c] = r]
        /\ intpending' = [intpending EXCEPT ![c] = @ \ {s[1].n}]
        /\ UNCHANGED <<timer, sigalrm, usr1, blocked, int_disabled, halted, pic>>
    BY <1>1, <1>s DEF CallHandler, flagVars
  <2>3. /\ GoodStack(r) /\ Len(r) = Len(s) + 1 /\ r[1] = Frame("guest", 0, FALSE) /\ r[2] = f
        /\ \A k \in 2 .. Len(s) : r[k + 1] = s[k]
    BY <1>s, <2>1, CallFrame
  <2>4. f.at = "loop" /\ f.n = s[1].n + 1 /\ f.sig = s[1].sig /\ r[1].at = "guest"
    BY <2>3 DEF Frame
  <2> HIDE DEF s, f, r
  <2>5. \A k \in 1 .. Len(s) : k = 1 \/ k \in 2 .. Len(s)
    BY <1>s
  <2>6. \A k \in 1 .. Len(s) : k + 1 \in 1 .. Len(r)
    BY <1>s, <2>3
  <2>7. 2 \in 1 .. Len(r)
    BY <1>s, <2>3
  <2>8. (\E k \in 1 .. Len(s) : s[k].sig) => \E k \in 1 .. Len(r) : r[k].sig
    BY <2>3, <2>4, <2>5, <2>6, <2>7
  <2>9. GoodMasks(r, blocked[c], int_disabled[c])
    BY <1>s, <2>1, <2>4, <2>8 DEF GoodMasks, Interruptible
  <2>10. /\ intpending'[c] = intpending[c] \ {s[1].n}
         /\ intpending' \in [Cores -> SUBSET InterruptNos]
         /\ \A e \in Cores \ {c} : intpending'[e] = intpending[e]
    BY <1>c, <2>2
  <2>11. ASSUME NEW n \in intpending'[c], Watched(s, n) PROVE Watched(r, n)
    <3>1. PICK k \in 1 .. Len(s) : WillDispatch(s[k], n)
      BY <2>11 DEF Watched
    <3>2. CASE k = 1
      <4>1. s[1].n <= n /\ n # s[1].n
        BY <2>1, <2>10, <3>1, <3>2 DEF WillDispatch
      <4>2. n \in Nat /\ s[1].n \in Nat
        <5>1. n \in InterruptNos /\ s[1].n \in InterruptNos
          BY <1>s, <2>1, <2>10 DEF GoodFrame
        <5> QED BY <5>1 DEF InterruptNos, ALARM, SERIAL
      <4>3. s[1].n + 1 <= n
        BY <4>1, <4>2
      <4>4. WillDispatch(r[2], n)
        BY <2>3, <2>4, <4>3 DEF WillDispatch
      <4> QED BY <2>7, <4>4 DEF Watched
    <3>3. CASE k \in 2 .. Len(s)
      BY <2>3, <2>6, <3>1, <3>3 DEF Watched
    <3> QED BY <2>5, <3>2, <3>3
  <2>12. \A n \in intpending'[c] :
           usr1[c] \/ (Does("send") /\ pic.core = c) \/ int_disabled[c] \/ Watched(r, n)
    BY <1>c, <2>10, <2>11
  <2>13. GoodStack(r)
    BY <2>3
  <2>14. /\ timer' \in [Cores -> BOOLEAN] /\ sigalrm' \subseteq Cores
         /\ usr1' \in [Cores -> BOOLEAN] /\ halted' \in [Cores -> BOOLEAN]
         /\ intpending' \in [Cores -> SUBSET InterruptNos]
         /\ \A e \in Cores \ {c} : intpending'[e] = intpending[e] /\ usr1'[e] = usr1[e]
         /\ \A n \in intpending'[c] :
              usr1'[c] \/ (Does("send") /\ pic.core = c) \/ int_disabled[c] \/ Watched(r, n)
    BY <1>c, <2>2, <2>10, <2>12
  <2>15. blocked[c] \in BOOLEAN /\ int_disabled[c] \in BOOLEAN
    BY <1>c
  <2>16. /\ blocked' = [blocked EXCEPT ![c] = blocked[c]] /\ pic' = pic
         /\ int_disabled' = [int_disabled EXCEPT ![c] = int_disabled[c]]
         /\ stack' = [stack EXCEPT ![c] = r]
    BY <1>c, <2>2
  <2> QED BY ONLY MachineInv, c \in Cores, <2>9, <2>13, <2>14, <2>15, <2>16, CoreStep
<1>2. CASE cpu_core_restart_one(c) \/ cpu_core_restart_all(c)
  <2>1. UNCHANGED <<timer, sigalrm, intpending, usr1, blocked, int_disabled, stack, pic>>
    BY <1>2 DEF cpu_core_restart_one, cpu_core_restart_all
  <2>2. halted' \in [Cores -> BOOLEAN]
    BY <1>2, <1>c DEF cpu_core_restart_one, cpu_core_restart_all
  <2> HIDE DEF s, f, r
  <2> QED BY <1>s, <1>c, <2>1, <2>2, CoreStep
<1> QED BY <1>1, <1>2

-----------------------------------------------------------------------------
LEMMA NextMachine == MachineInv /\ [Next]_vars => MachineInv'
<1> SUFFICES ASSUME MachineInv, [Next]_vars PROVE MachineInv'
  OBVIOUS
<1>1. CASE UNCHANGED vars
  <2>1. UNCHANGED <<timer, sigalrm, intpending, usr1, blocked, int_disabled, halted, stack, pic>>
    BY <1>1 DEF vars, flagVars
  <2> QED BY <2>1 DEF MachineInv, TypeOK, CoreInvariant, NoInterruptForgotten, Does
<1>2. CASE PIC_daemon \/ \E c \in Cores : TimerExpires(c)
  BY <1>2, PICKeeps
<1>3. ASSUME NEW c \in Cores, Guest(c) PROVE MachineInv'
  BY <1>3, EntryKeeps, EndKeeps, CallKeeps DEF Guest
<1>4. ASSUME NEW c \in Cores, Bios(c) PROVE MachineInv'
  BY <1>4, EntryKeeps, EndKeeps, GoKeepsInv, CallKeeps DEF Bios
<1> QED BY <1>1, <1>2, <1>3, <1>4 DEF Next

(* With one frame on the stack, which is the guest's, there is no handler  *)
(* of a signal.                                                            *)
LEMMA MachineInvImpliesMasks == MachineInv => MasksAgree
<1> SUFFICES ASSUME MachineInv PROVE MasksAgree
  OBVIOUS
<1>1. ASSUME NEW c \in Cores
      PROVE  /\ int_disabled[c] => blocked[c]
             /\ Len(stack[c]) = 1 => blocked[c] = int_disabled[c]
  <2>1. /\ GoodStack(stack[c]) /\ GoodMasks(stack[c], blocked[c], int_disabled[c])
        /\ blocked[c] \in BOOLEAN /\ int_disabled[c] \in BOOLEAN
    BY CoreFacts
  <2>2. ASSUME Len(stack[c]) = 1 PROVE stack[c][1].at = "guest" /\ ~ stack[c][1].sig
    BY <2>1, <2>2 DEF GoodStack, GoodFrame
  <2>3. int_disabled[c] => blocked[c]
    BY <2>1 DEF GoodMasks
  <2>4. ASSUME Len(stack[c]) = 1, blocked[c] PROVE int_disabled[c]
    BY <2>1, <2>2, <2>4 DEF GoodMasks, Interruptible
  <2> QED BY <2>1, <2>3, <2>4
<1> QED BY <1>1 DEF MachineInv, MasksAgree

(* The inductive invariant of the interrupt system of bios.c.              *)
THEOREM MachineInvariant == Spec => []MachineInv
  BY InitMachine, NextMachine, PTL DEF Spec

(* Interrupts that are disabled do not start handlers, and a core outside  *)
(* of the BIOS and of handlers receives signals exactly when interrupts    *)
(* are enabled, however cpu_disable_interrupts, cpu_enable_interrupts,     *)
(* cpu_core_halt and bios_set_timer were interrupted before.               *)
THEOREM MasksAlwaysAgree == Spec => []MasksAgree
  BY MachineInvariant, MachineInvImpliesMasks, PTL

(* An interrupt that raise_interrupt has marked is looked at: by a signal, *)
(* by cpu_enable_interrupts or by a loop of dispatch_interrupts that is    *)
(* still to come to it.                                                    *)
THEOREM InterruptsRemembered == Spec => []NoInterruptForgotten
<1>1. MachineInv => NoInterruptForgotten
  BY DEF MachineInv
<1> QED BY <1>1, MachineInvariant, PTL

=============================================================================
