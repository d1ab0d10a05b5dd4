---------------------------- MODULE SerialProofs ----------------------------
(***************************************************************************)
(* Proofs about the serial driver and the PIC daemon, for any number of    *)
(* terminals and threads, any sizes of buffers and any SERIAL_TIMEOUT.     *)
(***************************************************************************)
EXTENDS Serial, TLAPS

(* A call that has not ended has room for one more byte, so that the loop  *)
(* of the driver transfers at most Size bytes; and only a reader is in     *)
(* io_device_read.                                                         *)
CallsInProgress ==
    \A r \in Threads :
      /\ pc[r] # "user" => count[r] < Size
      /\ pc[r] \in {"empty", "notify"} => r \in Readers

SerialInv == TypeOK /\ CallsInProgress /\ KeyboardIsWatched

-----------------------------------------------------------------------------
LEMMA InitSerial == Init => SerialInv
<1> SUFFICES ASSUME Init PROVE SerialInv
  OBVIOUS
<1>1. TypeOK
  <2>1. /\ 0 \in 0 .. Capacity /\ 0 \in 0 .. SERIAL_TIMEOUT
        /\ 0 \in 0 .. NTerm /\ 0 \in 0 .. Size
    BY SerialAssumption
  <2> QED BY <2>1 DEF Init, TypeOK, Places
<1>2. CallsInProgress
  BY DEF Init, CallsInProgress
<1>3. KeyboardIsWatched
  BY <1>1 DEF Init, KeyboardIsWatched
<1> QED BY <1>1, <1>2, <1>3 DEF SerialInv

(* The end of a loop of the driver: the call goes on, sleeps or returns.   *)
LEMMA LoopTypes ==
    ASSUME TypeOK, CallsInProgress, NEW r \in Threads,
           pc[r] \in {"try", "empty", "notify"},
           Transferred(r) \/ NotTransferred(r)
    PROVE  /\ kernel' \in Threads \cup {Nobody}
           /\ pc' \in [Threads -> Places]
           /\ count' \in [Threads -> 0 .. Size]
           /\ \A s \in Threads : s # r => pc'[s] = pc[s] /\ count'[s] = count[s]
           /\ pc'[r] # "user" => count'[r] < Size
           /\ pc'[r] \in {"user", "sleep", "try", pc[r]}
           /\ NotTransferred(r) => pc'[r] \in {"user", "sleep", "try"}
<1>1. /\ pc \in [Threads -> Places] /\ count \in [Threads -> 0 .. Size]
      /\ kernel \in Threads \cup {Nobody} /\ count[r] < Size /\ Size \in Nat
      /\ count[r] \in 0 .. Size
  BY SerialAssumption DEF TypeOK, CallsInProgress
<1>2. CASE Transferred(r)
  <2>1. count' = [count EXCEPT ![r] = count[r] + 1]
    BY <1>2 DEF Transferred
  <2>2. CASE count[r] + 1 < Size
    BY <1>1, <1>2, <2>1, <2>2 DEF Transferred, NotTransferred
  <2>3. CASE ~ (count[r] + 1 < Size)
    BY <1>1, <1>2, <2>1, <2>3 DEF Transferred, NotTransferred, Return, Go, Places
  <2> QED BY <2>2, <2>3
<1>3. CASE NotTransferred(r)
  BY <1>1, <1>3 DEF NotTransferred, Return, Go, Places
<1> QED BY <1>2, <1>3

-----------------------------------------------------------------------------
(* What the threads do preserves the invariant.                            *)
LEMMA ThreadKeeps ==
    ASSUME SerialInv, NEW r \in Threads, Call(r) \/ Thread(r)
    PROVE  SerialInv'
<1> USE DEF SerialInv
<1>0. Term[r] \in Terminals
  BY SerialAssumption DEF Terminals, Threads
<1>1. CASE Call(r)
  <2>1. TypeOK'
    BY <1>1, SerialAssumption DEF Call, TypeOK, Go, Places, deviceVars, picVars
  <2>2. CallsInProgress'
    BY <1>1, SerialAssumption DEF Call, TypeOK, Go, Places, CallsInProgress
  <2>3. KeyboardIsWatched'
    BY <1>1, <2>1 DEF Call, TypeOK, Go, KeyboardIsWatched, deviceVars, picVars, Threads
  <2> QED BY <2>1, <2>2, <2>3
<1>2. CASE Lock(r)
  <2>1. TypeOK'
    BY <1>2 DEF Lock, TypeOK, Go, Places, deviceVars, picVars
  <2>2. CallsInProgress'
    BY <1>2 DEF Lock, TypeOK, Go, CallsInProgress
  <2>3. KeyboardIsWatched'
    BY <1>2, <2>1 DEF Lock, TypeOK, Go, KeyboardIsWatched, deviceVars, picVars, Threads
  <2> QED BY <2>1, <2>2, <2>3
<1>3. CASE io_device_read(r)
  <2>1. CASE kbd[Term[r]] > 0
    <3>1. kbd' = [kbd EXCEPT ![Term[r]] = kbd[Term[r]] - 1] /\ Transferred(r) /\ pc[r] = "try"
      BY <1>3, <2>1 DEF io_device_read
    <3>2. UNCHANGED <<con, kbd_ready, picVars, usr1, pending, handler>>
      BY <1>3 DEF io_device_read
    <3>3. kbd' \in [Terminals -> 0 .. Capacity]
      <4>1. kbd[Term[r]] - 1 \in 0 .. Capacity
        BY <1>0, <2>1, SerialAssumption DEF TypeOK
      <4> QED BY <3>1, <4>1, <1>0 DEF TypeOK
    <3>4. TypeOK'
      BY <3>1, <3>2, <3>3, LoopTypes DEF TypeOK, picVars
    <3>5. CallsInProgress'
      BY <3>1, LoopTypes DEF CallsInProgress
    <3>6. KeyboardIsWatched'
      BY <3>1, <3>2, <3>4, LoopTypes DEF KeyboardIsWatched, picVars, Threads
    <3> QED BY <3>4, <3>5, <3>6
  <2>2. CASE ~ (kbd[Term[r]] > 0)
    <3>1. /\ pc[r] = "try" /\ r \in Readers /\ pc' = [pc EXCEPT ![r] = "empty"]
          /\ UNCHANGED <<kbd, kernel, count, con, kbd_ready, picVars, usr1, pending, handler>>
      BY <1>3, <2>2 DEF io_device_read, Go
    <3>2. TypeOK'
      BY <3>1 DEF TypeOK, picVars, Places
    <3>3. CallsInProgress'
      BY <3>1 DEF CallsInProgress, TypeOK
    <3>4. KeyboardIsWatched'
      BY <3>1, <3>2 DEF KeyboardIsWatched, TypeOK, picVars, Threads
    <3> QED BY <3>2, <3>3, <3>4
  <2> QED BY <2>1, <2>2
<1>4. CASE io_device_read_failed(r)
  <2>1. /\ pc[r] = "empty" /\ r \in Readers
        /\ kbd_ready' = [kbd_ready EXCEPT ![Term[r]] = FALSE]
        /\ UNCHANGED <<kbd, con, picVars, usr1, pending, handler>>
    BY <1>4 DEF io_device_read_failed, CallsInProgress
  <2>2. CASE kbd_ready[Term[r]]
    <3>1. pc' = [pc EXCEPT ![r] = "notify"] /\ UNCHANGED <<kernel, count>>
      BY <1>4, <2>2 DEF io_device_read_failed, Go
    <3>2. TypeOK'
      BY <2>1, <3>1 DEF TypeOK, picVars, Places
    <3>3. CallsInProgress'
      BY <2>1, <3>1 DEF CallsInProgress, TypeOK
    <3>4. KeyboardIsWatched'
      <4>1. \A s \in Readers : pc[s] = "notify" => pc'[s] = "notify"
        BY <2>1, <3>1 DEF TypeOK, Threads
      <4>2. pc'[r] = "notify"
        BY <3>1 DEF TypeOK
      <4>3. \A t \in Terminals : t # Term[r] => kbd_ready'[t] = kbd_ready[t]
        BY <2>1 DEF TypeOK
      <4> QED BY <2>1, <3>2, <4>1, <4>2, <4>3 DEF KeyboardIsWatched, picVars
    <3> QED BY <3>2, <3>3, <3>4
  <2>3. CASE ~ kbd_ready[Term[r]]
    <3>1. NotTransferred(r)
      BY <1>4, <2>3 DEF io_device_read_failed
    <3>2. kbd_ready' = kbd_ready
      BY <2>1, <2>3, <1>0 DEF TypeOK
    <3>3. TypeOK'
      BY <2>1, <3>1, <3>2, LoopTypes DEF TypeOK, picVars
    <3>4. CallsInProgress'
      BY <2>1, <3>1, LoopTypes DEF CallsInProgress
    <3>5. KeyboardIsWatched'
      <4>1. \A s \in Readers : pc[s] = "notify" => pc'[s] = "notify"
        BY <2>1, <3>1, LoopTypes DEF Threads
      <4> QED BY <2>1, <3>2, <3>3, <4>1 DEF KeyboardIsWatched, picVars
    <3> QED BY <3>3, <3>4, <3>5
  <2> QED BY <2>2, <2>3
<1>5. CASE io_device_write(r)
  <2>1. /\ pc[r] = "try"
        /\ Transferred(r) \/ NotTransferred(r)
        /\ UNCHANGED <<kbd, kbd_ready, picVars, usr1, pending, handler>>
    BY <1>5 DEF io_device_write
  <2>2. con' \in [Terminals -> 0 .. Capacity]
    <3>1. CASE con[Term[r]] < Capacity
      <4>1. con[Term[r]] + 1 \in 0 .. Capacity
        BY <1>0, <3>1, SerialAssumption DEF TypeOK
      <4> QED BY <1>5, <3>1, <4>1, <1>0 DEF io_device_write, TypeOK
    <3>2. CASE ~ (con[Term[r]] < Capacity)
      BY <1>5, <3>2 DEF io_device_write, TypeOK
    <3> QED BY <3>1, <3>2
  <2>3. TypeOK'
    BY <2>1, <2>2, LoopTypes DEF TypeOK, picVars
  <2>4. CallsInProgress'
    BY <2>1, LoopTypes DEF CallsInProgress
  <2>5. KeyboardIsWatched'
    <3>1. \A s \in Readers : pc[s] = "notify" => pc'[s] = "notify"
      BY <2>1, LoopTypes DEF Threads
    <3> QED BY <2>1, <2>3, <3>1 DEF KeyboardIsWatched, picVars
  <2> QED BY <2>3, <2>4, <2>5
<1>6. CASE InterruptPIC(r)
  <2>1. /\ pc[r] = "notify" /\ usr1' = TRUE /\ NotTransferred(r)
        /\ UNCHANGED <<deviceVars, picVars, pending, handler>>
    BY <1>6 DEF InterruptPIC, interrupt_pic_thread
  <2>2. TypeOK'
    BY <2>1, LoopTypes DEF TypeOK, deviceVars, picVars
  <2>3. CallsInProgress'
    BY <2>1, LoopTypes DEF CallsInProgress
  <2>4. KeyboardIsWatched'
    BY <2>1, <2>2 DEF KeyboardIsWatched
  <2> QED BY <2>2, <2>3, <2>4
<1>7. CASE kernel_wait(r)
  <2>1. TypeOK'
    BY <1>7 DEF kernel_wait, TypeOK, Go, Places, deviceVars, picVars
  <2>2. CallsInProgress'
    BY <1>7 DEF kernel_wait, TypeOK, Go, CallsInProgress
  <2>3. KeyboardIsWatched'
    BY <1>7, <2>1 DEF kernel_wait, TypeOK, Go, KeyboardIsWatched, deviceVars, picVars, Threads
  <2> QED BY <2>1, <2>2, <2>3
<1> QED BY <1>1, <1>2, <1>3, <1>4, <1>5, <1>6, <1>7 DEF Thread

(* What the terminals, the PIC daemon and the core do preserves it.        *)
LEMMA DevicesKeep ==
    ASSUME SerialInv,
           \/ \E t \in Terminals : KeyPressed(t) \/ Displayed(t)
           \/ PIC_daemon \/ Interrupt
    PROVE  SerialInv'
<1> USE DEF SerialInv
<1>1. ASSUME NEW t \in Terminals, KeyPressed(t) PROVE SerialInv'
  <2>1. TypeOK'
    BY <1>1, SerialAssumption DEF KeyPressed, TypeOK, picVars, threadVars
  <2> QED BY <1>1, <2>1 DEF KeyPressed, CallsInProgress, KeyboardIsWatched, picVars, threadVars
<1>2. ASSUME NEW t \in Terminals, Displayed(t) PROVE SerialInv'
  <2>1. TypeOK'
    BY <1>2, SerialAssumption DEF Displayed, TypeOK, picVars, threadVars
  <2> QED BY <1>2, <2>1 DEF Displayed, CallsInProgress, KeyboardIsWatched, picVars, threadVars
<1>3. CASE Prepare
  <2>1. TypeOK'
    BY <1>3 DEF Prepare, TypeOK, deviceVars, threadVars
  <2>2. \A t \in Terminals \ watched' : kbd_ready'[t]
    BY <1>3 DEF Prepare, deviceVars
  <2> QED BY <1>3, <2>1, <2>2 DEF Prepare, CallsInProgress, KeyboardIsWatched, threadVars
<1>4. ASSUME NEW elapsed \in {0, 1}, Select(elapsed) PROVE SerialInv'
  <2>1. age' \in [Terminals -> 0 .. SERIAL_TIMEOUT]
    <3>1. age' = [t \in Terminals |-> IF t \in found' THEN 0 ELSE age[t] + elapsed]
      BY <1>4 DEF Select
    <3>2. ASSUME NEW t \in Terminals, t \notin found' PROVE age[t] + elapsed \in 0 .. SERIAL_TIMEOUT
      BY <1>4, <3>2, SerialAssumption DEF Select, Inactive, TypeOK
    <3> QED BY <3>1, <3>2, SerialAssumption
  <2>2. found' \subseteq Terminals
    BY <1>4 DEF Select, Readable, TypeOK
  <2>3. TypeOK'
    BY <1>4, <2>1, <2>2 DEF Select, TypeOK, deviceVars, threadVars
  <2> QED BY <1>4, <2>3 DEF Select, CallsInProgress, KeyboardIsWatched, threadVars
<1>5. ASSUME NEW t \in Terminals, Serve(t) PROVE SerialInv'
  <2>1. TypeOK'
    BY <1>5 DEF Serve, TypeOK, threadVars
  <2> QED BY <1>5, <2>1 DEF Serve, Reported, CallsInProgress, KeyboardIsWatched, threadVars
<1>6. CASE Served
  <2>1. TypeOK'
    BY <1>6 DEF Served, TypeOK, deviceVars, threadVars
  <2> QED BY <1>6, <2>1 DEF Served, CallsInProgress, KeyboardIsWatched, threadVars
<1>7. CASE dispatch_interrupts
  <2>0. 1 \in 0 .. NTerm
    BY SerialAssumption
  <2>1. TypeOK'
    BY <1>7, <2>0 DEF dispatch_interrupts, TypeOK, deviceVars, picVars, threadVars
  <2> QED
    BY <1>7, <2>1 DEF dispatch_interrupts, CallsInProgress, KeyboardIsWatched, deviceVars,
                      picVars, threadVars
<1>8. CASE serial_rx_handler
  <2>1. handler' \in 0 .. NTerm
    BY <1>8, SerialAssumption DEF serial_rx_handler, NextTerminal, TypeOK
  <2>2. pc' = [r \in Threads |-> IF pc[r] = "asleep" /\ Term[r] = handler THEN "lock" ELSE pc[r]]
    BY <1>8 DEF serial_rx_handler
  <2>3. pc' \in [Threads -> Places]
    BY <2>2 DEF TypeOK, Places
  <2>4. TypeOK'
    BY <1>8, <2>1, <2>3 DEF serial_rx_handler, TypeOK, deviceVars, picVars
  <2>5. CallsInProgress'
    BY <1>8, <2>2 DEF serial_rx_handler, CallsInProgress
  <2>6. KeyboardIsWatched'
    BY <1>8, <2>2, <2>4 DEF serial_rx_handler, KeyboardIsWatched, deviceVars, picVars, Threads
  <2> QED BY <2>4, <2>5, <2>6
<1> QED
  BY <1>1, <1>2, <1>3, <1>4, <1>5, <1>6, <1>7, <1>8 DEF PIC_daemon, Interrupt

-----------------------------------------------------------------------------
LEMMA NextSerial == SerialInv /\ [Next]_vars => SerialInv'
<1> SUFFICES ASSUME SerialInv, [Next]_vars PROVE SerialInv'
  OBVIOUS
<1>1. CASE UNCHANGED vars
  BY <1>1 DEF SerialInv, TypeOK, CallsInProgress, KeyboardIsWatched, vars, deviceVars, picVars,
              threadVars
<1> QED BY <1>1, ThreadKeeps, DevicesKeep DEF Next

(* Every keyboard that is not ready is watched by the PIC daemon or is     *)
(* about to be: io_device_read and PIC_daemon of bios.c never leave it     *)
(* asleep in select without one, although flag, descriptor set and SIGUSR1 *)
(* are read and written without a lock.                                    *)
THEOREM KeyboardsWatched == Spec => []KeyboardIsWatched
<1>1. Spec => []SerialInv
  BY InitSerial, NextSerial, PTL DEF Spec
<1>2. SerialInv => KeyboardIsWatched
  BY DEF SerialInv
<1> QED BY <1>1, <1>2, PTL
=============================================================================
