------------------------------ MODULE Arguments ------------------------------
(***************************************************************************)
(* How the arguments of a program reach it: Execute packs the program and  *)
(* its strings into a buffer on its stack, Exec copies the buffer for the  *)
(* new process, and exec_wrapper unpacks it there.  A buffer is a sequence *)
(* of bytes; the pointer to the program takes one cell of it.              *)
(***************************************************************************)
EXTENDS Integers, Sequences, FiniteSets

CONSTANTS
    Programs,                 \* the programs that may be executed
    Chars,                    \* the bytes of a string
    MaxArgs, MaxLength,       \* bounds on argc and on the length of a string
    PROCINFO_MAX_ARGS_SIZE

NUL == "NUL"

Strings == UNION {[1 .. n -> Chars] : n \in 0 .. MaxLength}
Argvs   == UNION {[1 .. n -> Strings] : n \in 0 .. MaxArgs}

VARIABLES
    asked,      \* the program and the arguments that Execute was given
    frame,      \* the buffer in the frame of Execute
    args,       \* PCB.args of the new process: its buffer, as <<buffer>>
    got         \* what the program was called with

vars == <<asked, frame, args, got>>

Nothing == << >>

-----------------------------------------------------------------------------
argvlen(argv) ==
    LET l[i \in 0 .. Len(argv)] == IF i = 0 THEN 0 ELSE l[i - 1] + Len(argv[i]) + 1
    IN  l[Len(argv)]

argvpack(argv) ==
    LET buf[i \in 0 .. Len(argv)] == IF i = 0 THEN << >> ELSE buf[i - 1] \o argv[i] \o <<NUL>>
    IN  buf[Len(argv)]

argscount(buf) == Cardinality({i \in 1 .. Len(buf) : buf[i] = NUL})

(* The zero byte that ends the string at a.                                *)
EndOf(buf, a) == CHOOSE i \in a .. Len(buf) : buf[i] = NUL /\ \A k \in a .. i - 1 : buf[k] # NUL

(* Where the loop has got to after i strings, each with its zero byte.     *)
argvunpack(argc, buf) ==
    LET a[i \in 0 .. argc] == IF i = 0 THEN 1 ELSE EndOf(buf, a[i - 1]) + 1
    IN  [i \in 1 .. argc |-> SubSeq(buf, a[i - 1], EndOf(buf, a[i - 1]) - 1)]

(* It recovers what Execute has packed, and all of it: the buffer fits     *)
(* into procinfo.args.  The memcpy for prog overwrites the parameter, so   *)
(* the variable that prog points to keeps what it held.                    *)
ParseProcInfo(main_task, buf, prog, argc) ==
    LET N == argscount(Tail(buf)) IN
    IF main_task # "exec_wrapper" \/ Len(buf) > PROCINFO_MAX_ARGS_SIZE
    THEN [ret |-> -1, prog |-> prog, argv |-> << >>]
    ELSE [ret |-> N, prog |-> prog, argv |-> argvunpack(IF argc > N THEN N ELSE argc, Tail(buf))]

-----------------------------------------------------------------------------
Init == asked = Nothing /\ frame = Nothing /\ args = Nothing /\ got = Nothing

Execute(prog, argv) ==
    /\ asked = Nothing
    /\ asked' = <<prog, argv>>
    /\ frame' = <<prog>> \o argvpack(argv)
    /\ UNCHANGED <<args, got>>

(* Slip: the process gets a pointer to the buffer of its caller.           *)
CopiesArguments_not(buf) == <<Nothing>>

(* sys_Exec copies the buffer for the new process.                         *)
CopiesArguments(buf) == <<buf>>

sys_Exec ==
    /\ frame # Nothing /\ args = Nothing
    /\ args' = CopiesArguments(frame)
    /\ UNCHANGED <<asked, frame, got>>

(* Execute has returned, and its frame is used for something else.         *)
Reuse ==
    /\ args # Nothing
    /\ frame' = [i \in DOMAIN frame |-> NUL]
    /\ UNCHANGED <<asked, args, got>>

(* start_main_thread calls exec_wrapper with the arguments of the process. *)
exec_wrapper ==
    LET buf == IF args = <<Nothing>> THEN frame ELSE args[1] IN
    /\ args # Nothing /\ got = Nothing
    /\ got' = <<Head(buf), argvunpack(argscount(Tail(buf)), Tail(buf))>>
    /\ UNCHANGED <<asked, frame, args>>

Next ==
    \/ \E prog \in Programs, argv \in Argvs : Execute(prog, argv)
    \/ sys_Exec \/ Reuse \/ exec_wrapper

Spec == Init /\ [][Next]_vars

-----------------------------------------------------------------------------
(* Properties.                                                             *)

(* A program is called with the arguments that Execute was given, whatever *)
(* its caller does meanwhile; the buffer has the size that argvlen gives,  *)
(* and ParseProcInfo recovers the arguments (not the program) from it when *)
(* it fits.                                                                *)
ArgumentsArrive ==
    /\ got # Nothing => got = asked
    /\ asked # Nothing =>
         LET argv == asked[2]
             buf  == <<asked[1]>> \o argvpack(argv)
             info == ParseProcInfo("exec_wrapper", buf, Nothing, MaxArgs)
         IN  /\ Len(buf) = argvlen(argv) + 1
             /\ info.ret = IF Len(buf) > PROCINFO_MAX_ARGS_SIZE THEN -1 ELSE Len(argv)
             /\ info.ret # -1 => info.argv = argv

=============================================================================
