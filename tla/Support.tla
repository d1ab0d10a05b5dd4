------------------------------ MODULE Support --------------------------------
(***************************************************************************)
(* What supports the kernel and its tests, side by side: a client of the   *)
(* lists, of the exceptions or of the packing of arguments (util.h, util.c *)
(* and tinyoslib.c), or of the test runner (unit_testing.c).               *)
(***************************************************************************)
EXTENDS Rings

CONSTANTS
    MaxTries, MaxHandlers,                                              \* of Exceptions
    Programs, Chars, MaxArgs, MaxLength, PROCINFO_MAX_ARGS_SIZE,        \* of Arguments
    Capacity, PIPE_BUF, TermArgs, Scripts,                              \* of UnitTesting
    Bytes                                                               \* what a terminal takes

VARIABLES
    context, stack, tries, made, ran,
    asked, frame, args, got,
    pattern, complete, dpc, rest, have_data, oldcomplete, fifo, FLAG_FAILURE, wanted, passed,
    fork, term_list, suite, t, j, result, results, tpc, blocked, pending, alarm, signo, child, cpc,
    client                                              \* what the client uses

(* What a boot test does: it expects or sends a pattern, its machine       *)
(* writes or reads a byte, an ASSERT fails, or it hangs.                   *)
Operations ==
    ({"expect", "sendme"} \X Seq(Bytes)) \cup ({"write", "read"} \X Bytes) \cup {<<"fail">>, <<"hang">>}

ASSUME SupportAssumption ==
    /\ MaxArgs \in Nat /\ "NUL" \notin Chars
    /\ Capacity \in Nat /\ PIPE_BUF \in Nat
    /\ Scripts \subseteq Seq(Operations)

X == INSTANCE Exceptions
A == INSTANCE Arguments
U == INSTANCE UnitTesting

excVars == <<context, stack, tries, made, ran>>
argVars == <<asked, frame, args, got>>
tstVars == <<pattern, complete, dpc, rest, have_data, oldcomplete, fifo, FLAG_FAILURE, wanted, passed,
             fork, term_list, suite, t, j, result, results, tpc, blocked, pending, alarm, signo, child, cpc>>
allVars == <<vars, excVars, argVars, tstVars, client>>

(* The others stay in one of their initial states.                         *)
SupportInit ==
    /\ Init /\ X!Init /\ A!Init /\ U!Init
    /\ client \in {"lists", "exceptions", "arguments", "tests"}
    /\ client # "lists" => heap.key = [n \in Nodes |-> CHOOSE k \in Keys : TRUE]
    /\ client # "tests" => ~ fork /\ term_list = <<0>> /\ suite = U!internal

SupportNext ==
    \/ client = "lists" /\ Next /\ UNCHANGED <<excVars, argVars, tstVars, client>>
    \/ client = "exceptions" /\ X!Next /\ UNCHANGED <<vars, argVars, tstVars, client>>
    \/ client = "arguments" /\ A!Next /\ UNCHANGED <<vars, excVars, tstVars, client>>
    \/ client = "tests" /\ U!Next /\ UNCHANGED <<vars, excVars, argVars, client>>

SupportSpec ==
    /\ SupportInit /\ [][SupportNext]_allVars
    /\ client = "tests" => U!Fairness

-----------------------------------------------------------------------------
(* The exception stack follows the TRY blocks of util.h, and the handlers  *)
(* of a block run once, in their order: exception_unwind in util.c.        *)
ExceptionsUnwind == X!ContextFollowsBlocks /\ X!HandlersRunOnce

(* exec_wrapper calls the program with the arguments Execute was given.    *)
ArgumentsArrive == A!ArgumentsArrive

(* A test that unit_testing.c reports as passed has done what it promised. *)
VerdictIsSound == client = "tests" => U!VerdictIsSound

(* run_suite gets to the end of the suite, or the tester is killed by the  *)
(* alarm that alarm(0) of execute_fork did not withdraw.                   *)
SuiteEnds == client = "tests" => U!SuiteEnds

=============================================================================
