----------------------------- MODULE UnitTesting -----------------------------
(***************************************************************************)
(* The test runner of unit_testing.c: run_suite runs each test of a suite, *)
(* a boot test on every machine that the command line asks for, and each   *)
(* time in a process of its own that an alarm limits, or in the tester     *)
(* itself (--nofork).  Module TermProxy has the terminal of the test.      *)
(*                                                                         *)
(* What a test does is a script: it expects or sends a pattern, its        *)
(* machine writes or reads bytes, it fails an ASSERT, or it hangs.         *)
(***************************************************************************)
EXTENDS TermProxy, Integers, FiniteSets

CONSTANTS
    TermArgs,       \* the arguments of the option -t, as lists of numbers
    Scripts         \* what boot tests do, that a suite may have

VARIABLES
    fork, term_list,        \* of ARGS
    suite,                  \* the suite that is run
    t, j,                   \* the loops of run_suite, and of run_test over term_list
    result,                 \* of run_test
    results,                \* of run_suite
    tpc,                    \* where the tester is
    blocked, pending,       \* the signals that it blocks, and those pending
    alarm,                  \* the alarm is set
    signo,                  \* what sigwait returned
    child,                  \* the process of the test
    cpc                     \* where the test is in its script

argVars    == <<fork, term_list, suite>>
loopVars   == <<t, j, result, results>>
signalVars == <<blocked, pending, alarm, signo>>
testVars   == <<argVars, loopVars, tpc, signalVars, child, cpc>>
vars       == <<proxyVars, testVars>>

-----------------------------------------------------------------------------
(* The tests that are about the framework itself.  A bare test is executed *)
(* whatever its minima are.                                                *)
Bare(script) == [type |-> "BARE_FUNC", minimum_terminals |-> 0, script |-> script]

BootTest(script) == [type |-> "BOOT_FUNC", minimum_terminals |-> 1, script |-> script]

internal_success == Bare(<< >>)
internal_failure == Bare(<< <<"fail">> >>)
internal_timeout == Bare(<< <<"hang">> >>)
internal_skip    == Bare(<< >>)

internal == <<internal_success, internal_failure, internal_timeout, internal_skip>>

(* The list of numbers, sorted.  A number is taken for a duplicate when it *)
(* is among the values of the old list that precede the next place.        *)
parse_int_list(arg, nlist) ==
    LET Known(args, num) == \E k \in 1 .. Len(args) : k <= Len(nlist) /\ num = nlist[k]
        args == FoldLeft(LAMBDA a, num : IF Known(a, num) THEN a ELSE Append(a, num), << >>, arg)
    IN  SortSeq(args, LAMBDA a, b : a < b)

Init ==
    /\ Idle
    /\ fork \in BOOLEAN
    /\ suite \in {internal} \cup {<<BootTest(s), internal_success>> : s \in Scripts}
    /\ \E arg \in TermArgs : term_list = parse_int_list(arg, <<0>>)
    /\ t = 1 /\ j = 1 /\ result = TRUE
    /\ results = [number_of_tests |-> 0, successful |-> 0]
    /\ tpc = "run" /\ blocked = {} /\ pending = {} /\ alarm = FALSE /\ signo = "none"
    /\ child = "none" /\ cpc = 1

Test == suite[t]

Running == child = "running"

-----------------------------------------------------------------------------
(* run_suite and run_test.                                                 *)

Machines == IF Test.type = "BOOT_FUNC" THEN Len(term_list) ELSE 1

skipped == Test.type = "BOOT_FUNC" /\ term_list[j] < Test.minimum_terminals

(* The outcome of one execution is added to the result of the test, and    *)
(* after the last one the result of the test to those of the suite.        *)
Completed(res) ==
    IF j < Machines
    THEN j' = j + 1 /\ result' = (result /\ res) /\ UNCHANGED <<t, results>>
    ELSE /\ t' = t + 1 /\ j' = 1 /\ result' = TRUE
         /\ results' = [number_of_tests |-> results.number_of_tests + 1,
                        successful |-> results.successful + IF result /\ res THEN 1 ELSE 0]

run_suite_ends ==
    /\ tpc = "run" /\ t > Len(suite)
    /\ tpc' = "done"
    /\ UNCHANGED <<proxyVars, argVars, loopVars, signalVars, child, cpc>>

Skip ==
    /\ tpc = "run" /\ t <= Len(suite) /\ skipped
    /\ Completed(TRUE)
    /\ UNCHANGED <<proxyVars, argVars, tpc, signalVars, child, cpc>>

(* The test starts, with its proxies: SIGCHLD is blocked before the fork.  *)
execute ==
    /\ tpc = "run" /\ t <= Len(suite) /\ ~ skipped
    /\ term_proxy_init(Test.type = "BOOT_FUNC")
    /\ child' = "running" /\ cpc' = 1
    /\ blocked' = IF fork THEN {"CHLD"} ELSE blocked
    /\ tpc' = IF fork THEN "mask" ELSE "call"
    /\ UNCHANGED <<argVars, loopVars, pending, alarm, signo>>

(* execute_nofork: a failure aborts the tester.                            *)
execute_nofork ==
    /\ tpc = "call" /\ ~ Running
    /\ IF child = "aborted"
       THEN tpc' = "dead" /\ UNCHANGED loopVars
       ELSE tpc' = "run" /\ Completed(TRUE)
    /\ child' = "none"
    /\ UNCHANGED <<proxyVars, argVars, signalVars, cpc>>

-----------------------------------------------------------------------------
(* execute_fork.                                                           *)

Tester(from, to) == tpc = from /\ tpc' = to /\ UNCHANGED <<argVars, cpc>>

BlockAlarm ==
    /\ Tester("mask", "alarm")
    /\ blocked' = blocked \cup {"ALRM"}
    /\ UNCHANGED <<proxyVars, loopVars, pending, alarm, signo, child>>

SetAlarm ==
    /\ Tester("alarm", "sigwait")
    /\ alarm' = TRUE
    /\ UNCHANGED <<proxyVars, loopVars, blocked, pending, signo, child>>

sigwait ==
    /\ Tester("sigwait", "cancel")
    /\ signo' \in pending \cap blocked
    /\ pending' = pending \ {signo'}
    /\ UNCHANGED <<proxyVars, loopVars, blocked, alarm, child>>

(* alarm(0) stops the clock; a signal that is pending already stays so.    *)
CancelAlarm ==
    /\ Tester("cancel", IF signo = "ALRM" THEN "kill" ELSE "waitpid")
    /\ alarm' = FALSE
    /\ UNCHANGED <<proxyVars, loopVars, blocked, pending, signo, child>>

(* Slip: the test that ran out of time is not killed.                      *)
KillChild_not == UNCHANGED <<child, pending>>

(* The end of the child sends SIGCHLD to the tester.                       *)
Ends(status) ==
    /\ child' = status
    /\ pending' = IF fork THEN pending \cup {"CHLD"} ELSE pending

KillChild == IF Running THEN Ends("killed") ELSE UNCHANGED <<child, pending>>

kill ==
    /\ Tester("kill", "waitpid")
    /\ KillChild
    /\ UNCHANGED <<proxyVars, loopVars, blocked, alarm, signo>>

waitpid ==
    /\ ~ Running
    /\ Tester("waitpid", "restore")
    /\ Completed(child = "exited")
    /\ child' = "none"
    /\ UNCHANGED <<proxyVars, signalVars>>

(* With the old mask SIGCHLD is ignored, and SIGALRM is fatal.             *)
RestoreMask ==
    /\ Tester("restore", IF "ALRM" \in pending THEN "dead" ELSE "run")
    /\ blocked' = {} /\ pending' = {}
    /\ UNCHANGED <<proxyVars, loopVars, alarm, signo, child>>

AlarmRings ==
    /\ alarm /\ tpc # "dead"
    /\ alarm' = FALSE
    /\ pending' = pending \cup {"ALRM"}
    /\ UNCHANGED <<proxyVars, argVars, loopVars, tpc, blocked, signo, child, cpc>>

-----------------------------------------------------------------------------
(* The process of the test: the script, then the proxies are closed.       *)

Op == Test.script[cpc]

InScript(what) == Running /\ cpc <= Len(Test.script) /\ Op[1] = what

OnlyProxy == UNCHANGED <<argVars, loopVars, tpc, signalVars, child>>

ScriptStep ==
    /\ \/ InScript("expect") /\ term_proxy_daemon_add("con", Op[2])
       \/ InScript("sendme") /\ term_proxy_daemon_add("kbd", Op[2])
       \/ InScript("write") /\ ConsoleOut(Op[2])
       \/ InScript("read") /\ KeyboardIn(Op[2])
       \/ /\ InScript("fail")
          /\ FLAG_FAILURE' = TRUE
          /\ UNCHANGED <<pattern, complete, dpc, rest, have_data, oldcomplete, fifo, wanted, passed>>
    /\ cpc' = cpc + 1
    /\ OnlyProxy

(* con is closed first: kbd is marked when con has been joined.            *)
term_proxy_close ==
    LET d == IF complete["con"] THEN "kbd" ELSE "con" IN
    /\ Running /\ cpc > Len(Test.script)
    /\ ~ complete[d]
    /\ complete["con"] => dpc["con"] = "ended"
    /\ MarkComplete(d)
    /\ OnlyProxy /\ UNCHANGED cpc

TestEnds ==
    /\ Running /\ cpc > Len(Test.script)
    /\ \A d \in Daemons : complete[d] /\ dpc[d] = "ended"
    /\ Ends(IF FLAG_FAILURE THEN "aborted" ELSE "exited")
    /\ UNCHANGED <<proxyVars, argVars, loopVars, tpc, blocked, alarm, signo, cpc>>

Child == ScriptStep \/ term_proxy_close \/ TestEnds

Daemon(d) == Running /\ term_proxy_daemon(d) /\ OnlyProxy /\ UNCHANGED cpc

Runner ==
    \/ run_suite_ends \/ Skip \/ execute \/ execute_nofork
    \/ BlockAlarm \/ SetAlarm \/ sigwait \/ CancelAlarm \/ kill \/ waitpid \/ RestoreMask

Next == Runner \/ AlarmRings \/ Child \/ \E d \in Daemons : Daemon(d)

(* The host schedules every thread, and its alarms ring.                   *)
Fairness ==
    /\ WF_vars(Runner) /\ WF_vars(AlarmRings) /\ WF_vars(Child)
    /\ \A d \in Daemons : WF_vars(Daemon(d))

Spec == Init /\ [][Next]_vars /\ Fairness

-----------------------------------------------------------------------------
(* Properties.                                                             *)

(* A test is passed only when it ended by itself, no ASSERT failed, the    *)
(* machine wrote what was expected and all that was sent has been typed,   *)
(* however the daemons, the machine and the end of the test interleave.    *)
VerdictIsSound ==
    child = "exited" =>
      /\ ~ \E k \in DOMAIN Test.script : Test.script[k] = <<"fail">>
      /\ IsPrefix(wanted["con"], passed["con"])
      /\ passed["kbd"] = wanted["kbd"]

(* The runner gets to the end of a suite although tests hang: they are     *)
(* killed.  It may die before that in one way, by an alarm that rings when *)
(* the test has ended and its signal was taken by sigwait.                 *)
SuiteEnds ==
    fork => <>(/\ tpc = "done" \/ (tpc = "dead" /\ signo = "CHLD")
               /\ tpc = "done" => results.number_of_tests = Len(suite))

=============================================================================
