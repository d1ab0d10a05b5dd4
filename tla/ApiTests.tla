------------------------------ MODULE ApiTests ------------------------------
(***************************************************************************)
(* Tests of validate_api.c.  Each is booted as the init process ("main");  *)
(* the other tasks are its local functions.  A loop over N children runs   *)
(* for Times of them, a message is one token, and there are two terminals. *)
(***************************************************************************)
EXTENDS ProgramText

Times == 2      \* bound on the repetitions of a loop

Child == <<"c1", "c2">>      \* Pid_t children[N]

-----------------------------------------------------------------------------
(* Processes.                                                              *)

test_pid_of_init_is_one == [main |-> Process(<<Must("GetPid", << >>, "1")>>, "0")]

test_waitchild_error_on_invalid_pid ==
    LET waitchild_error == << Must("WaitChild", <<"self", "none">>, "-1"),
                              Must("WaitChild", <<"MAX_PROC", "none">>, "-1"),
                              Must("WaitChild", <<"next", "none">>, "-1") >>
    IN  [main |-> Process(waitchild_error \o
                          << Let("cpid", "Exec", <<"subprocess">>),
                             Must("WaitChild", <<"-1", "none">>, "cpid") >>, "0"),
         subprocess |-> Process(waitchild_error, "0")]

test_waitchild_error_on_nonchild ==
    [main |-> Process(<< Let("cpid", "Exec", <<"void_child">>),
                         MustLet("badpid", "Exec", <<"bad_child">>, "valid"),
                         Must("WaitChild", <<"badpid", "none">>, "badpid"),
                         Must("WaitChild", <<"cpid", "none">>, "cpid") >>, "0"),
     void_child |-> Process(<< >>, "0"),
     bad_child |-> Process(<<Must("WaitChild", <<"cpid", "none">>, "-1")>>, "0")]

(* prec->level is 2 for init, then 1 and 0.                                *)
test_exec_getpid_wait ==
    LET Level(child) ==
          Process(Repeated(Times, << MustLet("kid", "Exec", <<child>>, "valid"),
                                     Must("WaitChild", <<"kid", "status">>, "kid"),
                                     Check("status", "kid") >>), "self")
    IN  [main |-> Level("level1"), level1 |-> Level("level0"), level0 |-> Process(<< >>, "self")]

(* The children of level 0 write their pids to rec[i].                     *)
test_wait_for_any_child ==
    [main |-> Process(
       << Must("Exec", <<"first">>, "valid"), Must("Exec", <<"second">>, "valid") >>
       \o Repeated(Times, << MustLet("cpid", "WaitChild", <<"-1", "none">>, "valid"),
                             Must("Take", <<"cpid", "rec1", "rec2">>, "0") >>)
       \o << Must("WaitChild", <<"-1", "none">>, "-1") >>, "0"),
     first |-> Process(<<Set("rec1", "self")>>, "0"),
     second |-> Process(<<Set("rec2", "self")>>, "0")]

StatusTest(child) ==
    [main |-> Process(
       [i \in 1 .. Times |-> Let(Child[i], "Exec", <<"child">>)]
       \o FlattenSeq([i \in 1 .. Times |-> << Do("WaitChild", <<Child[i], "status">>),
                                              Check("status", Child[i]) >>]), "0"),
     child |-> child]

test_exit_returns_status ==
    StatusTest(Process(<<Do("Exit", <<"self">>), Check("0", "1")>>, "1"))

test_main_return_returns_status == StatusTest(Process(<< >>, "self"))

(* One child of init with Times children of its own.                       *)
test_orphans_adopted_by_init ==
    [main |-> Process(
       << Must("Exec", <<"child">>, "valid") >>
       \o Repeated(Times + 1, << Must("WaitChild", <<"-1", "status">>, "valid"),
                                 Do("Add", <<"sum", "status">>) >>)
       \o << Must("WaitChild", <<"-1", "none">>, "-1"), Check("sum", "102") >>, "0"),
     child |-> Process(Repeated(Times, <<Must("Exec", <<"grandchild">>, "valid")>>), "100"),
     grandchild |-> Process(<< >>, "1")]

-----------------------------------------------------------------------------
(* Synchronization.                                                        *)

test_cond_timedwait_timeout ==
    [main |-> Process(Repeated(Times, <<Do("Exec", <<"do_timeout">>)>>) \o WaitForAll, "0"),
     do_timeout |-> Process(<< Do("Mutex_Lock", <<"mx">>),
                               Do("Cond_TimedWait", <<"mx", "cv">>) >>, "0")]

test_cond_timedwait_signal ==
    [main |-> Process(<< Let("c1", "Exec", <<"long_blocking">>),
                         Do("Mutex_Lock", <<"m">>),
                         If("flag", "1", 3), Do("Cond_Wait", <<"m", "pcv">>), Goto(-2),
                         Do("Cond_Signal", <<"pcv">>),
                         Do("Mutex_Unlock", <<"m">>),
                         Wait("c1") >>, "0"),
     long_blocking |-> Process(<< Do("Mutex_Lock", <<"m">>),
                                  Set("flag", "1"),
                                  Do("Cond_Signal", <<"pcv">>),
                                  Do("Cond_TimedWait", <<"m", "pcv">>),
                                  Do("Mutex_Unlock", <<"m">>) >>, "0")]

test_cond_timedwait_broadcast ==
    [main |-> Process(Repeated(Times, <<Do("Exec", <<"long_blocking">>)>>) \o
                      << Do("Mutex_Lock", <<"m">>),
                         If("flag", "2", 3), Do("Cond_Wait", <<"m", "pcv">>), Goto(-2),
                         Do("Cond_Broadcast", <<"gcv">>),
                         Do("Mutex_Unlock", <<"m">>) >> \o WaitForAll, "0"),
     long_blocking |-> Process(<< Do("Mutex_Lock", <<"m">>),
                                  Do("Add", <<"flag", "1">>),
                                  Do("Cond_Signal", <<"pcv">>),
                                  Do("Cond_TimedWait", <<"m", "gcv">>),
                                  Do("Mutex_Unlock", <<"m">>) >>, "0")]

-----------------------------------------------------------------------------
(* Streams.                                                                *)

Fid == <<"0", "1", "2", "3", "4">>

Main(code) == [main |-> Process(code, "0")]

checked_read(fid, message) == Must("Read", <<fid>>, message)

checked_write(fid, message) == Must("Write", <<fid, message>>, "valid")

OpenBoth == << MustLet("term0", "OpenTerminal", <<"0">>, "valid"),
               MustLet("term1", "OpenTerminal", <<"1">>, "valid") >>

OpenFirst == << MustLet("fterm", "OpenTerminal", <<"0">>, "valid") >>

(* if(f!=0) { ASSERT(Dup2(f,0)==0); ASSERT(Close(f)==0); }                 *)
MoveTo0(f) == << If(f, "0", 3), Must("Dup2", <<f, "0">>, "0"), Must("Close", <<f>>, "0") >>

test_dup2_error_on_nonfile ==
    Main([i \in 1 .. 5 |-> Must("Dup2", <<Fid[i], Fid[6 - i]>>, "-1")])

test_dup2_error_on_invalid_fid ==
    Main(<< Must("Dup2", <<"-1", "3">>, "-1"), Must("Dup2", <<"MAX_FILEID", "3">>, "-1"),
            MustLet("fid", "OpenNull", << >>, "valid"),
            Must("Dup2", <<"fid", "-1">>, "-1"), Must("Dup2", <<"fid", "MAX_FILEID">>, "-1") >>)

test_open_terminals == Main(OpenBoth)

test_close_error_on_invalid_fid ==
    Main(<< Must("Close", <<"-1">>, "-1"), Must("Close", <<"MAX_FILEID">>, "-1") >>)

test_close_success_on_valid_nonfile_fid ==
    Main([i \in 1 .. 5 |-> Must("Close", <<Fid[i]>>, "0")])

test_close_terminals ==
    Main(OpenBoth \o << Must("Close", <<"term0">>, "0"), Must("Close", <<"term1">>, "0") >>)

test_read_kbd == Main(OpenFirst \o << Do("sendme", <<"0", "Hello">>), checked_read("fterm", "Hello") >>)

(* Each Read gets as much as has arrived.                                  *)
test_read_kbd_big ==
    Main(OpenFirst \o Repeated(Times, <<Do("sendme", <<"0", "bytes">>)>>)
         \o Repeated(Times, <<Must("Read", <<"fterm">>, "bytes")>>))

test_dup2_copies_file ==
    Main(OpenFirst \o MoveTo0("fterm")
         \o << Do("sendme", <<"0", "zava">>), Do("sendme", <<"0", "raka">>),
               Do("sendme", <<"0", "trane">>), Do("sendme", <<"0", "mia">>) >>
         \o [i \in 1 .. 4 |-> Must("Dup2", <<"0", Fid[i + 1]>>, "0")]
         \o << checked_read("1", "zava"), checked_read("3", "raka"),
               checked_read("2", "trane"), checked_read("4", "mia") >>)

test_read_error_on_bad_fid == Main(<<Must("Read", <<"0">>, "-1")>>)

test_read_from_many_terminals ==
    Main(OpenBoth \o << Do("sendme", <<"0", "Hello">>), Do("sendme", <<"1", "world">>),
                        checked_read("term0", "Hello"), checked_read("term1", "world") >>)

test_child_inherits_files ==
    [main |-> Process(
       OpenFirst \o
       << If("fterm", "0", 2), Must("Dup2", <<"fterm", "0">>, "0"),
          Do("sendme", <<"0", "Hello">>),
          MustLet("cpid", "Exec", <<"greeted_child">>, "valid"),
          Must("Close", <<"0">>, "0"), Must("Close", <<"fterm">>, "0"),
          Do("sendme", <<"0", "world">>),
          Must("WaitChild", <<"-1", "none">>, "cpid") >>, "0"),
     greeted_child |-> Process(<<checked_read("0", "Hello"), checked_read("0", "world")>>, "0")]

test_null_device ==
    Main(<< MustLet("fn", "OpenNull", << >>, "valid"), Must("Read", <<"fn">>, "NULs"),
            Must("Write", <<"fn", "bytes">>, "valid"), Must("Close", <<"fn">>, "0") >>)

test_write_con == Main(OpenFirst \o << Do("expect", <<"0", "Hello">>), checked_write("fterm", "Hello") >>)

test_write_con_big ==
    Main(OpenFirst \o Repeated(Times, <<Do("expect", <<"0", "bytes">>)>>)
         \o Repeated(Times, <<Must("Write", <<"fterm", "bytes">>, "valid")>>))

test_write_error_on_bad_fid == Main(<<Must("Write", <<"0", "bytes">>, "-1")>>)

test_write_to_many_terminals ==
    Main(OpenBoth \o << Do("expect", <<"0", "Hello">>), Do("expect", <<"1", "world">>),
                        checked_write("term0", "Hello"), checked_write("term1", "world") >>)

test_input_concurrency ==
    LET open_at_0(term) ==
          << MustLet("f", "OpenTerminal", <<term>>, "valid") >> \o MoveTo0("f")
    IN  [main |-> Process(
           open_at_0("0") \o << Let("p0", "Exec", <<"input_line">>) >> \o
           open_at_0("1") \o << Let("p1", "Exec", <<"input_line">>) >> \o
           << Do("sendme", <<"1", "world">>), Must("WaitChild", <<"p1", "none">>, "p1"),
              Do("sendme", <<"0", "Hello">>), Must("WaitChild", <<"p0", "none">>, "p0") >>, "0"),
         input_line |-> Process(<<Must("Read", <<"0">>, "valid")>>, "0")]

(* The readers wait while a child computes; the times are not modelled.    *)
test_term_input_driver_interrupt ==
    [main |-> Process(
       << MustLet("fid", "OpenTerminal", <<"0">>, "valid") >> \o MoveTo0("fid")
       \o Repeated(Times, <<Must("Exec", <<"input_char">>, "valid")>>)
       \o << MustLet("p0", "Exec", <<"compute_child">>, "valid"),
             Must("WaitChild", <<"p0", "none">>, "p0"),
             Do("sendme", <<"0", "Hello">>), Do("sendme", <<"0", "world">>) >>
       \o Repeated(Times, <<Must("WaitChild", <<"-1", "none">>, "valid")>>), "0"),
     input_char |-> Process(<<Must("Read", <<"0">>, "valid")>>, "0"),
     compute_child |-> Process(<< >>, "0")]

-----------------------------------------------------------------------------
(* Threads.                                                                *)

test_exit_many_threads ==
    [main |-> Process(<< Do("Exec", <<"mthread">>),
                         Must("WaitChild", <<"-1", "none">>, "valid") >>, "0"),
     mthread |-> Process(Repeated(Times, <<Must("CreateThread", <<"task">>, "valid")>>), "0"),
     task |-> Thread(<< >>, "2")]

test_create_join_thread ==
    [main |-> Process(<< MustLet("t", "CreateThread", <<"task">>, "valid"),
                         Must("ThreadJoin", <<"t">>, "0"), Check("flag", "1") >>, "0"),
     task |-> Thread(<<Set("flag", "1")>>, "2")]

=============================================================================
