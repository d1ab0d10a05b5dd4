--------------------------- MODULE ShellPrograms ---------------------------
(***************************************************************************)
(* The shell and its commands (tinyos_shell.c), the symposium programs and *)
(* the tasks that boot them (mtask.c), over the terminals or over the      *)
(* pseudo console (console.c).  A line of input is one token, the command, *)
(* or "fibo|wc", which stands for the pipelines.  printf is a Write to     *)
(* stream 1, and what a program prints is one of them; prompts are left    *)
(* out, as are the builtin "?" and empty lines, which act as a command     *)
(* that is not found.                                                      *)
(***************************************************************************)
EXTENDS ProgramText

-----------------------------------------------------------------------------
(* The commands.                                                           *)

Printed == << Do("Write", <<"1", "bytes">>) >>

Fibonacci    == Process(Printed, "0")
Hanoi        == Process(Printed, "0")
Echo         == Process(Printed, "0")
HelpMessage  == Process(Printed, "0")
ListPrograms == Process(Printed, "0")

(* OpenInfo always fails.                                                  *)
SystemInfo == Process(Printed, "0")

(* while((c=fgetc(fin))!=EOF) { body }: the code after the loop follows.   *)
(* fgetc also returns EOF when Read fails.                                 *)
ForEachInput(body) ==
    << Let("c", "Read", <<"0">>), If("c", "EOF", Len(body) + 3), If("c", "-1", Len(body) + 2) >>
      \o body \o << Goto(-Len(body) - 3) >>

Capitalize == Process(ForEachInput(Printed), "0")
LowerCase  == Process(ForEachInput(Printed), "0")
LineEnum   == Process(ForEachInput(Printed), "0")
WordCount  == Process(ForEachInput(<< >>) \o Printed, "0")

(* A page is one line: after each the user must press enter, on stream 1.  *)
More == Process(ForEachInput(<<Do("Write", <<"1", "bytes">>), Do("Read", <<"1">>)>> \o Printed), "0")

(* repeat 2 fibo                                                           *)
Repeat == Process(<< Do("Exec", <<"fibo">>), WaitAny, Do("Exec", <<"fibo">>), WaitAny >>, "0")

(* runterm 1 fibo: our own streams become terminal 1, the child inherits.  *)
RunTerm ==
    Process(<< Let("termfid", "OpenTerminal", <<"1">>),
               If("termfid", "0", 3), Do("Dup2", <<"termfid", "0">>), Do("Close", <<"termfid">>),
               Do("Dup2", <<"0", "1">>),
               Let("pid", "Exec", <<"fibo">>) >>, "pid")

(* Listen always fails, so the listener ends; listener_socket is never     *)
(* written, and what the console closes may be any file id.  There are no  *)
(* connections to wait for.                                                *)
rsrv_listener_thread == Thread(Printed, "-1")

RemoteServer ==
    Process(<< Let("listener", "CreateThread", <<"rsrv_listener_thread">>),
               Let("line", "Read", <<"0">>), If("line", "EOF", 7),
               If("line", "q", 2), Goto(-3),
               Do("CloseAny", << >>), Do("ThreadJoin", <<"listener">>),
               Do("Mutex_Lock", <<"mx">>), Do("Mutex_Unlock", <<"mx">>) >>, "0")

(* Connect always fails.                                                   *)
RemoteClient == Process(Printed, "-1")

(* Two philosophers; their table is module Symposium.                      *)
SymposiumOfProcesses ==
    Process(<< Do("Exec", <<"PhilosopherProcess">>), Do("Exec", <<"PhilosopherProcess">>),
               WaitAny, WaitAny >>, "0")

PhilosopherProcess == Process(Printed, "0")

SymposiumOfThreads ==
    Process(<< Let("t1", "CreateThread", <<"PhilosopherThread">>),
               Let("t2", "CreateThread", <<"PhilosopherThread">>),
               Do("ThreadJoin", <<"t1">>), Do("ThreadJoin", <<"t2">>) >>, "0")

PhilosopherThread == Thread(Printed, "0")

-----------------------------------------------------------------------------
(* The shell.                                                              *)

savefid(save, fsaved) ==
    << MustLet(save, "OpenNull", << >>, "valid"), Do("Dup2", <<fsaved, save>>) >>

(* Slip: the saved input stays open.                                       *)
process_line_leak ==
    savefid("savein", "0") \o savefid("saveout", "1") \o
    << Do("Dup2", <<"saveout", "1">>), Do("Close", <<"saveout">>),
       Let("child", "ExecCommand", <<"line">>),
       Do("Dup2", <<"savein", "0">>),
       Do("WaitChild", <<"child", "status">>) >>

(* A line with one fragment.  A command that is not found changes nothing. *)
process_line ==
    savefid("savein", "0") \o savefid("saveout", "1") \o
    << Do("Dup2", <<"saveout", "1">>), Do("Close", <<"saveout">>),
       Let("child", "ExecCommand", <<"line">>),
       Do("Dup2", <<"savein", "0">>), Do("Close", <<"savein">>),
       Do("WaitChild", <<"child", "status">>) >>

(* A line with two fragments, fibo|wc.  Pipe always fails and its result   *)
(* is not looked at, so pipe.write and pipe.read are uninitialised ids.    *)
process_pipeline ==
    savefid("savein", "0") \o savefid("saveout", "1") \o
    << Let("pipe.write", "Uninitialised", <<"savein", "saveout">>),
       Let("pipe.read", "Uninitialised", <<"savein", "saveout">>),
       Do("Dup2", <<"pipe.write", "1">>), Do("Close", <<"pipe.write">>),
       Let("child", "Exec", <<"fibo">>),
       Do("Dup2", <<"pipe.read", "0">>), Do("Close", <<"pipe.read">>),
       Do("Dup2", <<"saveout", "1">>), Do("Close", <<"saveout">>),
       Let("child2", "Exec", <<"wc">>),
       Do("Dup2", <<"savein", "0">>), Do("Close", <<"savein">>),
       Do("WaitChild", <<"child", "status">>),
       Do("WaitChild", <<"child2", "status">>) >>

(* A Read that fails is not the end of the input: the shell goes on with   *)
(* what cmdline holds, the first word of the last line.  NULs never end a  *)
(* line.                                                                   *)
Shell ==
    LET n == Len(process_line)
        m == Len(process_pipeline)
    IN
    Process(<< Let("got", "Read", <<"0">>),
               If("got", "NULs", -1), If("got", "EOF", n + m + 9), If("got", "-1", 2),
               Set("line", "got"),
               If("line", "exit", n + m + 6), If("line", "unknown", -6),
               If("line", "fibo|wc", n + 2) >>
            \o process_line \o << Goto(-n - 8) >>
            \o process_pipeline \o << Set("line", "fibo"), Goto(-n - m - 10) >>, "0")

Commands ==
    [fibo |-> Fibonacci, hanoi |-> Hanoi, echo |-> Echo, help |-> HelpMessage, ls |-> ListPrograms,
     sysinfo |-> SystemInfo, cap |-> Capitalize, lcase |-> LowerCase, lenum |-> LineEnum,
     wc |-> WordCount, more |-> More, repeat |-> Repeat, runterm |-> RunTerm,
     rserver |-> RemoteServer, rcli |-> RemoteClient, symposium |-> SymposiumOfProcesses,
     symp_thr |-> SymposiumOfThreads, sh |-> Shell,
     rsrv_listener_thread |-> rsrv_listener_thread, PhilosopherProcess |-> PhilosopherProcess,
     PhilosopherThread |-> PhilosopherThread]

-----------------------------------------------------------------------------
(* The tasks that are booted.                                              *)

(* Open a terminal twice, as streams 0 and 1.                              *)
StdStreams(term) ==
    << Let("fdin", "OpenTerminal", <<term>>),
       If("fdin", "0", 3), Do("Dup2", <<"fdin", "0">>), Do("Close", <<"fdin">>),
       Let("fdout", "OpenTerminal", <<term>>),
       If("fdout", "1", 3), Do("Dup2", <<"fdout", "1">>), Do("Close", <<"fdout">>) >>

tinyos_pseudo_console == << Must("OpenConsole", << >>, "0"), Must("OpenConsole", << >>, "1") >>

boot_shell ==
    Process(StdStreams("0") \o << Do("Exec", <<"sh">>), Do("Close", <<"0">>) >> \o
            StdStreams("1") \o << Do("Exec", <<"sh">>), Do("Close", <<"0">>) >> \o WaitForAll, "0")

boot_shell_console ==
    Process(<< Do("Close", <<"0">>), Do("Close", <<"1">>) >> \o tinyos_pseudo_console \o
            << Do("Exec", <<"sh">>) >> \o WaitForAll, "0")

SymposiumTail ==
    << Do("Exec", <<"symposium">>), Do("Close", <<"0">>), Do("Close", <<"1">>) >> \o WaitForAll

boot_symposium == Process(StdStreams("0") \o SymposiumTail, "0")

boot_symposium_console == Process(tinyos_pseudo_console \o SymposiumTail, "0")

=============================================================================
