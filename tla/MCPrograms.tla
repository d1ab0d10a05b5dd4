------------------------------ MODULE MCPrograms ------------------------------
(* An instance of Programs for TLC: the tests, and shells with a user who  *)
(* gives a command or two.  test_create_join_thread is left out, because   *)
(* its ASSERT fails when the thread exits before it is joined (what        *)
(* JoinFindsThread of Processes says).                                     *)
EXTENDS Programs

Silent == [d \in Devices |-> << >>]

Quiet == DOMAIN Tests \ {"test_create_join_thread", "boot_shell", "boot_shell_console"}

OnTerminals == {<<"fibo">>, <<"runterm">>, <<"unknown">>}

OnConsole ==
    {<<c>> : c \in {"fibo", "hanoi", "echo", "help", "ls", "sysinfo", "rcli", "repeat",
                    "symposium", "symp_thr", "sh"}}
    \cup {<<c, "bytes">> : c \in {"cap", "lcase", "lenum", "wc", "more"}}
    \cup {<<"rserver", "bytes", "q">>, <<"unknown", "fibo", "exit">>,
          <<"fibo|wc">>}

AllBoots ==
    {<<b, Silent>> : b \in Quiet}
    \cup {<<"boot_shell", [Silent EXCEPT ![0] = Append(c, "exit"), ![1] = <<"exit">>]>> : c \in OnTerminals}
    \cup {<<"boot_shell_console", [Silent EXCEPT ![Console] = c]>> : c \in OnConsole}

=============================================================================
