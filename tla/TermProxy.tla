------------------------------ MODULE TermProxy ------------------------------
(***************************************************************************)
(* The terminal proxy of unit_testing.c.  While a test runs in the virtual *)
(* machine two daemon threads use the fifos of its terminal: con reads     *)
(* what the machine writes and compares it with the patterns that the test *)
(* expects, kbd types the patterns that the test sends.  A test ends by    *)
(* marking each daemon complete and joining it.                            *)
(*                                                                         *)
(* A pattern is a sequence of bytes.  The monitor of a daemon (its mutex   *)
(* and its condition variable) makes its operations atomic.                *)
(***************************************************************************)
EXTENDS Naturals, Sequences, SequencesExt

CONSTANTS
    Capacity,       \* bound on the bytes in a fifo
    PIPE_BUF        \* a write of no more than that is not split

Daemons == {"con", "kbd"}

VARIABLES
    pattern,        \* the patterns that each daemon has still to process
    complete,       \* the machine does not access the terminal any more
    dpc,            \* where each daemon is
    rest,           \* what it has not matched, or not typed, of its pattern
    have_data,      \* what the last poll of con_proc has seen
    oldcomplete,    \* of kbd_proc
    fifo,           \* the bytes in each fifo
    FLAG_FAILURE,   \* an ASSERT has failed
    wanted,         \* all that the test expects, and all that it sends
    passed          \* all that the machine wrote, and all that was typed

proxyVars == <<pattern, complete, dpc, rest, have_data, oldcomplete, fifo, FLAG_FAILURE, wanted, passed>>

ForBoth(x) == [d \in Daemons |-> x]

Idle ==
    /\ pattern = ForBoth(<< >>) /\ complete = ForBoth(FALSE)
    /\ dpc = ForBoth("none") /\ rest = ForBoth(<< >>)
    /\ have_data = FALSE /\ oldcomplete = FALSE
    /\ fifo = ForBoth(<< >>) /\ FLAG_FAILURE = FALSE
    /\ wanted = ForBoth(<< >>) /\ passed = ForBoth(<< >>)

-----------------------------------------------------------------------------
(* Operations of the test.  open_fifo drains what was left in a fifo; a    *)
(* test without terminals has no daemons.                                  *)

term_proxy_init(proxies) ==
    /\ pattern' = ForBoth(<< >>) /\ complete' = ForBoth(~ proxies)
    /\ dpc' = ForBoth(IF proxies THEN "get" ELSE "ended") /\ rest' = ForBoth(<< >>)
    /\ have_data' = FALSE /\ oldcomplete' = FALSE
    /\ fifo' = ForBoth(<< >>) /\ FLAG_FAILURE' = FALSE
    /\ wanted' = ForBoth(<< >>) /\ passed' = ForBoth(<< >>)

term_proxy_daemon_add(d, p) ==
    /\ pattern' = [pattern EXCEPT ![d] = Append(@, p)]
    /\ wanted' = [wanted EXCEPT ![d] = @ \o p]
    /\ UNCHANGED <<complete, dpc, rest, have_data, oldcomplete, fifo, FLAG_FAILURE, passed>>

(* The machine writes a byte, or reads one that must be c.                 *)
ConsoleOut(c) ==
    /\ Len(fifo["con"]) < Capacity
    /\ fifo' = [fifo EXCEPT !["con"] = Append(@, c)]
    /\ passed' = [passed EXCEPT !["con"] = Append(@, c)]
    /\ UNCHANGED <<pattern, complete, dpc, rest, have_data, oldcomplete, FLAG_FAILURE, wanted>>

KeyboardIn(c) ==
    /\ fifo["kbd"] # << >>
    /\ fifo' = [fifo EXCEPT !["kbd"] = Tail(@)]
    /\ FLAG_FAILURE' = (FLAG_FAILURE \/ Head(fifo["kbd"]) # c)
    /\ UNCHANGED <<pattern, complete, dpc, rest, have_data, oldcomplete, wanted, passed>>

MarkComplete(d) ==
    /\ complete' = [complete EXCEPT ![d] = TRUE]
    /\ UNCHANGED <<pattern, dpc, rest, have_data, oldcomplete, fifo, FLAG_FAILURE, wanted, passed>>

-----------------------------------------------------------------------------
(* The daemons.                                                            *)

GoTo(d, place) == dpc' = [dpc EXCEPT ![d] = place]

(* Slip: a daemon that is complete does not look at its patterns.          *)
GetsPattern_complete(d) == ~ complete[d] /\ pattern[d] # << >>

GetsPattern(d) == pattern[d] # << >>

(* Wait for a pattern or for completion; without a pattern the daemon ends.*)
(* The processors do nothing for an empty pattern.                         *)
term_proxy_daemon_get(d) ==
    /\ dpc[d] = "get"
    /\ complete[d] \/ pattern[d] # << >>
    /\ IF GetsPattern(d)
       THEN /\ rest' = [rest EXCEPT ![d] = Head(pattern[d])]
            /\ pattern' = [pattern EXCEPT ![d] = Tail(@)]
            /\ GoTo(d, IF Head(pattern[d]) = << >> THEN "get" ELSE "poll")
       ELSE GoTo(d, "ended") /\ UNCHANGED <<rest, pattern>>
    /\ UNCHANGED <<complete, have_data, oldcomplete, fifo, FLAG_FAILURE, wanted, passed>>

(* The end of a processor: the pattern must have been used up.             *)
ProcEnds(d, left) ==
    /\ FLAG_FAILURE' = (FLAG_FAILURE \/ left # << >>)
    /\ GoTo(d, "get")

con_proc_poll ==
    /\ dpc["con"] = "poll"
    /\ have_data' = (fifo["con"] # << >>)
    /\ GoTo("con", "polled")
    /\ UNCHANGED <<pattern, complete, rest, oldcomplete, fifo, FLAG_FAILURE, wanted, passed>>

(* Completion is tested after the poll, so it may overtake the data.       *)
con_proc_polled ==
    /\ dpc["con"] = "polled"
    /\ IF have_data THEN GoTo("con", "read") /\ UNCHANGED FLAG_FAILURE
       ELSE IF complete["con"] THEN ProcEnds("con", rest["con"])
       ELSE GoTo("con", "poll") /\ UNCHANGED FLAG_FAILURE
    /\ UNCHANGED <<pattern, complete, rest, have_data, oldcomplete, fifo, wanted, passed>>

(* At most the rest of the pattern is read; a mismatch ends the pattern.   *)
con_proc_read ==
    LET pat == rest["con"]
        rc  == IF Len(fifo["con"]) < Len(pat) THEN Len(fifo["con"]) ELSE Len(pat)
        matched == SubSeq(fifo["con"], 1, rc) = SubSeq(pat, 1, rc)
        left == IF matched THEN SubSeq(pat, rc + 1, Len(pat)) ELSE pat
    IN  /\ dpc["con"] = "read"
        /\ fifo' = [fifo EXCEPT !["con"] = SubSeq(@, rc + 1, Len(@))]
        /\ rest' = [rest EXCEPT !["con"] = left]
        /\ IF matched /\ left # << >>
           THEN GoTo("con", "poll") /\ UNCHANGED FLAG_FAILURE
           ELSE ProcEnds("con", left)
        /\ UNCHANGED <<pattern, complete, have_data, oldcomplete, wanted, passed>>

Room == Capacity - Len(fifo["kbd"])

(* Until it is complete the daemon polls for room in the fifo.             *)
kbd_proc_poll ==
    /\ dpc["kbd"] = "poll"
    /\ complete["kbd"] \/ Room > 0
    /\ GoTo("kbd", "save")
    /\ UNCHANGED <<pattern, complete, rest, have_data, oldcomplete, fifo, FLAG_FAILURE, wanted, passed>>

kbd_proc_save ==
    /\ dpc["kbd"] = "save"
    /\ oldcomplete' = complete["kbd"]
    /\ GoTo("kbd", "write")
    /\ UNCHANGED <<pattern, complete, rest, have_data, fifo, FLAG_FAILURE, wanted, passed>>

(* How many of so many bytes a write takes.                                *)
Taken(len) == IF len <= Room THEN len ELSE IF len <= PIPE_BUF THEN 0 ELSE Room

(* A write that takes nothing (EAGAIN) is the end after completion, and a  *)
(* reason to poll before it.                                               *)
kbd_proc_write ==
    LET pat == rest["kbd"]
        rc  == Taken(Len(pat))
    IN  /\ dpc["kbd"] = "write"
        /\ fifo' = [fifo EXCEPT !["kbd"] = @ \o SubSeq(pat, 1, rc)]
        /\ passed' = [passed EXCEPT !["kbd"] = @ \o SubSeq(pat, 1, rc)]
        /\ rest' = [rest EXCEPT !["kbd"] = SubSeq(pat, rc + 1, Len(pat))]
        /\ IF rc = Len(pat) \/ (rc = 0 /\ oldcomplete) THEN ProcEnds("kbd", rest'["kbd"])
           ELSE GoTo("kbd", IF rc = 0 THEN "poll" ELSE "write") /\ UNCHANGED FLAG_FAILURE
        /\ UNCHANGED <<pattern, complete, have_data, oldcomplete, wanted>>

term_proxy_daemon(d) ==
    \/ term_proxy_daemon_get(d)
    \/ d = "con" /\ (con_proc_poll \/ con_proc_polled \/ con_proc_read)
    \/ d = "kbd" /\ (kbd_proc_poll \/ kbd_proc_save \/ kbd_proc_write)

=============================================================================
