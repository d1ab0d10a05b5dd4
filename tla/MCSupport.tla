------------------------------ MODULE MCSupport ------------------------------
(* An instance of Support for TLC.                                         *)
EXTENDS Support

(* Boot tests that expect and send, that write what is not expected, and   *)
(* that do not read what they were sent, on machines with and without a    *)
(* terminal.  Patterns are empty, written as a whole, or split.            *)
Expects(p) == <<"expect", p>>
Sends(p)   == <<"sendme", p>>
Writes(c)  == <<"write", c>>
Reads(c)   == <<"read", c>>

MCTermArgs == {<<0>>, <<1>>, <<0, 1>>, <<1, 0>>}

MCScripts ==
    {<<Expects(<<"a", "b">>), Writes("a"), Expects(<<"c">>), Writes("b"), Writes("c")>>,
     <<Writes("a"), Expects(<<"b">>), Expects(<<"a">>)>>,
     <<Sends(<<"c">>), Sends(<<"a", "b">>), Reads("c"), Reads("a"), Reads("b")>>,
     <<Sends(<<"a", "b", "c">>), Expects(<<"a">>), Expects(<< >>), Writes("a")>>}

=============================================================================
