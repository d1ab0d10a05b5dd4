----------------------------- MODULE ProgramText -----------------------------
(***************************************************************************)
(* How the user programs of the repository are written down.  The text of  *)
(* a task is a sequence of calls; module Programs executes it.  An operand *)
(* is the name of a variable or of a literal (see Literal), "self" is the  *)
(* pid of the process and "next" is that pid plus one.                     *)
(***************************************************************************)
EXTENDS Integers, Sequences, SequencesExt

Do(call, args) == [call |-> call, args |-> args, want |-> "any", var |-> "none", to |-> 0]

(* ASSERT(call(args) == want); "valid" is any result but -1.               *)
Must(call, args, want) == [Do(call, args) EXCEPT !.want = want]

(* var = call(args).                                                       *)
Let(var, call, args) == [Do(call, args) EXCEPT !.var = var]

MustLet(var, call, args, want) == [Must(call, args, want) EXCEPT !.var = var]

Check(x, y) == Must("Value", <<x>>, y)

Set(var, x) == Let(var, "Value", <<x>>)

(* if(x == y) goto the instruction that is n further.                      *)
If(x, y, n) == [Do("If", <<x, y>>) EXCEPT !.to = n]

Goto(n) == If("0", "0", n)

Repeated(n, code) == FlattenSeq([i \in 1 .. n |-> code])

(* WaitChild(pid, NULL), and WaitChild(NOPROC, NULL).                      *)
Wait(pid) == Do("WaitChild", <<pid, "none">>)

WaitAny == Wait("-1")

(* while(WaitChild(NOPROC, NULL) != NOPROC);                               *)
WaitForAll == <<Let("last", "WaitChild", <<"-1", "none">>), If("last", "-1", 2), Goto(-2)>>

(* A task that is the main function of a process, or that of a thread.     *)
Process(code, ret) == [code |-> code, ret |-> ret, thread |-> FALSE]
Thread(code, ret)  == [code |-> code, ret |-> ret, thread |-> TRUE]

=============================================================================
