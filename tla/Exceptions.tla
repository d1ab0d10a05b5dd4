------------------------------ MODULE Exceptions ------------------------------
(***************************************************************************)
(* The exceptions of util.h and util.c: TRY_WITH, ON_ERROR, FINALLY and    *)
(* raise_exception, on setjmp and longjmp.  One thread uses one context.   *)
(*                                                                         *)
(* The context is the stack of exception frames, the top one first; the    *)
(* handlers of a frame are its catchers and finalizers, the last one       *)
(* declared first.                                                         *)
(* The call stack says what the thread is executing, the innermost first:  *)
(* the body of a TRY block, exception_unwind for a frame, or a handler.    *)
(* User code (outside of TRY, in a body or in a handler) may open a TRY    *)
(* block or raise; it leaves a block only at its end.                      *)
(***************************************************************************)
EXTENDS Naturals, Sequences, SequencesExt

CONSTANTS
    MaxTries,       \* bound on the TRY blocks that are entered
    MaxHandlers     \* bound on the handlers that are declared

VARIABLES
    context,        \* the exception stack
    stack,          \* the call stack
    tries,          \* the number of TRY blocks entered
    made,           \* the handlers declared, in order
    ran             \* the handlers that were called, in order

vars == <<context, stack, tries, made, ran>>

Init ==
    /\ context = << >> /\ stack = << >> /\ tries = 0
    /\ made = << >> /\ ran = << >>

Doing    == IF stack = << >> THEN "user" ELSE Head(stack).kind
Running  == Doing # "unwind"
InBody   == Doing = "body"
Unwinds  == Doing = "unwind"

(* The activation of the body of frame f is the target of its jmp_buf.     *)
BodyOf(f) == CHOOSE i \in DOMAIN stack : stack[i].kind = "body" /\ stack[i].frame = f

Outside(f) == SubSeq(stack, BodyOf(f) + 1, Len(stack))

(* An activation of the code of a frame.  Only exception_unwind has an     *)
(* error code, and knows whether a catcher captured it.                    *)
Activation(what, f, err, capt) == [kind |-> what, frame |-> f, errcode |-> err, captured |-> capt]

Body(f)        == Activation("body", f, 0, FALSE)
Unwind(f, err) == Activation("unwind", f, err, FALSE)
Handler(f)     == Activation("handler", f, 0, FALSE)

HandlerLists == {"catchers", "finalizers"}

NewFrame(f) == [id |-> f, handlers |-> [l \in HandlerLists |-> << >>]]

(* The context when a list of handlers of its i-th frame becomes hs.       *)
WithHandlers(i, list, hs) ==
    [context EXCEPT ![i] = [id |-> context[i].id,
                            handlers |-> [context[i].handlers EXCEPT ![list] = hs]]]

-----------------------------------------------------------------------------
TRY_WITH ==
    /\ Running
    /\ tries < MaxTries
    /\ tries' = tries + 1
    /\ context' = <<NewFrame(tries + 1)>> \o context
    /\ stack' = <<Body(tries + 1)>> \o stack
    /\ UNCHANGED <<made, ran>>

(* The frame of the block that is executing gets a handler.                *)
Declare(list) ==
    LET f == Head(stack).frame
        h == [of |-> f, list |-> list, no |-> Len(made) + 1]
        i == CHOOSE j \in DOMAIN context : context[j].id = f
    IN  /\ InBody
        /\ Len(made) < MaxHandlers
        /\ made' = Append(made, h)
        /\ context' = WithHandlers(i, list, <<h>> \o context[i].handlers[list])
        /\ UNCHANGED <<stack, tries, ran>>

ON_ERROR == Declare("catchers")

FINALLY == Declare("finalizers")

(* The end of a block: its catchers are dropped, and it is unwound.        *)
__exc_exit_try ==
    /\ InBody
    /\ context' = WithHandlers(1, "catchers", << >>)
    /\ stack' = <<Unwind(context[1].id, 0)>> \o stack
    /\ UNCHANGED <<tries, made, ran>>

(* longjmp to the top frame of a context: __exc_try unwinds the frame, in  *)
(* the place of its block and of everything that the block had called.     *)
Jump(ctx) == stack' = <<Unwind(ctx[1].id, 1)>> \o SubSeq(stack, BodyOf(ctx[1].id), Len(stack))

(* With an empty context raise_exception returns.                          *)
raise_exception ==
    /\ Running
    /\ context # << >>
    /\ Jump(context)
    /\ UNCHANGED <<context, tries, made, ran>>

-----------------------------------------------------------------------------
(* exception_unwind.                                                       *)

TopHandlers(list) == context[1].handlers[list]

(* The first handler of a list is called; a catcher captures the error.    *)
CallsFirst(list) ==
    LET act == Head(stack) IN
    /\ ran' = Append(ran, Head(TopHandlers(list)))
    /\ stack' = <<Handler(context[1].id),
                  Activation("unwind", act.frame, act.errcode, act.captured \/ list = "catchers")>>
                \o Tail(stack)

(* Slip: the handler stays in the list while it runs.                      *)
CallHandler_unpopped(list) ==
    /\ UNCHANGED context
    /\ CallsFirst(list)

(* The first handler of a list is popped, "in case it throws", and called. *)
CallHandler(list) ==
    /\ context' = WithHandlers(1, list, Tail(TopHandlers(list)))
    /\ CallsFirst(list)

UnwindCatchers ==
    /\ Unwinds
    /\ TopHandlers("catchers") # << >>
    /\ CallHandler("catchers")
    /\ UNCHANGED <<tries, made>>

UnwindFinalizers ==
    /\ Unwinds
    /\ TopHandlers("catchers") = << >>
    /\ TopHandlers("finalizers") # << >>
    /\ CallHandler("finalizers")
    /\ UNCHANGED <<tries, made>>

HandlerReturns ==
    /\ Doing = "handler"
    /\ stack' = Tail(stack)
    /\ UNCHANGED <<context, tries, made, ran>>

PopFrame == Tail(context)

(* The frame is popped; an error that no catcher captured goes on to the   *)
(* next frame, if there is one.                                            *)
UnwindEnds ==
    LET act == Head(stack) IN
    /\ Unwinds
    /\ TopHandlers("catchers") = << >>
    /\ TopHandlers("finalizers") = << >>
    /\ context' = PopFrame
    /\ IF act.errcode = 1 /\ ~ act.captured /\ PopFrame # << >>
       THEN Jump(PopFrame)
       ELSE stack' = Outside(act.frame)
    /\ UNCHANGED <<tries, made, ran>>

Next ==
    \/ TRY_WITH \/ ON_ERROR \/ FINALLY \/ __exc_exit_try \/ raise_exception
    \/ UnwindCatchers \/ UnwindFinalizers \/ HandlerReturns \/ UnwindEnds

Spec == Init /\ [][Next]_vars

-----------------------------------------------------------------------------
(* Properties.                                                             *)

(* The exception stack follows the blocks: its frames are those of the     *)
(* TRY blocks that have been entered and not left, the innermost first,    *)
(* and the frame that is unwound is the top one.  So no raise_exception    *)
(* jumps to a block that is over, whose jmp_buf is dead.  Blocks are       *)
(* numbered in the order in which they are entered.                        *)
Bodies == {i \in DOMAIN stack : stack[i].kind = "body"}

ContextFollowsBlocks ==
    /\ {context[i].id : i \in DOMAIN context} = {stack[i].frame : i \in Bodies}
    /\ \A i, j \in DOMAIN context : i < j => context[i].id > context[j].id
    /\ \A i, j \in Bodies : i < j => stack[i].frame > stack[j].frame
    /\ Unwinds => Head(stack).frame = context[1].id

(* However a TRY block is left, and whatever its handlers raise, each of   *)
(* its finalizers has been called exactly once, the last declared first;   *)
(* a catcher is called at most once, and before all the finalizers.        *)
HandlersRunOnce ==
    /\ \A i, j \in DOMAIN ran :
         i < j /\ ran[i].of = ran[j].of
           => IF ran[i].list = ran[j].list THEN ran[i].no > ran[j].no
              ELSE ran[j].list = "finalizers"
    /\ \A k \in DOMAIN made :
         /\ made[k].list = "finalizers"
         /\ \A i \in DOMAIN context : context[i].id # made[k].of
         => \E i \in DOMAIN ran : ran[i] = made[k]

=============================================================================
