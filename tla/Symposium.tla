----------------------------- MODULE Symposium -----------------------------
(***************************************************************************)
(* The dining philosophers of symposium.c: a user program on the mutexes   *)
(* and condition variables of the kernel.                                  *)
(*                                                                         *)
(* The table is a monitor: state and the condition variables are touched   *)
(* with S->mx held only, so what a philosopher does between two points     *)
(* where it gives mx up is one action.  The host process launches the      *)
(* philosophers as threads or as processes, collects them and frees the    *)
(* table.  Threads are joined in order and processes waited for in any;    *)
(* the model collects them in any order.                                   *)
(***************************************************************************)
EXTENDS Integers, FiniteSets

CONSTANTS
    N,        \* number of philosophers
    bites     \* how many times each of them eats

ASSUME SymposiumAssumption ==
    /\ N \in Nat \ {0}
    /\ bites \in Nat

Philosophers == 0 .. N - 1

(* SymposiumTable.state, of type PHIL.                                     *)
PHIL == {"NOTHERE", "THINKING", "HUNGRY", "EATING"}

(* Places of a philosopher:                                                *)
(*   none      not launched                                                *)
(*   arrive    before its first lock                                       *)
(*   think     in think, or at the head of the loop                        *)
(*   wait      asleep in Cond_Wait                                         *)
(*   woken     signalled, and on the way back to mx                        *)
(*   eat       in eat                                                      *)
(*   left      has returned from SymposiumTable_philosopher                *)
(*   collected  joined or waited for by the host                           *)
Places == {"none", "arrive", "think", "wait", "woken", "eat", "left", "collected"}

VARIABLES
    state,
    pc,
    j,          \* the counter of the loop of each philosopher
    destroyed   \* the host has freed the table

vars == <<state, pc, j, destroyed>>

LEFT(i)  == (i + 1) % N
RIGHT(i) == (i + N - 1) % N

(* SymposiumTable_init.                                                    *)
Init ==
    /\ state = [i \in Philosophers |-> "NOTHERE"]
    /\ pc = [i \in Philosophers |-> "none"]
    /\ j = [i \in Philosophers |-> 0]
    /\ destroyed = FALSE

-----------------------------------------------------------------------------
(* trytoeat, on the states st: the test and the result.                    *)
CanEat_left_only(st, i) ==   \* a slip
    st[i] = "HUNGRY" /\ st[LEFT(i)] # "EATING"

CanEat(st, i) ==
    st[i] = "HUNGRY" /\ st[LEFT(i)] # "EATING" /\ st[RIGHT(i)] # "EATING"

trytoeat(st, i) == [st EXCEPT ![i] = IF CanEat(st, i) THEN "EATING" ELSE @]

(* The places after Cond_Signal to each philosopher that eats in st.  The  *)
(* signal is lost on one that does not wait.                               *)
Signalled_nobody(st) == pc   \* a slip

Signalled(st) ==
    [i \in Philosophers |-> IF pc[i] = "wait" /\ st[i] = "EATING" THEN "woken" ELSE pc[i]]

More(i) == j[i] < bites

-----------------------------------------------------------------------------
(* The philosopher.                                                        *)

Arrive(i) ==
    /\ pc[i] = "arrive"
    /\ state' = [state EXCEPT ![i] = "THINKING"]
    /\ pc' = [pc EXCEPT ![i] = "think"]
    /\ UNCHANGED <<j, destroyed>>

BecomeHungry(i) ==
    /\ pc[i] = "think"
    /\ More(i)
    /\ state' = trytoeat([state EXCEPT ![i] = "HUNGRY"], i)
    /\ pc' = [pc EXCEPT ![i] = IF state'[i] = "HUNGRY" THEN "wait" ELSE "eat"]
    /\ UNCHANGED <<j, destroyed>>

(* Cond_Wait returns with mx held, to the loop that tests state[i].        *)
WakeUp(i) ==
    /\ pc[i] = "woken"
    /\ pc' = [pc EXCEPT ![i] = IF state[i] = "HUNGRY" THEN "wait" ELSE "eat"]
    /\ UNCHANGED <<state, j, destroyed>>

AfterMeal_left_only(i) ==   \* a slip
    trytoeat([state EXCEPT ![i] = "THINKING"], LEFT(i))

AfterMeal(i) ==
    trytoeat(trytoeat([state EXCEPT ![i] = "THINKING"], LEFT(i)), RIGHT(i))

FinishEating(i) ==
    /\ pc[i] = "eat"
    /\ state' = AfterMeal(i)
    /\ pc' = [Signalled(state') EXCEPT ![i] = "think"]
    /\ j' = [j EXCEPT ![i] = @ + 1]
    /\ UNCHANGED destroyed

Leave(i) ==
    /\ pc[i] = "think"
    /\ ~ More(i)
    /\ state' = [state EXCEPT ![i] = "NOTHERE"]
    /\ pc' = [pc EXCEPT ![i] = "left"]
    /\ UNCHANGED <<j, destroyed>>

SymposiumTable_philosopher(i) ==
    \/ Arrive(i)
    \/ BecomeHungry(i)
    \/ WakeUp(i)
    \/ FinishEating(i)
    \/ Leave(i)

-----------------------------------------------------------------------------
(* The host: SymposiumOfThreads and SymposiumOfProcesses.                  *)

Launch(i) ==
    /\ pc[i] = "none"
    /\ \A k \in 0 .. i - 1 : pc[k] # "none"
    /\ pc' = [pc EXCEPT ![i] = "arrive"]
    /\ UNCHANGED <<state, j, destroyed>>

Launched == \A i \in Philosophers : pc[i] # "none"

Collect(i) ==
    /\ Launched
    /\ pc[i] = "left"
    /\ pc' = [pc EXCEPT ![i] = "collected"]
    /\ UNCHANGED <<state, j, destroyed>>

Done_but_one ==   \* a slip
    Cardinality({i \in Philosophers : pc[i] = "collected"}) >= N - 1

Done == \A i \in Philosophers : pc[i] = "collected"

SymposiumTable_destroy ==
    /\ ~ destroyed
    /\ Done
    /\ destroyed' = TRUE
    /\ UNCHANGED <<state, pc, j>>

Host == (\E i \in Philosophers : Launch(i) \/ Collect(i)) \/ SymposiumTable_destroy

Next ==
    \/ \E i \in Philosophers : SymposiumTable_philosopher(i)
    \/ Host

Spec == Init /\ [][Next]_vars

(* Every philosopher that can go on goes on, as the kernel schedules its   *)
(* thread and think and eat come to an end; so does the host.              *)
Fairness ==
    /\ \A i \in Philosophers : WF_vars(SymposiumTable_philosopher(i))
    /\ WF_vars(Host)

FairSpec == Spec /\ Fairness

-----------------------------------------------------------------------------
(* Properties.                                                             *)

(* The types of the variables; no philosopher takes more bites than it     *)
(* should.                                                                 *)
TypeOK ==
    /\ state \in [Philosophers -> PHIL]
    /\ pc \in [Philosophers -> Places]
    /\ j \in [Philosophers -> 0 .. bites]
    /\ destroyed \in BOOLEAN

(* There is one fork between two philosophers: neighbours never eat at     *)
(* the same time, though each may be put to EATING by the other (trytoeat).*)
ForksAreExclusive ==
    \A i \in Philosophers :
      state[i] = "EATING" /\ LEFT(i) # i => state[LEFT(i)] # "EATING"

(* No missed signal: a philosopher who sleeps in Cond_Wait is hungry, and  *)
(* has a neighbour who eats and will call trytoeat for it.                 *)
SleepersHaveReason ==
    \A i \in Philosophers :
      pc[i] = "wait" =>
        /\ state[i] = "HUNGRY"
        /\ state[LEFT(i)] = "EATING" \/ state[RIGHT(i)] = "EATING"

(* The host frees the table when nobody can touch it any more.             *)
TableOutlivesPhilosophers ==
    destroyed => \A i \in Philosophers : pc[i] \in {"left", "collected"} /\ state[i] = "NOTHERE"

(* Every symposium ends: nobody starves at the table, and the host frees   *)
(* it.                                                                     *)
SymposiumEnds == <>destroyed

=============================================================================
