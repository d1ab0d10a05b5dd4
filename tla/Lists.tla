-------------------------------- MODULE Lists --------------------------------
(***************************************************************************)
(* What the intrusive lists of util.h promise to the kernel: a list is a   *)
(* sequence of nodes, a node is in at most one list, and an operation on a *)
(* list leaves all the others alone.  Module Rings implements it.          *)
(***************************************************************************)
EXTENDS Naturals, Sequences, SequencesExt

CONSTANTS
    Heads,      \* the sentinel nodes, one per list
    Items       \* the other nodes

VARIABLES
    lists,      \* the sequence of items of each list
    call        \* the last call, with its arguments

vars == <<lists, call>>

Members(l)  == {lists[l][i] : i \in DOMAIN lists[l]}
Place(l, n) == CHOOSE i \in DOMAIN lists[l] : lists[l][i] = n
Loose(n)    == \A l \in Heads : n \notin Members(l)

Init == lists = [l \in Heads |-> << >>] /\ call = << >>

Becomes(l, seq) == lists' = [lists EXCEPT ![l] = seq]

PushFront(l, n) == Loose(n) /\ Becomes(l, <<n>> \o lists[l])

PushBack(l, n) == Loose(n) /\ Becomes(l, Append(lists[l], n))

InsertBefore(m, n) ==
    /\ Loose(n)
    /\ lists' = [l \in Heads |->
                   IF m \in Members(l) THEN InsertAt(lists[l], Place(l, m), n) ELSE lists[l]]

PopFront(l) == lists[l] # << >> /\ Becomes(l, Tail(lists[l]))

Delete(n) ==
    lists' = [l \in Heads |->
                IF n \in Members(l) THEN RemoveAt(lists[l], Place(l, n)) ELSE lists[l]]

AppendAll(dest, src) ==
    lists' = [lists EXCEPT ![dest] = @ \o lists[src], ![src] = << >>]

PrependAll(dest, src) ==
    lists' = [lists EXCEPT ![dest] = lists[src] \o @, ![src] = << >>]

Turn(l) == Becomes(l, Reverse(lists[l]))

(* The items of a list that are in a set, in their order.                  *)
Those(seq, set) ==
    LET those[i \in 0 .. Len(seq)] ==
          IF i = 0 THEN << >> ELSE those[i - 1] \o IF seq[i] \in set THEN <<seq[i]>> ELSE << >>
    IN  those[Len(seq)]

(* The items of the set chosen move, in their order, to the end of dest.   *)
Move(src, dest, chosen) ==
    lists' = [lists EXCEPT
                ![dest] = @ \o Those(lists[src], chosen),
                ![src]  = Those(@, Items \ chosen)]

(* An item that is in no list gets another key.                            *)
Renew(n) == Loose(n) /\ UNCHANGED lists

Next ==
    \/ \E l \in Heads :
         \/ call' = <<"pop_front", l>> /\ PopFront(l)
         \/ call' = <<"reverse", l>> /\ Turn(l)
         \/ \E n \in Items :
              \/ call' = <<"push_front", l, n>> /\ PushFront(l, n)
              \/ call' = <<"push_back", l, n>> /\ PushBack(l, n)
         \/ \E src \in Heads \ {l} :
              \/ call' = <<"append", l, src>> /\ AppendAll(l, src)
              \/ call' = <<"prepend", l, src>> /\ PrependAll(l, src)
              \/ \E chosen \in SUBSET Items :
                   call' = <<"select", src, l, chosen>> /\ Move(src, l, chosen)
    \/ \E n \in Items :
         \/ call' = <<"remove", n>> /\ Delete(n)
         \/ call' = <<"init", n>> /\ Renew(n)
         \/ \E m \in Items \ {n} : call' = <<"splice", m, n>> /\ InsertBefore(m, n)

Spec == Init /\ [][Next]_vars

=============================================================================
