-------------------------------- MODULE Rings --------------------------------
(***************************************************************************)
(* The resource lists of util.h: doubly linked rings of nodes that are     *)
(* embedded in the objects they link, all built on one operation, the      *)
(* splice.  Every list of the kernel (run queues, timeouts, children,      *)
(* threads, wait sets, free FCBs, halted cores) is one of these rings.     *)
(*                                                                         *)
(* A heap h gives each node its two pointers and its key.  The operators   *)
(* are the functions of util.h; one that changes pointers returns a heap.  *)
(* The actions are the calls that the kernel makes: only a node that is    *)
(* alone is pushed, and a list is not appended to itself.  Nothing but its *)
(* own test calls rlist_pop_back, which is an operator and not an action.  *)
(***************************************************************************)
EXTENDS Naturals, FiniteSets, Sequences, FiniteSetsExt

CONSTANTS
    Heads,      \* the sentinel nodes, one per list
    Items,      \* the other nodes
    Keys        \* what a node may point to

ASSUME NodesAssumption ==
    /\ IsFiniteSet(Heads) /\ IsFiniteSet(Items)
    /\ Heads \cap Items = {}

Nodes == Heads \cup Items

VARIABLES
    heap,       \* the pointers and the key of each node
    call        \* the last call, with its arguments

vars == <<heap, call>>

-----------------------------------------------------------------------------
(* Slip: the prev pointers are forgotten.                                  *)
rl_splice_half(h, a, b) == [h EXCEPT !.next[a] = h.next[b], !.next[b] = h.next[a]]

(* The predecessors of the two successors are swapped, then the successors.*)
rl_splice(h, a, b) ==
    [h EXCEPT !.prev[h.next[a]] = h.prev[h.next[b]],
              !.prev[h.next[b]] = h.prev[h.next[a]],
              !.next[a] = h.next[b],
              !.next[b] = h.next[a]]

rlnode_new(h, p) == [h EXCEPT !.next[p] = p, !.prev[p] = p]

rlnode_init(h, p, k) == [rlnode_new(h, p) EXCEPT !.key[p] = k]

rlist_remove(h, a) == rl_splice(h, a, h.prev[a])

is_rlist_empty(h, a) == a = h.next[a]

rlist_push_front(h, l, n) == rl_splice(h, l, n)

(* Slip: the node is put at the other end.                                 *)
rlist_push_back_front(h, l, n) == rl_splice(h, l, n)

rlist_push_back(h, l, n) == rl_splice(h, h.prev[l], n)

rlist_pop_front(h, l) == rl_splice(h, l, h.next[l])

(* Spliced with the last node, the head is left alone, whatever was        *)
(* between them: not what its comment says, the removal of the tail.       *)
rlist_pop_back(h, l) == rl_splice(h, l, h.prev[l])

rlist_append(h, dest, src) == rlist_remove(rlist_push_back(h, dest, src), src)

rlist_prepend(h, dest, src) == rlist_remove(rlist_push_front(h, dest, src), src)

(* A loop along the next pointers is back at its head after at most as     *)
(* many rounds as there are nodes.                                         *)
Turns == 1 .. Cardinality(Nodes)

(* Where the loop is after each round, from p.                             *)
walk(h, p) ==
    LET at[i \in Turns] == h.next[IF i = 1 THEN p ELSE at[i - 1]]
    IN  at

rlist_len(h, l) ==
    LET at == walk(h, l) IN Min({i \in Turns : at[i] = l}) - 1

rlist_find(h, l, k, fail) ==
    LET at == walk(h, l)
        i  == Min({i \in Turns : at[i] = l \/ h.key[at[i]] = k})
    IN  IF at[i] = l THEN fail ELSE at[i]

rlist_equal(h, a, b) ==
    LET p == walk(h, a)
        q == walk(h, b)
        i == Min({i \in Turns : p[i] = a \/ q[i] = b \/ h.key[p[i]] # h.key[q[i]]})
    IN  p[i] = a /\ q[i] = b

(* The nodes of a ring, and the list: those after its head, in their order.*)
Ring(h, l) == LET at == walk(h, l) IN {at[i] : i \in Turns}

ListOf(h, l) == SubSeq(walk(h, l), 1, Cardinality(Ring(h, l)) - 1)

(* The two pointers of every node of the ring are swapped.                 *)
rlist_reverse(h, l) ==
    LET ring == Ring(h, l)
    IN  [h EXCEPT !.next = [n \in Nodes |-> IF n \in ring THEN h.prev[n] ELSE h.next[n]],
                  !.prev = [n \in Nodes |-> IF n \in ring THEN h.next[n] ELSE h.prev[n]]]

(* The loop looks at the node after I: it moves it, or moves on to it.     *)
select_round(s, src, dest, pred) ==
    LET n == s.h.next[s.I] IN
    IF n = src THEN s
    ELSE IF n \in pred THEN [h |-> rlist_push_back(rlist_remove(s.h, n), dest, n), I |-> s.I]
    ELSE [h |-> s.h, I |-> n]

rlist_select(h, src, dest, pred) ==
    LET loop[i \in 0 .. Cardinality(Items)] ==
          IF i = 0 THEN [h |-> h, I |-> src] ELSE select_round(loop[i - 1], src, dest, pred)
    IN  loop[Cardinality(Items)].h

-----------------------------------------------------------------------------
Alone(n) == is_rlist_empty(heap, n)

WithKey(k) == {n \in Items : heap.key[n] = k}

Init ==
    /\ \E keys \in [Items -> Keys], null \in Keys :
         heap = [next |-> [n \in Nodes |-> n], prev |-> [n \in Nodes |-> n],
                 key |-> [n \in Nodes |-> IF n \in Items THEN keys[n] ELSE null]]
    /\ call = << >>

Does(what, h) == heap' = h /\ call' = what

(* The callers pop from a list only when it is not empty.                  *)
ListCall(l) ==
    \/ ~ is_rlist_empty(heap, l) /\ Does(<<"pop_front", l>>, rlist_pop_front(heap, l))
    \/ Does(<<"reverse", l>>, rlist_reverse(heap, l))

PushCall(l, n) ==
    /\ Alone(n)
    /\ \/ Does(<<"push_front", l, n>>, rlist_push_front(heap, l, n))
       \/ Does(<<"push_back", l, n>>, rlist_push_back(heap, l, n))

MoveCall(src, l) ==
    \/ Does(<<"append", l, src>>, rlist_append(heap, l, src))
    \/ Does(<<"prepend", l, src>>, rlist_prepend(heap, l, src))
    \/ \E k \in Keys :
         Does(<<"select", src, l, WithKey(k)>>, rlist_select(heap, src, l, WithKey(k)))

(* The splice is the one of sched_register_timeout, before a node m.       *)
NodeCall(n) ==
    \/ Does(<<"remove", n>>, rlist_remove(heap, n))
    \/ \E k \in Keys : Alone(n) /\ Does(<<"init", n>>, rlnode_init(heap, n, k))
    \/ \E m \in Items \ {n} :
         /\ Alone(n) /\ ~ Alone(m)
         /\ Does(<<"splice", m, n>>, rl_splice(heap, heap.prev[m], n))

Next ==
    \/ \E l \in Heads :
         \/ ListCall(l)
         \/ \E n \in Items : PushCall(l, n)
         \/ \E src \in Heads \ {l} : MoveCall(src, l)
    \/ \E n \in Items : NodeCall(n)

Spec == Init /\ [][Next]_vars

-----------------------------------------------------------------------------
(* Properties.                                                             *)

Promised == INSTANCE Lists WITH
                lists <- [l \in Heads |-> ListOf(heap, l)], call <- call

(* Seen along their next pointers the rings are the sequences that the     *)
(* kernel takes them for: every call changes them as the operation on      *)
(* sequences does, and changes no other list.                              *)
ImplementsLists == Promised!Spec

(* The prev pointers are the opposite of the next pointers, and what the   *)
(* functions that only look at a list return (whether it is empty, its     *)
(* length, the first node with a key, the equality of two lists) is what   *)
(* the sequences say.                                                      *)
QueriesAgree ==
    /\ \A n \in Nodes : heap.prev[heap.next[n]] = n /\ heap.next[heap.prev[n]] = n
    /\ \A l \in Heads :
         LET KeysOf(h) == [i \in DOMAIN ListOf(heap, h) |-> heap.key[ListOf(heap, h)[i]]]
             s == ListOf(heap, l)
         IN  /\ is_rlist_empty(heap, l) <=> s = << >>
             /\ rlist_len(heap, l) = Len(s)
             /\ \A m \in Heads : rlist_equal(heap, l, m) <=> KeysOf(l) = KeysOf(m)
             /\ \A k \in Keys :
                  LET found == rlist_find(heap, l, k, l) IN
                  IF found = l THEN \A i \in DOMAIN s : heap.key[s[i]] # k
                  ELSE \E i \in DOMAIN s : /\ s[i] = found /\ heap.key[found] = k
                                           /\ \A j \in 1 .. i - 1 : heap.key[s[j]] # k

=============================================================================
