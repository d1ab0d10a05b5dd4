----------------------------- MODULE ListLemmas -----------------------------
(***************************************************************************)
(* Facts about the list operations that the models use for the intrusive   *)
(* lists of util.h: removal and insertion at a position, and the least     *)
(* member of a set of positions.                                           *)
(***************************************************************************)
EXTENDS Integers, Sequences, SequencesExt, SequenceTheorems,
        WellFoundedInduction, TLAPS

(* A set of natural numbers that is not empty has a least member: the      *)
(* first queue that is not empty, the first entry that is due later.       *)
LEMMA LeastMember ==
    ASSUME NEW T, T \subseteq Nat, T # {}
    PROVE  \E x \in T : \A y \in T : x <= y
<1> DEFINE R == OpToRel(<, Nat)
<1>1. \A x, y \in Nat : x < y => <<x, y>> \in R
  BY DEF OpToRel
<1>2. IsWellFoundedOn(R, Nat)
  BY NatLessThanWellFounded, Zenon
<1> HIDE DEF R
<1>3. PICK x \in T : \A y \in T : ~ (<<y, x>> \in R)
  BY <1>2, WFMin, Zenon
<1>4. \A y \in T : ~ (y < x)
  BY <1>1, <1>3
<1> QED
  BY <1>4

(* What rlist_remove of the i-th node leaves.                              *)
LEMMA RemoveAtProperties ==
    ASSUME NEW S, NEW s \in Seq(S), NEW i \in 1 .. Len(s)
    PROVE  /\ RemoveAt(s, i) \in Seq(S)
           /\ Len(RemoveAt(s, i)) = Len(s) - 1
           /\ \A j \in 1 .. Len(s) - 1 :
                RemoveAt(s, i)[j] = IF j < i THEN s[j] ELSE s[j + 1]
<1> DEFINE a == SubSeq(s, 1, i - 1)
           b == SubSeq(s, i + 1, Len(s))
<1>1. \A j \in 1 .. Len(s) : s[j] \in S
  OBVIOUS
<1>2. /\ a \in Seq(S)
      /\ Len(a) = i - 1
      /\ \A j \in 1 .. i - 1 : a[j] = s[j]
  BY <1>1, SubSeqProperties
<1>3. /\ b \in Seq(S)
      /\ Len(b) = Len(s) - i
      /\ \A j \in 1 .. Len(s) - i : b[j] = s[i + j]
  BY <1>1, SubSeqProperties
<1>4. RemoveAt(s, i) = a \o b
  BY DEF RemoveAt
<1> HIDE DEF a, b
<1>5. /\ a \o b \in Seq(S)
      /\ Len(a \o b) = Len(a) + Len(b)
      /\ \A j \in 1 .. Len(a) + Len(b) :
           (a \o b)[j] = IF j <= Len(a) THEN a[j] ELSE b[j - Len(a)]
  BY <1>2, <1>3, ConcatProperties
<1> DEFINE r == a \o b
<1>6. /\ r \in Seq(S)
      /\ Len(r) = Len(s) - 1
      /\ \A j \in 1 .. Len(s) - 1 :
           r[j] = IF j <= i - 1 THEN a[j] ELSE b[j - (i - 1)]
  BY <1>2, <1>3, <1>5
<1> HIDE DEF r
<1>7. \A j \in 1 .. Len(s) - 1 : r[j] = IF j < i THEN s[j] ELSE s[j + 1]
  BY <1>2, <1>3, <1>6
<1> QED
  BY <1>4, <1>6, <1>7 DEF r

(* What rl_splice of a node in front of the i-th one makes.                *)
LEMMA InsertAtProperties ==
    ASSUME NEW S, NEW s \in Seq(S), NEW i \in 1 .. Len(s) + 1, NEW e \in S
    PROVE  /\ InsertAt(s, i, e) \in Seq(S)
           /\ Len(InsertAt(s, i, e)) = Len(s) + 1
           /\ \A j \in 1 .. Len(s) + 1 :
                InsertAt(s, i, e)[j] = IF j < i THEN s[j]
                                       ELSE IF j = i THEN e ELSE s[j - 1]
<1> DEFINE a == SubSeq(s, 1, i - 1)
           b == SubSeq(s, i, Len(s))
<1>1. \A j \in 1 .. Len(s) : s[j] \in S
  OBVIOUS
<1>2. /\ a \in Seq(S)
      /\ Len(a) = i - 1
      /\ \A j \in 1 .. i - 1 : a[j] = s[j]
  BY <1>1, SubSeqProperties
<1>3. /\ b \in Seq(S)
      /\ Len(b) = Len(s) - i + 1
      /\ \A j \in 1 .. Len(s) - i + 1 : b[j] = s[i + j - 1]
  BY <1>1, SubSeqProperties
<1>4. /\ <<e>> \in Seq(S)
      /\ Len(<<e>>) = 1
      /\ <<e>>[1] = e
  OBVIOUS
<1>5. InsertAt(s, i, e) = a \o <<e>> \o b
  BY DEF InsertAt
<1> HIDE DEF a, b
<1>6. /\ a \o <<e>> \in Seq(S)
      /\ Len(a \o <<e>>) = i
      /\ \A j \in 1 .. i : (a \o <<e>>)[j] = IF j < i THEN s[j] ELSE e
  <2>1. /\ a \o <<e>> \in Seq(S)
        /\ Len(a \o <<e>>) = Len(a) + 1
        /\ \A j \in 1 .. Len(a) + 1 :
             (a \o <<e>>)[j] = IF j <= Len(a) THEN a[j] ELSE <<e>>[j - Len(a)]
    BY <1>2, <1>4, ConcatProperties
  <2> QED
    BY <1>2, <1>4, <2>1
<1> DEFINE x == a \o <<e>>
<1>7. /\ InsertAt(s, i, e) = x \o b
      /\ x \in Seq(S)
      /\ Len(x) = i
      /\ \A j \in 1 .. i : x[j] = IF j < i THEN s[j] ELSE e
  BY <1>5, <1>6
<1> HIDE DEF x
<1>8. /\ x \o b \in Seq(S)
      /\ Len(x \o b) = Len(x) + Len(b)
      /\ \A j \in 1 .. Len(x) + Len(b) :
           (x \o b)[j] = IF j <= Len(x) THEN x[j] ELSE b[j - Len(x)]
  BY <1>3, <1>7, ConcatProperties
<1> DEFINE r == x \o b
<1>9. /\ r \in Seq(S)
      /\ Len(r) = Len(s) + 1
      /\ \A j \in 1 .. Len(s) + 1 : r[j] = IF j <= i THEN x[j] ELSE b[j - i]
  BY <1>3, <1>7, <1>8
<1> HIDE DEF r
<1>10. \A j \in 1 .. Len(s) + 1 :
         r[j] = IF j < i THEN s[j] ELSE IF j = i THEN e ELSE s[j - 1]
  BY <1>3, <1>7, <1>9
<1> QED
  BY <1>7, <1>9, <1>10 DEF r

-----------------------------------------------------------------------------
(* Membership and absence of duplicates, for each list operation.          *)

(* rlist_push_back.                                                        *)
LEMMA AppendMembers ==
    ASSUME NEW S, NEW q \in Seq(S), NEW e \in S
    PROVE  /\ Append(q, e) \in Seq(S)
           /\ \A t : Contains(Append(q, e), t) <=> Contains(q, t) \/ t = e
           /\ IsInjective(q) /\ ~ Contains(q, e) => IsInjective(Append(q, e))
<1> DEFINE r == Append(q, e)
<1>1. /\ r \in Seq(S)
      /\ Len(r) = Len(q) + 1
      /\ \A i \in 1 .. Len(q) : r[i] = q[i]
      /\ r[Len(q) + 1] = e
  BY AppendProperties
<1>2. DOMAIN r = 1 .. Len(q) + 1 /\ DOMAIN q = 1 .. Len(q) /\ Len(q) \in Nat
  BY <1>1
<1> HIDE DEF r
<1>3. \A t : Contains(r, t) <=> Contains(q, t) \/ t = e
  BY <1>1, <1>2 DEF Contains
<1>4. IsInjective(q) /\ ~ Contains(q, e) => IsInjective(r)
  BY <1>1, <1>2 DEF Contains, IsInjective
<1> QED
  BY <1>1, <1>3, <1>4 DEF r

(* rlist_pop_front.                                                        *)
LEMMA TailMembers ==
    ASSUME NEW S, NEW q \in Seq(S), q # << >>, IsInjective(q)
    PROVE  /\ Head(q) \in S
           /\ Contains(q, Head(q))
           /\ Tail(q) \in Seq(S)
           /\ \A t : Contains(Tail(q), t) <=> Contains(q, t) /\ t # Head(q)
           /\ IsInjective(Tail(q))
<1> DEFINE r == Tail(q)
           h == Head(q)
<1>1. /\ r \in Seq(S)
      /\ h \in S
      /\ h = q[1]
      /\ Len(r) = Len(q) - 1
      /\ \A i \in 1 .. Len(q) - 1 : r[i] = q[i + 1]
  BY HeadTailProperties
<1>2. /\ DOMAIN r = 1 .. Len(q) - 1
      /\ DOMAIN q = 1 .. Len(q)
      /\ Len(q) \in Nat \ {0}
  BY <1>1
<1> HIDE DEF r, h
<1>3. \A t : Contains(r, t) <=> Contains(q, t) /\ t # h
  <2> SUFFICES ASSUME NEW t
               PROVE  Contains(r, t) <=> Contains(q, t) /\ t # h
    OBVIOUS
  <2>1. ASSUME NEW i \in 1 .. Len(r), r[i] = t
        PROVE  Contains(q, t) /\ t # h
    <3>1. i + 1 \in 1 .. Len(q) /\ q[i + 1] = t
      BY <1>1, <1>2, <2>1
    <3> QED
      BY <1>1, <1>2, <3>1 DEF Contains, IsInjective
  <2>2. ASSUME NEW i \in 1 .. Len(q), q[i] = t, t # h
        PROVE  Contains(r, t)
    <3>1. i - 1 \in 1 .. Len(r) /\ r[i - 1] = t
      BY <1>1, <1>2, <2>2
    <3> QED
      BY <3>1 DEF Contains
  <2> QED
    BY <2>1, <2>2 DEF Contains
<1>4. IsInjective(r)
  BY <1>1, <1>2 DEF IsInjective
<1>5. Contains(q, h)
  BY <1>1, <1>2 DEF Contains
<1> QED
  BY <1>1, <1>3, <1>4, <1>5 DEF r, h

(* rlist_remove.                                                           *)
LEMMA RemoveMembers ==
    ASSUME NEW S, NEW q \in Seq(S), IsInjective(q), NEW i \in 1 .. Len(q)
    PROVE  /\ RemoveAt(q, i) \in Seq(S)
           /\ \A t : Contains(RemoveAt(q, i), t) <=> Contains(q, t) /\ t # q[i]
           /\ IsInjective(RemoveAt(q, i))
<1> DEFINE r == RemoveAt(q, i)
<1>1. /\ r \in Seq(S)
      /\ Len(r) = Len(q) - 1
      /\ \A j \in 1 .. Len(q) - 1 : r[j] = IF j < i THEN q[j] ELSE q[j + 1]
  BY RemoveAtProperties
<1>2. /\ DOMAIN r = 1 .. Len(q) - 1
      /\ DOMAIN q = 1 .. Len(q)
      /\ Len(q) \in Nat
  BY <1>1
<1> HIDE DEF r
<1>3. \A t : Contains(r, t) <=> Contains(q, t) /\ t # q[i]
  <2> SUFFICES ASSUME NEW t
               PROVE  Contains(r, t) <=> Contains(q, t) /\ t # q[i]
    OBVIOUS
  <2>1. ASSUME NEW j \in 1 .. Len(r), r[j] = t
        PROVE  Contains(q, t) /\ t # q[i]
    <3>1. PICK k \in 1 .. Len(q) : k # i /\ q[k] = t
      <4>1. CASE j < i
        BY <1>1, <1>2, <2>1, <4>1
      <4>2. CASE ~ (j < i)
        <5>1. j + 1 \in 1 .. Len(q) /\ j + 1 # i /\ q[j + 1] = t
          BY <1>1, <1>2, <2>1, <4>2
        <5> QED
          BY <5>1
      <4> QED
        BY <4>1, <4>2
    <3> QED
      BY <1>2, <3>1 DEF Contains, IsInjective
  <2>2. ASSUME NEW k \in 1 .. Len(q), q[k] = t, t # q[i]
        PROVE  Contains(r, t)
    <3>1. CASE k < i
      BY <1>1, <1>2, <2>2, <3>1 DEF Contains
    <3>2. CASE k > i
      <4>1. k - 1 \in 1 .. Len(r) /\ r[k - 1] = t
        BY <1>1, <1>2, <2>2, <3>2
      <4> QED
        BY <4>1 DEF Contains
    <3> QED
      BY <2>2, <3>1, <3>2
  <2> QED
    BY <2>1, <2>2 DEF Contains
<1>4. IsInjective(r)
  <2> SUFFICES ASSUME NEW j \in 1 .. Len(q) - 1, NEW k \in 1 .. Len(q) - 1,
                      r[j] = r[k]
               PROVE  j = k
    BY <1>2 DEF IsInjective
  <2> DEFINE at(n) == IF n < i THEN n ELSE n + 1
  <2>1. /\ r[j] = q[at(j)] /\ at(j) \in 1 .. Len(q)
        /\ r[k] = q[at(k)] /\ at(k) \in 1 .. Len(q)
    BY <1>1, <1>2
  <2>2. at(j) = at(k)
    BY <1>2, <2>1 DEF IsInjective
  <2> QED
    BY <2>2
<1> QED
  BY <1>1, <1>3, <1>4 DEF r

(* rl_splice of one node.                                                  *)
LEMMA InsertMembers ==
    ASSUME NEW S, NEW q \in Seq(S), NEW i \in 1 .. Len(q) + 1, NEW e \in S
    PROVE  /\ InsertAt(q, i, e) \in Seq(S)
           /\ \A t : Contains(InsertAt(q, i, e), t) <=> Contains(q, t) \/ t = e
           /\ IsInjective(q) /\ ~ Contains(q, e) => IsInjective(InsertAt(q, i, e))
<1> DEFINE r == InsertAt(q, i, e)
<1>1. /\ r \in Seq(S)
      /\ Len(r) = Len(q) + 1
      /\ \A j \in 1 .. Len(q) + 1 :
           r[j] = IF j < i THEN q[j] ELSE IF j = i THEN e ELSE q[j - 1]
  BY InsertAtProperties
<1>2. /\ DOMAIN r = 1 .. Len(q) + 1
      /\ DOMAIN q = 1 .. Len(q)
      /\ Len(q) \in Nat
  BY <1>1
<1> HIDE DEF r
<1>3. \A t : Contains(r, t) <=> Contains(q, t) \/ t = e
  <2> SUFFICES ASSUME NEW t
               PROVE  Contains(r, t) <=> Contains(q, t) \/ t = e
    OBVIOUS
  <2>1. ASSUME NEW j \in 1 .. Len(r), r[j] = t
        PROVE  Contains(q, t) \/ t = e
    <3>1. CASE j > i
      <4>1. j - 1 \in 1 .. Len(q) /\ q[j - 1] = t
        BY <1>1, <1>2, <2>1, <3>1
      <4> QED
        BY <4>1 DEF Contains
    <3> QED
      BY <1>1, <1>2, <2>1, <3>1 DEF Contains
  <2>2. ASSUME NEW k \in 1 .. Len(q), q[k] = t
        PROVE  Contains(r, t)
    <3>1. CASE k < i
      BY <1>1, <1>2, <2>2, <3>1 DEF Contains
    <3>2. CASE ~ (k < i)
      <4>1. k + 1 \in 1 .. Len(r) /\ r[k + 1] = t
        BY <1>1, <1>2, <2>2, <3>2
      <4> QED
        BY <4>1 DEF Contains
    <3> QED
      BY <3>1, <3>2
  <2>3. i \in 1 .. Len(r) /\ r[i] = e
    BY <1>1, <1>2
  <2> QED
    BY <2>1, <2>2, <2>3 DEF Contains
<1>4. ASSUME IsInjective(q), ~ Contains(q, e)
      PROVE  IsInjective(r)
  <2> SUFFICES ASSUME NEW j \in 1 .. Len(q) + 1, NEW k \in 1 .. Len(q) + 1,
                      r[j] = r[k]
               PROVE  j = k
    BY <1>2 DEF IsInjective
  <2> DEFINE at(n) == IF n < i THEN n ELSE n - 1
  <2>1. /\ j # i => r[j] = q[at(j)] /\ at(j) \in 1 .. Len(q)
        /\ k # i => r[k] = q[at(k)] /\ at(k) \in 1 .. Len(q)
        /\ r[i] = e
    BY <1>1, <1>2
  <2>2. j = i <=> k = i
    <3> HIDE DEF at
    <3> QED
      BY <1>4, <2>1 DEF Contains
  <2>3. j # i /\ k # i => at(j) = at(k)
    <3> HIDE DEF at
    <3> QED
      BY <1>2, <1>4, <2>1 DEF IsInjective
  <2> QED
    BY <2>2, <2>3
<1> QED
  BY <1>1, <1>3, <1>4 DEF r
=============================================================================
