-------------------------- MODULE SymposiumProofs --------------------------
(***************************************************************************)
(* Proofs that the dining philosophers exclude their neighbours, and that  *)
(* no signal is missed, for any number of philosophers and of bites.       *)
(***************************************************************************)
EXTENDS Symposium, TLAPS

-----------------------------------------------------------------------------
(* The table is round: LEFT and RIGHT of symposium.c, without %.           *)
LEMMA RoundTable ==
    ASSUME NEW i \in Philosophers
    PROVE  /\ LEFT(i) = IF i = N - 1 THEN 0 ELSE i + 1
           /\ RIGHT(i) = IF i = 0 THEN N - 1 ELSE i - 1
<1>1. N \in Nat /\ N > 0 /\ i \in Int /\ 0 <= i /\ i <= N - 1
  BY SymposiumAssumption DEF Philosophers
<1>2. CASE i = N - 1
  BY <1>1, <1>2 DEF LEFT, RIGHT
<1>3. CASE i # N - 1
  BY <1>1, <1>3 DEF LEFT, RIGHT
<1> QED BY <1>2, <1>3

(* LEFT and RIGHT are the inverse of each other, and stay at the table.    *)
LEMMA Neighbours ==
    ASSUME NEW i \in Philosophers
    PROVE  /\ LEFT(i) \in Philosophers
           /\ RIGHT(i) \in Philosophers
           /\ LEFT(RIGHT(i)) = i
           /\ RIGHT(LEFT(i)) = i
<1>1. N \in Nat /\ N > 0 /\ i \in Int /\ 0 <= i /\ i <= N - 1
  BY SymposiumAssumption DEF Philosophers
<1>2. LEFT(i) \in Philosophers /\ RIGHT(i) \in Philosophers
  BY <1>1, RoundTable DEF Philosophers
<1>3. LEFT(RIGHT(i)) = i /\ RIGHT(LEFT(i)) = i
  BY <1>1, <1>2, RoundTable DEF Philosophers
<1> QED BY <1>2, <1>3

-----------------------------------------------------------------------------
(* ForksAreExclusive, of any states st.                                    *)
Exclusive(st) ==
    \A i \in Philosophers : st[i] = "EATING" /\ LEFT(i) # i => st[LEFT(i)] # "EATING"

(* trytoeat changes nobody but i, and i from HUNGRY to EATING only; if i   *)
(* stays hungry then a neighbour eats.                                     *)
LEMMA TryResult ==
    ASSUME NEW st \in [Philosophers -> PHIL], NEW i \in Philosophers
    PROVE  /\ trytoeat(st, i) \in [Philosophers -> PHIL]
           /\ \A k \in Philosophers : k # i => trytoeat(st, i)[k] = st[k]
           /\ \/ trytoeat(st, i) = st
              \/ /\ st[i] = "HUNGRY"
                 /\ trytoeat(st, i)[i] = "EATING"
                 /\ st[LEFT(i)] # "EATING"
                 /\ st[RIGHT(i)] # "EATING"
           /\ \A k \in Philosophers :
                trytoeat(st, i)[k] = st[k] \/ (st[k] = "HUNGRY" /\ trytoeat(st, i)[k] = "EATING")
           /\ trytoeat(st, i)[i] = "HUNGRY"
                => st[LEFT(i)] = "EATING" \/ st[RIGHT(i)] = "EATING"
<1>1. CASE CanEat(st, i)
  <2>1. trytoeat(st, i) = [st EXCEPT ![i] = "EATING"]
    BY <1>1 DEF trytoeat
  <2>2. /\ trytoeat(st, i) \in [Philosophers -> PHIL]
        /\ trytoeat(st, i)[i] = "EATING"
        /\ \A k \in Philosophers : k # i => trytoeat(st, i)[k] = st[k]
    BY <2>1 DEF PHIL
  <2>3. st[i] = "HUNGRY" /\ st[LEFT(i)] # "EATING" /\ st[RIGHT(i)] # "EATING"
    BY <1>1 DEF CanEat
  <2> QED BY <2>2, <2>3
<1>2. CASE ~ CanEat(st, i)
  <2>1. trytoeat(st, i) = st
    BY <1>2 DEF trytoeat
  <2>2. st[i] = "HUNGRY" => st[LEFT(i)] = "EATING" \/ st[RIGHT(i)] = "EATING"
    BY <1>2 DEF CanEat
  <2> QED BY <2>1, <2>2
<1> QED BY <1>1, <1>2

(* trytoeat preserves the exclusion of neighbours.                         *)
LEMMA TryExcludes ==
    ASSUME NEW st \in [Philosophers -> PHIL], NEW i \in Philosophers, Exclusive(st)
    PROVE  Exclusive(trytoeat(st, i))
<1> DEFINE new == trytoeat(st, i)
<1>1. CASE new = st
  BY <1>1
<1>2. CASE /\ new[i] = "EATING"
           /\ st[LEFT(i)] # "EATING" /\ st[RIGHT(i)] # "EATING"
  <2> SUFFICES ASSUME NEW k \in Philosophers, new[k] = "EATING", LEFT(k) # k
               PROVE  new[LEFT(k)] # "EATING"
    BY DEF Exclusive
  <2>1. LEFT(k) \in Philosophers
    BY Neighbours
  <2>2. CASE k = i
    BY <1>2, <2>1, <2>2, TryResult
  <2>3. CASE k # i /\ LEFT(k) = i
    <3>1. RIGHT(i) = k
      BY <2>3, Neighbours
    <3>2. st[k] = "EATING"
      BY <2>3, TryResult
    <3> QED BY <1>2, <3>1, <3>2
  <2>4. CASE k # i /\ LEFT(k) # i
    <3>1. new[k] = st[k] /\ new[LEFT(k)] = st[LEFT(k)]
      BY <2>1, <2>4, TryResult
    <3> QED BY <3>1 DEF Exclusive
  <2> QED BY <2>2, <2>3, <2>4
<1> QED BY <1>1, <1>2, TryResult

-----------------------------------------------------------------------------
(* What the place of a philosopher says of its state and its bites.        *)
StateAt(p) ==
    IF p = "think" THEN "THINKING"
    ELSE IF p = "wait" THEN "HUNGRY"
    ELSE IF p \in {"woken", "eat"} THEN "EATING"
    ELSE "NOTHERE"

PlacesAgree ==
    \A i \in Philosophers :
      /\ state[i] = StateAt(pc[i])
      /\ pc[i] \in {"wait", "woken", "eat"} => j[i] < bites

TableInv == destroyed => \A i \in Philosophers : pc[i] = "collected"

(* The inductive invariant.                                                *)
SymposiumInv ==
    TypeOK /\ PlacesAgree /\ ForksAreExclusive /\ SleepersHaveReason /\ TableInv

(* The initial states.                                                     *)
LEMMA InitInv == Init => SymposiumInv
<1> SUFFICES ASSUME Init PROVE SymposiumInv
  OBVIOUS
<1>1. TypeOK
  <2>1. 0 \in 0 .. bites
    BY SymposiumAssumption
  <2> QED BY <2>1 DEF Init, TypeOK, PHIL, Places
<1>2. \A i \in Philosophers : state[i] = "NOTHERE" /\ pc[i] = "none"
  BY DEF Init
<1>3. PlacesAgree /\ TableInv
  BY <1>2 DEF Init, PlacesAgree, StateAt, TableInv
<1>4. ForksAreExclusive /\ SleepersHaveReason
  BY <1>2, Neighbours DEF ForksAreExclusive, SleepersHaveReason
<1> QED BY <1>1, <1>3, <1>4 DEF SymposiumInv

(* Steps that leave state alone, and move one philosopher between places   *)
(* with the same state: Launch, Collect, WakeUp.                           *)
LEMMA MoveInv ==
    ASSUME SymposiumInv, NEW i \in Philosophers, NEW p \in Places \ {"wait"},
           pc' = [pc EXCEPT ![i] = p],
           StateAt(p) = StateAt(pc[i]),
           p = "eat" => pc[i] = "woken",
           p # "woken",
           ~ destroyed,
           UNCHANGED <<state, j, destroyed>>
    PROVE  SymposiumInv'
<1> USE DEF SymposiumInv
<1>1. TypeOK'
  BY DEF TypeOK
<1>2. PlacesAgree'
  BY DEF TypeOK, PlacesAgree
<1>3. ForksAreExclusive'
  BY DEF ForksAreExclusive
<1>4. SleepersHaveReason'
  BY DEF SleepersHaveReason, TypeOK
<1>5. TableInv'
  BY DEF TableInv
<1> QED BY <1>1, <1>2, <1>3, <1>4, <1>5

(* Steps that change the state of i between two states that are not        *)
(* EATING: Arrive and Leave.                                               *)
LEMMA ComeAndGoInv ==
    ASSUME SymposiumInv, NEW i \in Philosophers, Arrive(i) \/ Leave(i)
    PROVE  SymposiumInv'
<1> USE DEF SymposiumInv
<1>1. PICK p \in {"think", "left"} :
        /\ pc' = [pc EXCEPT ![i] = p]
        /\ state' = [state EXCEPT ![i] = StateAt(p)]
  BY DEF Arrive, Leave, StateAt
<1>2. /\ UNCHANGED <<j, destroyed>>
      /\ pc[i] \in {"arrive", "think"}
  BY DEF Arrive, Leave
<1>3. StateAt(p) \in {"THINKING", "NOTHERE"} /\ state[i] \in {"THINKING", "NOTHERE"}
  BY <1>1, <1>2 DEF StateAt, PlacesAgree
<1>4. TypeOK'
  BY <1>1, <1>2, <1>3 DEF TypeOK, PHIL, Places
<1>5. PlacesAgree'
  BY <1>1, <1>2 DEF TypeOK, PlacesAgree
<1>6. \A k \in Philosophers : state'[k] = "EATING" <=> state[k] = "EATING"
  BY <1>1, <1>3 DEF TypeOK
<1>7. ForksAreExclusive'
  BY <1>6, Neighbours DEF ForksAreExclusive
<1>8. SleepersHaveReason'
  <2> SUFFICES ASSUME NEW k \in Philosophers, pc'[k] = "wait"
               PROVE  /\ state'[k] = "HUNGRY"
                      /\ state'[LEFT(k)] = "EATING" \/ state'[RIGHT(k)] = "EATING"
    BY DEF SleepersHaveReason
  <2>1. k # i /\ pc[k] = "wait"
    BY <1>1 DEF TypeOK
  <2>2. state'[k] = "HUNGRY"
    BY <1>1, <2>1 DEF TypeOK, SleepersHaveReason
  <2> QED BY <1>6, <2>1, <2>2, Neighbours DEF SleepersHaveReason
<1>9. TableInv'
  BY <1>1, <1>2 DEF TableInv
<1> QED BY <1>4, <1>5, <1>7, <1>8, <1>9

(* A philosopher becomes hungry, and eats at once or goes to sleep.        *)
LEMMA BecomeHungryInv ==
    ASSUME SymposiumInv, NEW i \in Philosophers, BecomeHungry(i)
    PROVE  SymposiumInv'
<1> USE DEF SymposiumInv
<1> DEFINE hungry == [state EXCEPT ![i] = "HUNGRY"]
<1>1. /\ pc[i] = "think" /\ state[i] = "THINKING" /\ More(i)
      /\ state' = trytoeat(hungry, i)
      /\ pc' = [pc EXCEPT ![i] = IF state'[i] = "HUNGRY" THEN "wait" ELSE "eat"]
      /\ UNCHANGED <<j, destroyed>>
  BY DEF BecomeHungry, PlacesAgree, StateAt
<1>2. /\ hungry \in [Philosophers -> PHIL]
      /\ hungry[i] = "HUNGRY"
      /\ \A k \in Philosophers : hungry[k] = "EATING" <=> state[k] = "EATING"
      /\ \A k \in Philosophers : k # i => hungry[k] = state[k]
  BY <1>1 DEF TypeOK, PHIL
<1> HIDE DEF hungry
<1>3. /\ state' \in [Philosophers -> PHIL]
      /\ \A k \in Philosophers : k # i => state'[k] = state[k]
      /\ state'[i] \in {"HUNGRY", "EATING"}
      /\ state'[i] = "HUNGRY" => hungry[LEFT(i)] = "EATING" \/ hungry[RIGHT(i)] = "EATING"
  <2>1. \A k \in Philosophers : k # i => state'[k] = hungry[k]
    BY <1>1, <1>2, TryResult
  <2>2. state'[i] = hungry[i] \/ state'[i] = "EATING"
    BY <1>1, <1>2, TryResult
  <2>3. state' \in [Philosophers -> PHIL]
    BY <1>1, <1>2, TryResult
  <2>4. state'[i] = "HUNGRY" => hungry[LEFT(i)] = "EATING" \/ hungry[RIGHT(i)] = "EATING"
    BY <1>1, <1>2, TryResult
  <2> QED BY <1>2, <2>1, <2>2, <2>3, <2>4
<1>4. TypeOK'
  BY <1>1, <1>3 DEF TypeOK, Places
<1>5. PlacesAgree'
  BY <1>1, <1>3 DEF PlacesAgree, StateAt, TypeOK, More
<1>6. ForksAreExclusive'
  <2>1. Exclusive(hungry)
    BY <1>2, Neighbours DEF ForksAreExclusive, Exclusive
  <2>2. Exclusive(state')
    BY <1>1, <1>2, <2>1, TryExcludes
  <2> QED BY <2>2 DEF Exclusive, ForksAreExclusive
<1>7. SleepersHaveReason'
  <2> SUFFICES ASSUME NEW k \in Philosophers, pc'[k] = "wait"
               PROVE  /\ state'[k] = "HUNGRY"
                      /\ state'[LEFT(k)] = "EATING" \/ state'[RIGHT(k)] = "EATING"
    BY DEF SleepersHaveReason
  <2>1. \A m \in Philosophers : state[m] = "EATING" => state'[m] = "EATING"
    BY <1>1, <1>3
  <2>2. CASE k = i
    BY <1>1, <1>2, <1>3, <2>1, <2>2, Neighbours DEF TypeOK
  <2>3. CASE k # i
    BY <1>1, <1>3, <2>1, <2>3, Neighbours DEF TypeOK, SleepersHaveReason
  <2> QED BY <2>2, <2>3
<1>8. TableInv'
  BY <1>1 DEF TableInv
<1> QED BY <1>4, <1>5, <1>6, <1>7, <1>8

(* A philosopher finishes its meal and lets its neighbours eat.            *)
LEMMA FinishEatingInv ==
    ASSUME SymposiumInv, NEW i \in Philosophers, FinishEating(i)
    PROVE  SymposiumInv'
<1> USE DEF SymposiumInv
<1> DEFINE before == [state EXCEPT ![i] = "THINKING"]
           mid    == trytoeat(before, LEFT(i))
<1>1. /\ pc[i] = "eat" /\ state[i] = "EATING" /\ j[i] < bites
      /\ state' = trytoeat(mid, RIGHT(i))
      /\ pc' = [Signalled(state') EXCEPT ![i] = "think"]
      /\ j' = [j EXCEPT ![i] = @ + 1]
      /\ UNCHANGED destroyed
  BY DEF FinishEating, AfterMeal, PlacesAgree, StateAt
<1>2. LEFT(i) \in Philosophers /\ RIGHT(i) \in Philosophers
  BY Neighbours
<1>3. /\ before \in [Philosophers -> PHIL]
      /\ before[i] = "THINKING"
      /\ \A k \in Philosophers : k # i => before[k] = state[k]
  BY DEF TypeOK, PHIL
<1> HIDE DEF before
<1>4. /\ mid \in [Philosophers -> PHIL]
      /\ \A k \in Philosophers :
           mid[k] = before[k] \/ (before[k] = "HUNGRY" /\ mid[k] = "EATING")
      /\ mid[LEFT(i)] = "HUNGRY"
           => before[LEFT(LEFT(i))] = "EATING" \/ before[RIGHT(LEFT(i))] = "EATING"
  <2>1. mid \in [Philosophers -> PHIL]
    BY <1>2, <1>3, TryResult
  <2>2. \A k \in Philosophers :
           mid[k] = before[k] \/ (before[k] = "HUNGRY" /\ mid[k] = "EATING")
    BY <1>2, <1>3, TryResult
  <2>3. mid[LEFT(i)] = "HUNGRY"
           => before[LEFT(LEFT(i))] = "EATING" \/ before[RIGHT(LEFT(i))] = "EATING"
    BY <1>2, <1>3, TryResult
  <2> QED BY <2>1, <2>2, <2>3
<1>5. /\ state' \in [Philosophers -> PHIL]
      /\ \A k \in Philosophers :
           state'[k] = mid[k] \/ (mid[k] = "HUNGRY" /\ state'[k] = "EATING")
      /\ state'[RIGHT(i)] = "HUNGRY"
           => mid[LEFT(RIGHT(i))] = "EATING" \/ mid[RIGHT(RIGHT(i))] = "EATING"
  <2> HIDE DEF mid
  <2>1. state' \in [Philosophers -> PHIL]
    BY <1>1, <1>2, <1>4, TryResult
  <2>2. \A k \in Philosophers :
           state'[k] = mid[k] \/ (mid[k] = "HUNGRY" /\ state'[k] = "EATING")
    BY <1>1, <1>2, <1>4, TryResult
  <2>3. state'[RIGHT(i)] = "HUNGRY"
           => mid[LEFT(RIGHT(i))] = "EATING" \/ mid[RIGHT(RIGHT(i))] = "EATING"
    BY <1>1, <1>2, <1>4, TryResult
  <2> QED BY <2>1, <2>2, <2>3
<1>6. /\ state'[i] = "THINKING"
      /\ \A k \in Philosophers :
           k # i => state'[k] = state[k] \/ (state[k] = "HUNGRY" /\ state'[k] = "EATING")
  BY <1>3, <1>4, <1>5
<1>7. /\ pc'[i] = "think"
      /\ \A k \in Philosophers :
           k # i => pc'[k] = IF pc[k] = "wait" /\ state'[k] = "EATING" THEN "woken" ELSE pc[k]
      /\ pc' \in [Philosophers -> Places]
  BY <1>1 DEF Signalled, TypeOK, Places
<1>8. TypeOK'
  <2>1. j' \in [Philosophers -> 0 .. bites]
    BY <1>1, SymposiumAssumption DEF TypeOK
  <2> QED BY <1>1, <1>5, <1>7, <2>1 DEF TypeOK
<1>9. PlacesAgree'
  <2> SUFFICES ASSUME NEW k \in Philosophers
               PROVE  /\ state'[k] = StateAt(pc'[k])
                      /\ pc'[k] \in {"wait", "woken", "eat"} => j'[k] < bites
    BY DEF PlacesAgree
  <2>1. CASE k = i
    BY <1>6, <1>7, <2>1 DEF StateAt
  <2>2. CASE k # i
    <3>1. j'[k] = j[k]
      BY <1>1, <2>2 DEF TypeOK
    <3>2. state[k] = StateAt(pc[k]) /\ (pc[k] \in {"wait", "woken", "eat"} => j[k] < bites)
      BY DEF PlacesAgree
    <3> QED BY <1>6, <1>7, <2>2, <3>1, <3>2 DEF StateAt
  <2> QED BY <2>1, <2>2
<1>10. ForksAreExclusive'
  <2>1. Exclusive(before)
    BY <1>3, Neighbours DEF ForksAreExclusive, Exclusive
  <2>2. Exclusive(mid)
    BY <1>2, <1>3, <2>1, TryExcludes
  <2>3. Exclusive(state')
    BY <1>1, <1>2, <1>4, <2>2, TryExcludes
  <2> QED BY <2>3 DEF Exclusive, ForksAreExclusive
<1>11. SleepersHaveReason'
  <2> SUFFICES ASSUME NEW k \in Philosophers, pc'[k] = "wait"
               PROVE  /\ state'[k] = "HUNGRY"
                      /\ state'[LEFT(k)] = "EATING" \/ state'[RIGHT(k)] = "EATING"
    BY DEF SleepersHaveReason
  <2>1. k # i /\ pc[k] = "wait" /\ state'[k] = "HUNGRY" /\ mid[k] = "HUNGRY"
    <3>1. state'[k] = StateAt(pc'[k])
      BY <1>9 DEF PlacesAgree
    <3> QED BY <1>5, <1>7, <3>1 DEF StateAt
  <2>2. \A m \in Philosophers : /\ m # i /\ state[m] = "EATING" => state'[m] = "EATING"
                                /\ before[m] = "EATING" => state'[m] = "EATING"
                                /\ mid[m] = "EATING" => state'[m] = "EATING"
    BY <1>3, <1>4, <1>5
  <2>3. LEFT(k) \in Philosophers /\ RIGHT(k) \in Philosophers
    BY Neighbours
  <2>4. CASE LEFT(k) # i /\ RIGHT(k) # i
    BY <2>1, <2>2, <2>3, <2>4 DEF SleepersHaveReason
  <2>5. CASE LEFT(k) = i
    <3>1. RIGHT(i) = k
      BY <2>5, Neighbours
    <3> QED BY <1>5, <2>1, <2>2, <2>3, <3>1
  <2>6. CASE RIGHT(k) = i
    <3>1. LEFT(i) = k
      BY <2>6, Neighbours
    <3> QED BY <1>4, <2>1, <2>2, <2>3, <3>1
  <2> QED BY <2>4, <2>5, <2>6
<1>12. TableInv'
  BY <1>1 DEF TableInv
<1> QED BY <1>8, <1>9, <1>10, <1>11, <1>12

-----------------------------------------------------------------------------
(* Every step preserves the invariant.                                     *)
LEMMA NextInv == SymposiumInv /\ [Next]_vars => SymposiumInv'
<1> SUFFICES ASSUME SymposiumInv, [Next]_vars PROVE SymposiumInv'
  OBVIOUS
<1>1. CASE UNCHANGED vars
  BY <1>1 DEF vars, SymposiumInv, TypeOK, PlacesAgree, ForksAreExclusive,
              SleepersHaveReason, TableInv
<1>2. ASSUME NEW i \in Philosophers, SymposiumTable_philosopher(i)
      PROVE  SymposiumInv'
  <2>1. CASE Arrive(i) \/ Leave(i)
    BY <2>1, ComeAndGoInv
  <2>2. CASE BecomeHungry(i)
    BY <2>2, BecomeHungryInv
  <2>3. CASE FinishEating(i)
    BY <2>3, FinishEatingInv
  <2>4. CASE WakeUp(i)
    <3>1. state[i] = "EATING" /\ pc[i] = "woken"
      BY <2>4 DEF WakeUp, SymposiumInv, PlacesAgree, StateAt
    <3>2. ~ destroyed
      BY <3>1 DEF SymposiumInv, TableInv
    <3>3. pc' = [pc EXCEPT ![i] = "eat"] /\ UNCHANGED <<state, j, destroyed>>
      BY <2>4, <3>1 DEF WakeUp
    <3> QED BY <3>1, <3>2, <3>3, MoveInv DEF Places, StateAt
  <2> QED BY <1>2, <2>1, <2>2, <2>3, <2>4 DEF SymposiumTable_philosopher
<1>3. ASSUME NEW i \in Philosophers, Launch(i) \/ Collect(i)
      PROVE  SymposiumInv'
  <2>1. PICK p \in {"arrive", "collected"} :
          pc' = [pc EXCEPT ![i] = p] /\ UNCHANGED <<state, j, destroyed>>
    BY <1>3 DEF Launch, Collect
  <2>2. pc[i] \in {"none", "left"}
    BY <1>3 DEF Launch, Collect
  <2>3. ~ destroyed
    BY <2>2 DEF SymposiumInv, TableInv
  <2> QED BY <2>1, <2>2, <2>3, MoveInv DEF Places, StateAt
<1>4. CASE SymposiumTable_destroy
  BY <1>4 DEF SymposiumTable_destroy, Done, SymposiumInv, TypeOK, PlacesAgree,
              ForksAreExclusive, SleepersHaveReason, TableInv
<1> QED BY <1>1, <1>2, <1>3, <1>4 DEF Next, Host

(* The inductive invariant of the symposium, for any number of             *)
(* philosophers and of bites.                                              *)
THEOREM SymposiumInvariance == Spec => []SymposiumInv
<1> QED BY InitInv, NextInv, PTL DEF Spec

(* Neighbours never eat at the same time: trytoeat looks at both           *)
(* neighbours, and everybody who starts to eat was let in by it.           *)
THEOREM Exclusion == Spec => []ForksAreExclusive
<1>1. SymposiumInv => ForksAreExclusive
  BY DEF SymposiumInv
<1> QED BY <1>1, SymposiumInvariance, PTL

(* No signal is missed: a philosopher asleep in Cond_Wait has a neighbour  *)
(* who eats and will look after it.                                        *)
THEOREM NoMissedSignal == Spec => []SleepersHaveReason
<1>1. SymposiumInv => SleepersHaveReason
  BY DEF SymposiumInv
<1> QED BY <1>1, SymposiumInvariance, PTL

(* The table is freed only after every philosopher has left it.            *)
THEOREM TableIsSafe == Spec => []TableOutlivesPhilosophers
<1>1. SymposiumInv => TableOutlivesPhilosophers
  BY DEF SymposiumInv, TableInv, PlacesAgree, StateAt, TableOutlivesPhilosophers
<1> QED BY <1>1, SymposiumInvariance, PTL

=============================================================================
