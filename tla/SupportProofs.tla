---------------------------- MODULE SupportProofs ----------------------------
(***************************************************************************)
(* Proofs about the code that supports the kernel and its tests.           *)
(***************************************************************************)
EXTENDS Support, ListLemmas, FiniteSetTheorems, TLAPS

(***************************************************************************)
(* Exceptions.  The invariant describes the whole call stack, because a    *)
(* longjmp uncovers what has been below for long.                          *)
(***************************************************************************)
Activations == [kind : {"body", "unwind", "handler"}, frame : Nat, errcode : {0, 1}, captured : BOOLEAN]
Handlers    == [of : Nat, list : X!HandlerLists, no : Nat]
Frames      == [id : Nat, handlers : [X!HandlerLists -> Seq(Handlers)]]

BodyFrames(s)   == {s[i].frame : i \in {k \in 1 .. Len(s) : s[k].kind = "body"}}
UnwindFrames(s) == {s[i].frame : i \in {k \in 1 .. Len(s) : s[k].kind = "unwind"}}

(* exception_unwind runs on top of the body of its frame, and a handler on *)
(* top of exception_unwind.                                                *)
GoodActivation(s, i) ==
    /\ s[i].kind = "unwind" =>
         i < Len(s) /\ s[i + 1].kind = "body" /\ s[i + 1].frame = s[i].frame
    /\ s[i].kind = "handler" =>
         i < Len(s) /\ s[i + 1].kind = "unwind" /\ s[i + 1].frame = s[i].frame

GoodStack(s) ==
    /\ s \in Seq(Activations)
    /\ \A i \in 1 .. Len(s) : GoodActivation(s, i)
    /\ \A i, k \in 1 .. Len(s) :
         i < k /\ s[i].kind = "body" /\ s[k].kind = "body" => s[i].frame > s[k].frame

IsBody(s, b, f) ==
    /\ b \in 1 .. Len(s)
    /\ s[b].kind = "body" /\ s[b].frame = f
    /\ \A k \in 1 .. Len(s) : s[k].kind = "body" /\ s[k].frame = f => k = b

LEMMA ActivationType ==
    ASSUME NEW s \in Seq(Activations), NEW k \in 1 .. Len(s)
    PROVE  s[k] \in Activations /\ s[k].frame \in Nat /\ s[k].kind \in {"body", "unwind", "handler"}
<1>1. s[k] \in Activations
  OBVIOUS
<1> QED BY <1>1 DEF Activations

LEMMA BodyExists ==
    ASSUME NEW s, GoodStack(s), NEW f \in BodyFrames(s)
    PROVE  \E b \in 1 .. Len(s) : IsBody(s, b, f)
<1>1. s \in Seq(Activations) /\ Len(s) \in Nat
  BY DEF GoodStack
<1>2. PICK b \in 1 .. Len(s) : s[b].kind = "body" /\ s[b].frame = f
  BY <1>1 DEF BodyFrames
<1>3. ASSUME NEW k \in 1 .. Len(s), s[k].kind = "body", s[k].frame = f PROVE k = b
  <2>1. s[k].frame \in Nat
    BY <1>1, ActivationType
  <2> QED BY <1>1, <1>2, <1>3, <2>1 DEF GoodStack
<1> QED BY <1>2, <1>3 DEF IsBody

(* What is below a place of the stack.                                     *)
LEMMA BelowIsGood ==
    ASSUME NEW s, GoodStack(s), NEW n \in 1 .. Len(s) + 1
    PROVE  LET r == SubSeq(s, n, Len(s)) IN
           /\ GoodStack(r)
           /\ Len(r) = Len(s) - n + 1
           /\ \A i \in 1 .. Len(r) : r[i] = s[i + n - 1]
<1> DEFINE r == SubSeq(s, n, Len(s))
<1>1. s \in Seq(Activations) /\ Len(s) \in Nat
  BY DEF GoodStack
<1>2. /\ r \in Seq(Activations)
      /\ Len(r) = Len(s) - n + 1
      /\ \A i \in 1 .. Len(r) : r[i] = s[i + n - 1]
  <2>1. \A i \in n .. Len(s) : s[i] \in Activations
    BY <1>1
  <2>2. n \in Int /\ Len(s) \in Int
    BY <1>1
  <2>3. /\ r \in Seq(Activations)
        /\ Len(r) = IF n <= Len(s) THEN Len(s) - n + 1 ELSE 0
        /\ \A i \in 1 .. Len(s) - n + 1 : r[i] = s[n + i - 1]
    BY <2>1, <2>2, SubSeqProperties
  <2>4. Len(r) = Len(s) - n + 1
    BY <1>1, <2>3
  <2>5. \A i \in 1 .. Len(r) : i + n - 1 = n + i - 1
    BY <1>1, <2>4
  <2> QED BY <2>3, <2>4, <2>5
<1> HIDE DEF r
<1>3. ASSUME NEW i \in 1 .. Len(r) PROVE GoodActivation(r, i)
  <2>1. i + n - 1 \in 1 .. Len(s) /\ i + n - 1 + 1 = i + 1 + n - 1
    BY <1>1, <1>2
  <2>3. i + n - 1 < Len(s) => i < Len(r) /\ i + 1 \in 1 .. Len(r)
    BY <1>1, <1>2
  <2>4. i + n - 1 < Len(s) => r[i + 1] = s[i + n - 1 + 1]
    BY <1>2, <2>1, <2>3
  <2>2. GoodActivation(s, i + n - 1)
    BY <2>1 DEF GoodStack
  <2> QED BY <1>2, <2>2, <2>3, <2>4 DEF GoodActivation
<1>4. ASSUME NEW i \in 1 .. Len(r), NEW k \in 1 .. Len(r),
             i < k, r[i].kind = "body", r[k].kind = "body"
      PROVE  r[i].frame > r[k].frame
  <2>1. i + n - 1 \in 1 .. Len(s) /\ k + n - 1 \in 1 .. Len(s) /\ i + n - 1 < k + n - 1
    BY <1>1, <1>2, <1>4
  <2> QED BY <1>2, <1>4, <2>1 DEF GoodStack
<1> QED BY <1>2, <1>3, <1>4 DEF r, GoodStack

(* The frames whose bodies are below the one of frame f.                   *)
LEMMA BelowBody ==
    ASSUME NEW s, GoodStack(s), NEW f, NEW b, IsBody(s, b, f), NEW n \in {b, b + 1}
    PROVE  LET r == SubSeq(s, n, Len(s)) IN
           /\ BodyFrames(r) = {g \in BodyFrames(s) : g < f \/ (g = f /\ n = b)}
           /\ \A g \in UnwindFrames(s) : g < f => g \in UnwindFrames(r)
<1> DEFINE r == SubSeq(s, n, Len(s))
<1>1. s \in Seq(Activations) /\ Len(s) \in Nat /\ b \in 1 .. Len(s) /\ n \in 1 .. Len(s) + 1
  BY DEF GoodStack, IsBody
<1>2. /\ Len(r) = Len(s) - n + 1
      /\ \A i \in 1 .. Len(r) : r[i] = s[i + n - 1]
  BY <1>1, BelowIsGood
<1> HIDE DEF r
<1>3. \A k \in 1 .. Len(s) : k >= n => k - n + 1 \in 1 .. Len(r) /\ r[k - n + 1] = s[k]
  <2> TAKE k \in 1 .. Len(s)
  <2> HAVE k >= n
  <2>1. k - n + 1 \in 1 .. Len(r) /\ (k - n + 1) + n - 1 = k
    BY <1>1, <1>2
  <2> QED BY <1>2, <2>1
<1>4. \A i \in 1 .. Len(r) : i + n - 1 \in 1 .. Len(s) /\ i + n - 1 >= n
  BY <1>1, <1>2
<1>5. \A k \in 1 .. Len(s) : s[k].frame \in Nat
  BY <1>1, ActivationType
<1>6. f \in Nat /\ s[b].kind = "body" /\ s[b].frame = f
  BY <1>5 DEF IsBody
<1>7. \A k \in 1 .. Len(s) : s[k].kind = "body" =>
        (k >= n <=> s[k].frame < f \/ (s[k].frame = f /\ n = b))
  <2> SUFFICES ASSUME NEW k \in 1 .. Len(s), s[k].kind = "body"
               PROVE  k >= n <=> s[k].frame < f \/ (s[k].frame = f /\ n = b)
    OBVIOUS
  <2>1. CASE k < b
    <3>1. s[k].frame > f
      BY <1>1, <1>6, <2>1 DEF GoodStack
    <3> QED BY <1>1, <1>5, <1>6, <2>1, <3>1
  <2>2. CASE k > b
    <3>1. f > s[k].frame
      BY <1>1, <1>6, <2>2 DEF GoodStack
    <3> QED BY <1>1, <1>5, <1>6, <2>2, <3>1
  <2>3. CASE k = b
    BY <1>1, <1>6, <2>3
  <2> QED BY <1>1, <2>1, <2>2, <2>3
<1>8. ASSUME NEW g \in BodyFrames(r) PROVE g \in BodyFrames(s) /\ (g < f \/ (g = f /\ n = b))
  <2>1. PICK i \in 1 .. Len(r) : r[i].kind = "body" /\ r[i].frame = g
    BY DEF BodyFrames
  <2>2. s[i + n - 1].kind = "body" /\ s[i + n - 1].frame = g
    BY <1>2, <2>1
  <2> QED BY <1>4, <1>7, <2>2 DEF BodyFrames
<1>9. ASSUME NEW g \in BodyFrames(s), g < f \/ (g = f /\ n = b) PROVE g \in BodyFrames(r)
  <2>1. PICK k \in 1 .. Len(s) : s[k].kind = "body" /\ s[k].frame = g
    BY DEF BodyFrames
  <2>2. k >= n
    BY <1>7, <1>9, <2>1
  <2> QED BY <1>3, <2>1, <2>2 DEF BodyFrames
<1>10. ASSUME NEW g \in UnwindFrames(s), g < f PROVE g \in UnwindFrames(r)
  <2>1. PICK k \in 1 .. Len(s) : s[k].kind = "unwind" /\ s[k].frame = g
    BY DEF UnwindFrames
  <2>2. k + 1 \in 1 .. Len(s) /\ s[k + 1].kind = "body" /\ s[k + 1].frame = g
    BY <1>1, <2>1 DEF GoodStack, GoodActivation
  <2>3. k + 1 >= n /\ k + 1 # b
    BY <1>6, <1>7, <1>10, <2>2
  <2>4. k # b
    BY <1>6, <2>1
  <2>5. k >= n
    <3>1. k + 1 > b
      <4>1. CASE k + 1 < b
        BY <1>1, <2>3, <4>1
      <4> QED BY <1>1, <2>3, <4>1
    <3> QED BY <1>1, <2>4, <3>1
  <2> QED BY <1>3, <2>1, <2>5 DEF UnwindFrames
<1> QED BY <1>8, <1>9, <1>10 DEF r

(* A new activation on top.                                                *)
LEMMA PushIsGood ==
    ASSUME NEW s, GoodStack(s), NEW e \in Activations,
           e.kind = "body" => \A g \in BodyFrames(s) : e.frame > g,
           e.kind = "unwind" => s # << >> /\ s[1].kind = "body" /\ s[1].frame = e.frame,
           e.kind = "handler" => s # << >> /\ s[1].kind = "unwind" /\ s[1].frame = e.frame
    PROVE  LET r == <<e>> \o s IN
           /\ GoodStack(r)
           /\ r # << >> /\ Head(r) = e /\ r[1] = e /\ Tail(r) = s
           /\ BodyFrames(r) = BodyFrames(s) \cup (IF e.kind = "body" THEN {e.frame} ELSE {})
           /\ UnwindFrames(r) = UnwindFrames(s) \cup (IF e.kind = "unwind" THEN {e.frame} ELSE {})
<1> DEFINE r == <<e>> \o s
<1>1. s \in Seq(Activations) /\ Len(s) \in Nat
  BY DEF GoodStack
<1>2. /\ r \in Seq(Activations)
      /\ Len(r) = Len(s) + 1
      /\ r[1] = e
      /\ \A k \in 1 .. Len(s) : r[k + 1] = s[k]
      /\ Head(r) = e /\ Tail(r) = s /\ r # << >>
  BY <1>1
<1> HIDE DEF r
<1>3. \A i \in 1 .. Len(r) : i = 1 \/ (i - 1 \in 1 .. Len(s) /\ r[i] = s[i - 1])
  <2> TAKE i \in 1 .. Len(r)
  <2>1. i = 1 \/ (i - 1 \in 1 .. Len(s) /\ (i - 1) + 1 = i)
    BY <1>1, <1>2
  <2> QED BY <1>2, <2>1
<1>4. 1 \in 1 .. Len(r) /\ \A k \in 1 .. Len(s) : k + 1 \in 1 .. Len(r)
  BY <1>1, <1>2
<1>5. ASSUME NEW i \in 1 .. Len(r) PROVE GoodActivation(r, i)
  <2>1. CASE i = 1
    <3>1. s # << >> => 1 < Len(r) /\ 1 \in 1 .. Len(s) /\ r[1 + 1] = s[1]
      BY <1>1, <1>2
    <3> QED BY <1>2, <2>1, <3>1 DEF GoodActivation
  <2>2. CASE i # 1
    <3>1. i - 1 \in 1 .. Len(s) /\ r[i] = s[i - 1]
      BY <1>3, <2>2
    <3>2. GoodActivation(s, i - 1)
      BY <3>1 DEF GoodStack
    <3>3. i - 1 < Len(s) => i < Len(r) /\ i \in 1 .. Len(s) /\ (i - 1) + 1 = i
      BY <1>1, <1>2, <3>1
    <3>4. i - 1 < Len(s) => r[i + 1] = s[i]
      BY <1>2, <3>3
    <3> QED BY <3>1, <3>2, <3>3, <3>4 DEF GoodActivation
  <2> QED BY <2>1, <2>2
<1>6. ASSUME NEW i \in 1 .. Len(r), NEW k \in 1 .. Len(r), i < k, r[i].kind = "body", r[k].kind = "body"
      PROVE  r[i].frame > r[k].frame
  <2>1. k - 1 \in 1 .. Len(s) /\ r[k] = s[k - 1]
    BY <1>1, <1>2, <1>3, <1>6
  <2>2. CASE i = 1
    <3>1. s[k - 1].frame \in BodyFrames(s)
      BY <1>6, <2>1 DEF BodyFrames
    <3> QED BY <1>2, <1>6, <2>1, <2>2, <3>1
  <2>3. CASE i # 1
    <3>1. i - 1 \in 1 .. Len(s) /\ r[i] = s[i - 1] /\ i - 1 < k - 1
      BY <1>1, <1>2, <1>3, <1>6, <2>3
    <3> QED BY <1>6, <2>1, <3>1 DEF GoodStack
  <2> QED BY <2>2, <2>3
<1>7. GoodStack(r)
  BY <1>2, <1>5, <1>6 DEF GoodStack
<1>8. BodyFrames(r) = BodyFrames(s) \cup (IF e.kind = "body" THEN {e.frame} ELSE {})
  <2>1. \A g \in BodyFrames(r) : g \in BodyFrames(s) \/ (e.kind = "body" /\ g = e.frame)
    BY <1>2, <1>3 DEF BodyFrames
  <2>2. \A g \in BodyFrames(s) : g \in BodyFrames(r)
    BY <1>2, <1>4 DEF BodyFrames
  <2>3. e.kind = "body" => e.frame \in BodyFrames(r)
    BY <1>2, <1>4 DEF BodyFrames
  <2> QED BY <2>1, <2>2, <2>3
<1>9. UnwindFrames(r) = UnwindFrames(s) \cup (IF e.kind = "unwind" THEN {e.frame} ELSE {})
  <2>1. \A g \in UnwindFrames(r) : g \in UnwindFrames(s) \/ (e.kind = "unwind" /\ g = e.frame)
    BY <1>2, <1>3 DEF UnwindFrames
  <2>2. \A g \in UnwindFrames(s) : g \in UnwindFrames(r)
    BY <1>2, <1>4 DEF UnwindFrames
  <2>3. e.kind = "unwind" => e.frame \in UnwindFrames(r)
    BY <1>2, <1>4 DEF UnwindFrames
  <2> QED BY <2>1, <2>2, <2>3
<1> QED BY <1>2, <1>7, <1>8, <1>9 DEF r

-----------------------------------------------------------------------------
(* The context c follows the stack s: its frames are those of the blocks,  *)
(* which are numbered up to n.                                             *)
Ids(c) == {c[i].id : i \in 1 .. Len(c)}

Blocks(c, s, n) ==
    /\ c \in Seq(Frames)
    /\ Ids(c) = BodyFrames(s)
    /\ \A i, k \in 1 .. Len(c) : i < k => c[i].id > c[k].id
    /\ \A i \in 1 .. Len(c) : c[i].id \in 1 .. n

LEMMA FrameType ==
    ASSUME NEW c \in Seq(Frames), NEW k \in 1 .. Len(c)
    PROVE  /\ c[k] \in Frames /\ c[k].id \in Nat
           /\ c[k].handlers \in [X!HandlerLists -> Seq(Handlers)]
<1>1. c[k] \in Frames
  OBVIOUS
<1> QED BY <1>1 DEF Frames

(* The innermost body belongs to the top frame.                            *)
LEMMA TopFrame ==
    ASSUME NEW s, GoodStack(s), NEW c, NEW n \in Nat, Blocks(c, s, n), NEW p \in 1 .. Len(s),
           s[p].kind = "body", \A k \in 1 .. p - 1 : s[k].kind # "body"
    PROVE  c # << >> /\ 1 \in 1 .. Len(c) /\ c[1].id = s[p].frame /\ IsBody(s, p, c[1].id)
<1>1. s \in Seq(Activations) /\ Len(s) \in Nat /\ c \in Seq(Frames) /\ Len(c) \in Nat
  BY DEF GoodStack, Blocks
<1>2. s[p].frame \in BodyFrames(s)
  BY DEF BodyFrames
<1>3. PICK i \in 1 .. Len(c) : c[i].id = s[p].frame
  BY <1>2 DEF Blocks, Ids
<1>4. c # << >> /\ 1 \in 1 .. Len(c)
  BY <1>1, <1>3
<1>5. c[1].id = s[p].frame
  <2>1. CASE i # 1
    <3>1. c[1].id > s[p].frame
      BY <1>1, <1>3, <1>4, <2>1 DEF Blocks
    <3>2. c[1].id \in BodyFrames(s)
      BY <1>4 DEF Blocks, Ids
    <3>3. PICK k \in 1 .. Len(s) : s[k].kind = "body" /\ s[k].frame = c[1].id
      BY <3>2 DEF BodyFrames
    <3>4. s[p].frame \in Nat /\ s[k].frame \in Nat
      BY <1>1, ActivationType
    <3>5. k # p
      BY <3>1, <3>3, <3>4
    <3>6. p < k
      BY <1>1, <3>3, <3>5
    <3>7. s[p].frame > s[k].frame
      BY <3>3, <3>6 DEF GoodStack
    <3> QED BY <3>1, <3>3, <3>4, <3>7
  <2> QED BY <1>3, <2>1
<1>6. PICK b \in 1 .. Len(s) : IsBody(s, b, s[p].frame)
  BY <1>2, BodyExists
<1>7. p = b
  BY <1>6 DEF IsBody
<1> QED BY <1>4, <1>5, <1>6, <1>7

(* The top frame, by what the thread is executing.                         *)
LEMMA TopByDoing ==
    ASSUME NEW s, GoodStack(s), NEW c, NEW n \in Nat, Blocks(c, s, n), s # << >>
    PROVE  /\ s[1].kind = "body" => /\ c # << >> /\ c[1].id = s[1].frame
                                    /\ IsBody(s, 1, c[1].id) /\ c[1].id \notin UnwindFrames(s)
           /\ s[1].kind = "unwind" => /\ c # << >> /\ c[1].id = s[1].frame
                                      /\ IsBody(s, 2, c[1].id) /\ c[1].id \in UnwindFrames(s)
<1>1. s \in Seq(Activations) /\ Len(s) \in Nat /\ 1 \in 1 .. Len(s)
  BY DEF GoodStack
<1>2. ASSUME s[1].kind = "body"
      PROVE  c # << >> /\ c[1].id = s[1].frame /\ IsBody(s, 1, c[1].id) /\ c[1].id \notin UnwindFrames(s)
  <2>1. c # << >> /\ c[1].id = s[1].frame /\ IsBody(s, 1, c[1].id)
    BY <1>1, <1>2, TopFrame
  <2>2. ASSUME c[1].id \in UnwindFrames(s) PROVE FALSE
    <3>1. PICK k \in 1 .. Len(s) : s[k].kind = "unwind" /\ s[k].frame = c[1].id
      BY <2>2 DEF UnwindFrames
    <3>2. k + 1 \in 1 .. Len(s) /\ s[k + 1].kind = "body" /\ s[k + 1].frame = c[1].id
      BY <1>1, <3>1 DEF GoodStack, GoodActivation
    <3>3. k + 1 = 1
      BY <2>1, <3>2 DEF IsBody
    <3> QED BY <3>3
  <2> QED BY <2>1, <2>2
<1>3. ASSUME s[1].kind = "unwind"
      PROVE  c # << >> /\ c[1].id = s[1].frame /\ IsBody(s, 2, c[1].id) /\ c[1].id \in UnwindFrames(s)
  <2>1. 2 \in 1 .. Len(s) /\ s[2].kind = "body" /\ s[2].frame = s[1].frame
    <3>1. GoodActivation(s, 1)
      BY <1>1 DEF GoodStack
    <3>2. 1 < Len(s) /\ s[1 + 1].kind = "body" /\ s[1 + 1].frame = s[1].frame
      BY <1>3, <3>1 DEF GoodActivation
    <3> QED BY <1>1, <3>2
  <2>2. \A k \in 1 .. 2 - 1 : s[k].kind # "body"
    BY <1>3
  <2>3. c # << >> /\ c[1].id = s[2].frame /\ IsBody(s, 2, c[1].id)
    BY <2>1, <2>2, TopFrame
  <2>4. s[1].frame \in UnwindFrames(s)
    BY <1>1, <1>3 DEF UnwindFrames
  <2> QED BY <2>1, <2>3, <2>4
<1> QED BY <1>2, <1>3

(* A list of handlers of the i-th frame is replaced.                       *)
LEMMA HandlersReplaced ==
    ASSUME NEW c \in Seq(Frames), NEW i \in 1 .. Len(c), NEW l \in X!HandlerLists,
           NEW hs \in Seq(Handlers), NEW d,
           d = [c EXCEPT ![i] = [id |-> c[i].id, handlers |-> [c[i].handlers EXCEPT ![l] = hs]]]
    PROVE  /\ d \in Seq(Frames) /\ Len(d) = Len(c)
           /\ \A k \in 1 .. Len(c) : k # i => d[k] = c[k]
           /\ \A k \in 1 .. Len(c) : d[k].id = c[k].id
           /\ d[i].handlers[l] = hs
           /\ \A m \in X!HandlerLists : m # l => d[i].handlers[m] = c[i].handlers[m]
<1> DEFINE fr == [id |-> c[i].id, handlers |-> [c[i].handlers EXCEPT ![l] = hs]]
<1>1. c[i].id \in Nat /\ c[i].handlers \in [X!HandlerLists -> Seq(Handlers)]
  BY FrameType
<1>2. [c[i].handlers EXCEPT ![l] = hs] \in [X!HandlerLists -> Seq(Handlers)]
  BY <1>1
<1>3. fr \in Frames
  <2> DEFINE g == [c[i].handlers EXCEPT ![l] = hs]
  <2> HIDE DEF g
  <2>1. [id |-> c[i].id, handlers |-> g] \in Frames
    BY <1>1, <1>2 DEF Frames, g
  <2> QED BY <2>1 DEF g
<1>4. /\ fr.id = c[i].id
      /\ fr.handlers[l] = hs
      /\ \A m \in X!HandlerLists : m # l => fr.handlers[m] = c[i].handlers[m]
  BY <1>1
<1>5. d = [c EXCEPT ![i] = fr]
  OBVIOUS
<1> HIDE DEF fr
<1>6. /\ d \in Seq(Frames) /\ Len(d) = Len(c)
      /\ \A k \in 1 .. Len(c) : d[k] = IF k = i THEN fr ELSE c[k]
  <2>1. c \in [1 .. Len(c) -> Frames] /\ Len(c) \in Nat
    OBVIOUS
  <2>2. d \in [1 .. Len(c) -> Frames]
    BY <1>3, <1>5, <2>1
  <2>3. d \in Seq(Frames)
    BY <2>1, <2>2
  <2>4. Len(d) = Len(c)
    BY <2>1, <2>2, <2>3
  <2> QED BY <1>5, <2>1, <2>3, <2>4
<1> QED BY <1>4, <1>6

(* Handlers do not matter to the blocks.                                   *)
LEMMA BlocksSame ==
    ASSUME NEW c, NEW s, NEW n, Blocks(c, s, n), NEW d \in Seq(Frames), Len(d) = Len(c),
           \A k \in 1 .. Len(c) : d[k].id = c[k].id, NEW r, BodyFrames(r) = BodyFrames(s)
    PROVE  Blocks(d, r, n)
<1>1. Ids(d) = Ids(c)
  BY DEF Ids
<1> QED BY <1>1 DEF Blocks

LEMMA BlocksPushed ==
    ASSUME NEW c, NEW s, NEW n \in Nat, Blocks(c, s, n), NEW fr \in Frames, fr.id = n + 1,
           NEW r, BodyFrames(r) = BodyFrames(s) \cup {n + 1}
    PROVE  LET d == <<fr>> \o c IN
           /\ Blocks(d, r, n + 1)
           /\ Len(d) = Len(c) + 1 /\ d[1] = fr
           /\ \A k \in 1 .. Len(c) : d[k + 1] = c[k]
           /\ \A k \in 1 .. Len(d) : k = 1 \/ (k - 1 \in 1 .. Len(c) /\ d[k] = c[k - 1])
<1> DEFINE d == <<fr>> \o c
<1>1. c \in Seq(Frames) /\ Len(c) \in Nat
  BY DEF Blocks
<1>2. d \in Seq(Frames) /\ Len(d) = Len(c) + 1 /\ d[1] = fr /\ \A k \in 1 .. Len(c) : d[k + 1] = c[k]
  BY <1>1
<1> HIDE DEF d
<1>3. \A k \in 1 .. Len(d) : k = 1 \/ (k - 1 \in 1 .. Len(c) /\ d[k] = c[k - 1])
  <2> TAKE k \in 1 .. Len(d)
  <2>1. k = 1 \/ (k - 1 \in 1 .. Len(c) /\ (k - 1) + 1 = k)
    BY <1>1, <1>2
  <2> QED BY <1>2, <2>1
<1>4. Ids(d) = Ids(c) \cup {n + 1}
  <2>1. 1 \in 1 .. Len(d) /\ \A k \in 1 .. Len(c) : k + 1 \in 1 .. Len(d)
    BY <1>1, <1>2
  <2>2. \A g \in Ids(d) : g \in Ids(c) \cup {n + 1}
    BY <1>2, <1>3 DEF Ids
  <2>3. \A g \in Ids(c) \cup {n + 1} : g \in Ids(d)
    BY <1>2, <2>1 DEF Ids
  <2> QED BY <2>2, <2>3
<1>5. ASSUME NEW i \in 1 .. Len(d), NEW k \in 1 .. Len(d), i < k PROVE d[i].id > d[k].id
  <2>1. k - 1 \in 1 .. Len(c) /\ d[k] = c[k - 1]
    BY <1>1, <1>2, <1>3, <1>5
  <2>2. CASE i = 1
    <3>1. c[k - 1].id \in 1 .. n
      BY <2>1 DEF Blocks
    <3> QED BY <1>2, <2>1, <2>2, <3>1
  <2>3. CASE i # 1
    <3>1. i - 1 \in 1 .. Len(c) /\ d[i] = c[i - 1] /\ i - 1 < k - 1
      BY <1>1, <1>2, <1>3, <1>5, <2>3
    <3> QED BY <2>1, <3>1 DEF Blocks
  <2> QED BY <2>2, <2>3
<1>6. ASSUME NEW k \in 1 .. Len(d) PROVE d[k].id \in 1 .. n + 1
  <2>1. CASE k = 1
    BY <1>2, <2>1
  <2>2. CASE k # 1
    <3>1. k - 1 \in 1 .. Len(c) /\ d[k] = c[k - 1]
      BY <1>3, <2>2
    <3>2. d[k].id \in 1 .. n
      BY <3>1 DEF Blocks
    <3> QED BY <3>2
  <2> QED BY <2>1, <2>2
<1>7. Blocks(d, r, n + 1)
  BY <1>2, <1>4, <1>5, <1>6 DEF Blocks
<1> QED BY <1>2, <1>3, <1>7 DEF d

LEMMA BlocksPopped ==
    ASSUME NEW c, NEW s, NEW n \in Nat, Blocks(c, s, n), c # << >>,
           NEW r, BodyFrames(r) = {g \in BodyFrames(s) : g < c[1].id}
    PROVE  LET d == Tail(c) IN
           /\ Blocks(d, r, n)
           /\ Len(d) = Len(c) - 1
           /\ \A k \in 1 .. Len(d) : k + 1 \in 1 .. Len(c) /\ d[k] = c[k + 1] /\ d[k].id < c[1].id
<1> DEFINE d == Tail(c)
<1>1. c \in Seq(Frames) /\ Len(c) \in Nat /\ 1 \in 1 .. Len(c)
  BY DEF Blocks
<1>2. d \in Seq(Frames) /\ Len(d) = Len(c) - 1 /\ \A k \in 1 .. Len(d) : d[k] = c[k + 1]
  BY <1>1
<1> HIDE DEF d
<1>3. \A k \in 1 .. Len(d) : k + 1 \in 1 .. Len(c) /\ 1 < k + 1
  BY <1>1, <1>2
<1>4. \A k \in 1 .. Len(c) : c[k].id \in Nat
  BY <1>1, FrameType
<1>5. \A k \in 1 .. Len(d) : d[k].id < c[1].id
  <2> TAKE k \in 1 .. Len(d)
  <2>1. c[1].id > c[k + 1].id
    BY <1>1, <1>3 DEF Blocks
  <2> QED BY <1>1, <1>2, <1>3, <1>4, <2>1
<1>6. Ids(d) = {g \in Ids(c) : g < c[1].id}
  <2>1. \A g \in Ids(d) : g \in Ids(c) /\ g < c[1].id
    BY <1>2, <1>3, <1>5 DEF Ids
  <2>2. ASSUME NEW g \in Ids(c), g < c[1].id PROVE g \in Ids(d)
    <3>1. PICK k \in 1 .. Len(c) : c[k].id = g
      BY DEF Ids
    <3>2. k # 1
      BY <1>1, <1>4, <2>2, <3>1
    <3>3. k - 1 \in 1 .. Len(d) /\ (k - 1) + 1 = k
      BY <1>1, <1>2, <3>2
    <3>4. d[k - 1].id = g
      BY <1>2, <3>1, <3>3
    <3> QED BY <3>3, <3>4 DEF Ids
  <2> QED BY <2>1, <2>2
<1>7. ASSUME NEW i \in 1 .. Len(d), NEW k \in 1 .. Len(d), i < k PROVE d[i].id > d[k].id
  <2>1. i + 1 < k + 1
    BY <1>1, <1>2, <1>7
  <2> QED BY <1>2, <1>3, <2>1 DEF Blocks
<1>8. \A k \in 1 .. Len(d) : d[k].id \in 1 .. n
  BY <1>2, <1>3 DEF Blocks
<1>9. Blocks(d, r, n)
  BY <1>2, <1>6, <1>7, <1>8 DEF Blocks
<1> QED BY <1>2, <1>3, <1>5, <1>9 DEF d

-----------------------------------------------------------------------------
(* A frame with its handlers, when n handlers have been declared, those of *)
(* rs have been called, and the frames of W are being unwound: the         *)
(* handlers in its lists are its own, in the reverse order of their        *)
(* declaration; those that were called were declared later; none is called *)
(* before the frame is unwound, and no finalizer before all the catchers.  *)
FrameOK(fr, n, rs, W) ==
    /\ \A l \in X!HandlerLists : \A k \in 1 .. Len(fr.handlers[l]) :
         /\ fr.handlers[l][k].of = fr.id
         /\ fr.handlers[l][k].list = l
         /\ fr.handlers[l][k].no <= n
    /\ \A l \in X!HandlerLists : \A k, m \in 1 .. Len(fr.handlers[l]) :
         k < m => fr.handlers[l][k].no > fr.handlers[l][m].no
    /\ \A r \in 1 .. Len(rs) : rs[r].of = fr.id =>
         /\ fr.id \in W
         /\ rs[r].list = "finalizers" => fr.handlers["catchers"] = << >>
         /\ \A k \in 1 .. Len(fr.handlers[rs[r].list]) :
              rs[r].no > fr.handlers[rs[r].list][k].no

(* No finalizer is forgotten: it was called or is still in its frame.      *)
Waits(c, h) ==
    \E i \in 1 .. Len(c) : \E m \in 1 .. Len(c[i].handlers["finalizers"]) :
      c[i].handlers["finalizers"][m] = h

Called(rs, h) == \E i \in 1 .. Len(rs) : rs[i] = h

FinalizersKept(c, mk, rs) ==
    \A k \in 1 .. Len(mk) : mk[k].list = "finalizers" => Called(rs, mk[k]) \/ Waits(c, mk[k])

(* The handlers were called in the right order.                            *)
InOrder(rs) ==
    \A i, k \in 1 .. Len(rs) :
      i < k /\ rs[i].of = rs[k].of
        => IF rs[i].list = rs[k].list THEN rs[i].no > rs[k].no
           ELSE rs[k].list = "finalizers"

ExceptionsInv ==
    /\ tries \in Nat
    /\ made \in Seq(Handlers) /\ \A k \in 1 .. Len(made) : made[k].of \in 1 .. tries
    /\ ran \in Seq(Handlers) /\ \A k \in 1 .. Len(ran) : ran[k].of \in 1 .. tries
    /\ GoodStack(stack)
    /\ Blocks(context, stack, tries)
    /\ \A i \in 1 .. Len(context) : FrameOK(context[i], Len(made), ran, UnwindFrames(stack))
    /\ InOrder(ran)
    /\ FinalizersKept(context, made, ran)

(* A frame that a step does not concern.                                   *)
LEMMA FrameStays ==
    ASSUME NEW fr \in Frames, NEW n \in Nat, NEW rs, NEW W, FrameOK(fr, n, rs, W),
           NEW m \in Nat, n <= m, NEW V, fr.id \in W => fr.id \in V
    PROVE  FrameOK(fr, m, rs, V)
<1>1. ASSUME NEW l \in X!HandlerLists, NEW k \in 1 .. Len(fr.handlers[l])
      PROVE  fr.handlers[l][k].no <= m
  <2>1. fr.handlers \in [X!HandlerLists -> Seq(Handlers)]
    BY DEF Frames
  <2>2. fr.handlers[l][k] \in Handlers
    BY <2>1
  <2>3. fr.handlers[l][k].no \in Nat
    BY <2>2 DEF Handlers
  <2>4. fr.handlers[l][k].no <= n
    BY DEF FrameOK
  <2> QED BY <2>3, <2>4
<1> QED BY <1>1 DEF FrameOK

LEMMA FrameStaysCall ==
    ASSUME NEW fr, NEW n, NEW rs \in Seq(Handlers), NEW W, FrameOK(fr, n, rs, W),
           NEW h \in Handlers, h.of # fr.id
    PROVE  FrameOK(fr, n, Append(rs, h), W)
<1>1. \A r \in 1 .. Len(Append(rs, h)) : Append(rs, h)[r].of = fr.id => r \in 1 .. Len(rs) /\ Append(rs, h)[r] = rs[r]
  OBVIOUS
<1> QED BY <1>1 DEF FrameOK

LEMMA FinalizersStay ==
    ASSUME NEW c, NEW mk, NEW rs, FinalizersKept(c, mk, rs), NEW d,
           \A i \in 1 .. Len(c) : \E k \in 1 .. Len(d) :
             d[k].handlers["finalizers"] = c[i].handlers["finalizers"]
    PROVE  FinalizersKept(d, mk, rs)
<1>1. ASSUME NEW h, Waits(c, h) PROVE Waits(d, h)
  <2>1. PICK i \in 1 .. Len(c) : \E m \in 1 .. Len(c[i].handlers["finalizers"]) :
          c[i].handlers["finalizers"][m] = h
    BY <1>1 DEF Waits
  <2>2. PICK k \in 1 .. Len(d) : d[k].handlers["finalizers"] = c[i].handlers["finalizers"]
    OBVIOUS
  <2> QED BY <2>1, <2>2 DEF Waits
<1> QED BY <1>1 DEF FinalizersKept

-----------------------------------------------------------------------------
(* The steps.                                                              *)
LEMMA InitExceptions == X!Init => ExceptionsInv
<1> SUFFICES ASSUME X!Init PROVE ExceptionsInv
  OBVIOUS
<1>1. context = << >> /\ stack = << >> /\ tries = 0 /\ made = << >> /\ ran = << >>
  BY DEF X!Init
<1>2. /\ \A S : << >> \in Seq(S)
      /\ Len(<< >>) = 0 /\ 1 .. 0 = {}
  OBVIOUS
<1>3. GoodStack(<< >>)
  BY <1>2 DEF GoodStack
<1>4. Blocks(<< >>, << >>, 0)
  BY <1>2 DEF Blocks, Ids, BodyFrames
<1> QED BY <1>1, <1>2, <1>3, <1>4 DEF ExceptionsInv, InOrder, FinalizersKept

LEMMA ActivationMade ==
    ASSUME NEW what \in {"body", "unwind", "handler"}, NEW f \in Nat, NEW err \in {0, 1}, NEW capt \in BOOLEAN
    PROVE  LET e == X!Activation(what, f, err, capt) IN
           e \in Activations /\ e.kind = what /\ e.frame = f /\ e.errcode = err /\ e.captured = capt
  BY DEF X!Activation, Activations

LEMMA TryKeeps == ASSUME ExceptionsInv, X!TRY_WITH PROVE ExceptionsInv'
<1>1. /\ tries \in Nat /\ tries' = tries + 1
      /\ context' = <<X!NewFrame(tries + 1)>> \o context
      /\ stack' = <<X!Body(tries + 1)>> \o stack
      /\ made' = made /\ ran' = ran
  BY DEF ExceptionsInv, X!TRY_WITH
<1>2. Blocks(context, stack, tries) /\ GoodStack(stack) /\ context \in Seq(Frames)
  BY DEF ExceptionsInv, Blocks
<1> DEFINE fr == X!NewFrame(tries + 1)
           e  == X!Body(tries + 1)
<1>3. fr \in Frames /\ fr.id = tries + 1 /\ \A l \in X!HandlerLists : fr.handlers[l] = << >>
  <2> DEFINE g == [l \in X!HandlerLists |-> << >>]
  <2>1. g \in [X!HandlerLists -> Seq(Handlers)] /\ \A l \in X!HandlerLists : g[l] = << >>
    OBVIOUS
  <2> HIDE DEF g
  <2>2. fr = [id |-> tries + 1, handlers |-> g]
    BY DEF X!NewFrame, g
  <2>3. tries + 1 \in Nat
    BY <1>1
  <2> HIDE DEF fr
  <2> QED BY <2>1, <2>2, <2>3 DEF Frames
<1>4. e \in Activations /\ e.kind = "body" /\ e.frame = tries + 1
  <2>1. tries + 1 \in Nat
    BY <1>1
  <2> QED BY <2>1, ActivationMade DEF X!Body
<1> HIDE DEF fr, e
<1>5. \A g \in BodyFrames(stack) : g \in 1 .. tries
  BY <1>2 DEF Blocks, Ids
<1>6. /\ GoodStack(stack')
      /\ BodyFrames(stack') = BodyFrames(stack) \cup {tries + 1}
      /\ UnwindFrames(stack') = UnwindFrames(stack)
  <2>1. \A g \in BodyFrames(stack) : e.frame > g
    BY <1>1, <1>4, <1>5
  <2>2. LET r == <<e>> \o stack IN
        /\ GoodStack(r)
        /\ BodyFrames(r) = BodyFrames(stack) \cup (IF e.kind = "body" THEN {e.frame} ELSE {})
        /\ UnwindFrames(r) = UnwindFrames(stack) \cup (IF e.kind = "unwind" THEN {e.frame} ELSE {})
    BY <1>2, <1>4, <2>1, PushIsGood
  <2>3. stack' = <<e>> \o stack
    BY <1>1 DEF e
  <2> QED BY <1>4, <2>2, <2>3
<1>7. /\ Blocks(context', stack', tries + 1)
      /\ Len(context') = Len(context) + 1 /\ context'[1] = fr
      /\ \A k \in 1 .. Len(context) : context'[k + 1] = context[k]
      /\ \A k \in 1 .. Len(context') : k = 1 \/ (k - 1 \in 1 .. Len(context) /\ context'[k] = context[k - 1])
  <2>1. context' = <<fr>> \o context
    BY <1>1 DEF fr
  <2>2. LET d == <<fr>> \o context IN
        /\ Blocks(d, stack', tries + 1)
        /\ Len(d) = Len(context) + 1 /\ d[1] = fr
        /\ \A k \in 1 .. Len(context) : d[k + 1] = context[k]
        /\ \A k \in 1 .. Len(d) : k = 1 \/ (k - 1 \in 1 .. Len(context) /\ d[k] = context[k - 1])
    <3>1. \A r : BodyFrames(r) = BodyFrames(stack) \cup {tries + 1} =>
            LET d == <<fr>> \o context IN
            /\ Blocks(d, r, tries + 1)
            /\ Len(d) = Len(context) + 1 /\ d[1] = fr
            /\ \A k \in 1 .. Len(context) : d[k + 1] = context[k]
            /\ \A k \in 1 .. Len(d) : k = 1 \/ (k - 1 \in 1 .. Len(context) /\ d[k] = context[k - 1])
      <4>1. tries \in Nat
        BY <1>1
      <4> QED BY <4>1, <1>2, <1>3, BlocksPushed
    <3> QED BY <3>1, <1>6
  <2> QED BY <2>1, <2>2
<1>8. ASSUME NEW k \in 1 .. Len(context') PROVE FrameOK(context'[k], Len(made), ran, UnwindFrames(stack))
  <2>1. CASE k = 1
    <3>1. \A r \in 1 .. Len(ran) : ran[r].of # tries + 1
      <4>1. \A r \in 1 .. Len(ran) : ran[r].of \in 1 .. tries
        BY DEF ExceptionsInv
      <4> QED BY <1>1, <4>1
    <3>2. FrameOK(fr, Len(made), ran, UnwindFrames(stack))
      BY <1>3, <3>1 DEF FrameOK
    <3> QED BY <1>7, <2>1, <3>2
  <2>2. CASE k # 1
    BY <1>7, <2>2 DEF ExceptionsInv
  <2> QED BY <2>1, <2>2
<1>9. FinalizersKept(context', made, ran)
  <2>1. Len(context) \in Nat
    BY <1>2
  <2>2. \A i \in 1 .. Len(context) : i + 1 \in 1 .. Len(context') /\ context'[i + 1] = context[i]
    BY <1>7, <2>1
  <2> QED BY <2>2, FinalizersStay DEF ExceptionsInv
<1>10. \A k \in 1 .. Len(made) : made[k].of \in 1 .. tries + 1
  <2>1. \A k \in 1 .. Len(made) : made[k].of \in 1 .. tries
    BY DEF ExceptionsInv
  <2> QED BY <1>1, <2>1
<1>11. \A k \in 1 .. Len(ran) : ran[k].of \in 1 .. tries + 1
  <2>1. \A k \in 1 .. Len(ran) : ran[k].of \in 1 .. tries
    BY DEF ExceptionsInv
  <2> QED BY <1>1, <2>1
<1>12. tries + 1 \in Nat
  BY <1>1
<1>13. made \in Seq(Handlers) /\ ran \in Seq(Handlers) /\ InOrder(ran)
  BY DEF ExceptionsInv
<1> QED BY <1>1, <1>6, <1>7, <1>8, <1>9, <1>10, <1>11, <1>12, <1>13 DEF ExceptionsInv

(* What all steps but TRY_WITH share: if the stack and the frames are all  *)
(* right, the invariant holds.                                             *)
LEMMA UnwindFrameStays ==
    ASSUME ExceptionsInv, NEW V, NEW i \in 1 .. Len(context),
           context[i].id \in UnwindFrames(stack) => context[i].id \in V
    PROVE  FrameOK(context[i], Len(made), ran, V)
<1>1. context \in Seq(Frames) /\ made \in Seq(Handlers)
  BY DEF ExceptionsInv, Blocks
<1>2. context[i] \in Frames /\ Len(made) \in Nat
  BY <1>1
<1>3. FrameOK(context[i], Len(made), ran, UnwindFrames(stack))
  BY DEF ExceptionsInv
<1>4. Len(made) <= Len(made)
  BY <1>2
<1> QED BY <1>2, <1>3, <1>4, FrameStays

(* What the thread is doing is on top of the stack.                        *)
LEMMA DoingIsTop ==
    ASSUME GoodStack(stack)
    PROVE  /\ X!InBody <=> stack # << >> /\ stack[1].kind = "body"
           /\ X!Unwinds <=> stack # << >> /\ stack[1].kind = "unwind"
           /\ X!Doing = "handler" <=> stack # << >> /\ stack[1].kind = "handler"
           /\ stack # << >> => Head(stack) = stack[1] /\ stack[1] \in Activations
<1>1. stack \in Seq(Activations)
  BY DEF GoodStack
<1>2. stack # << >> => Head(stack) = stack[1] /\ stack[1] \in Activations
  BY <1>1
<1> QED BY <1>2 DEF X!InBody, X!Unwinds, X!Doing

LEMMA Prepended ==
    ASSUME NEW S, NEW hs \in Seq(S), NEW h \in S
    PROVE  LET r == <<h>> \o hs IN
           /\ r \in Seq(S) /\ Len(r) = Len(hs) + 1 /\ r[1] = h
           /\ 1 \in 1 .. Len(r)
           /\ \A k \in 1 .. Len(hs) : k + 1 \in 1 .. Len(r) /\ r[k + 1] = hs[k]
           /\ \A k \in 1 .. Len(r) : k = 1 \/ (k - 1 \in 1 .. Len(hs) /\ r[k] = hs[k - 1])
<1> DEFINE r == <<h>> \o hs
<1>1. r \in Seq(S) /\ Len(r) = Len(hs) + 1 /\ r[1] = h /\ \A k \in 1 .. Len(hs) : r[k + 1] = hs[k]
  OBVIOUS
<1>2. Len(hs) \in Nat
  OBVIOUS
<1> HIDE DEF r
<1>3. 1 \in 1 .. Len(r) /\ \A k \in 1 .. Len(hs) : k + 1 \in 1 .. Len(r)
  BY <1>1, <1>2
<1>4. \A k \in 1 .. Len(r) : k = 1 \/ (k - 1 \in 1 .. Len(hs) /\ r[k] = hs[k - 1])
  <2> TAKE k \in 1 .. Len(r)
  <2>1. k = 1 \/ (k - 1 \in 1 .. Len(hs) /\ (k - 1) + 1 = k)
    BY <1>1, <1>2
  <2> QED BY <1>1, <2>1
<1> QED BY <1>1, <1>3, <1>4 DEF r

LEMMA HandlerType ==
    ASSUME NEW fr \in Frames, NEW l \in X!HandlerLists
    PROVE  /\ fr.handlers[l] \in Seq(Handlers) /\ Len(fr.handlers[l]) \in Nat
           /\ \A k \in 1 .. Len(fr.handlers[l]) :
                fr.handlers[l][k] \in Handlers /\ fr.handlers[l][k].no \in Nat
<1>1. fr.handlers \in [X!HandlerLists -> Seq(Handlers)]
  BY DEF Frames
<1>2. fr.handlers[l] \in Seq(Handlers)
  BY <1>1
<1>3. \A k \in 1 .. Len(fr.handlers[l]) : fr.handlers[l][k] \in Handlers
  BY <1>2
<1>4. \A x \in Handlers : x.no \in Nat
  BY DEF Handlers
<1> QED BY <1>2, <1>3, <1>4

(* A block that is executing declares a handler.                           *)
LEMMA FrameDeclares ==
    ASSUME NEW fr \in Frames, NEW n \in Nat, NEW rs, NEW W, FrameOK(fr, n, rs, W), fr.id \notin W,
           NEW l \in X!HandlerLists, NEW h \in Handlers, h.of = fr.id, h.list = l, h.no = n + 1,
           NEW fd, fd.id = fr.id, fd.handlers[l] = <<h>> \o fr.handlers[l],
           \A m \in X!HandlerLists : m # l => fd.handlers[m] = fr.handlers[m]
    PROVE  FrameOK(fd, n + 1, rs, W)
<1> DEFINE hs == fr.handlers[l]
           ds == fd.handlers[l]
<1>1. hs \in Seq(Handlers) /\ \A k \in 1 .. Len(hs) : hs[k].no \in Nat
  BY HandlerType
<1>2. /\ Len(ds) = Len(hs) + 1 /\ ds[1] = h
      /\ \A k \in 1 .. Len(ds) : k = 1 \/ (k - 1 \in 1 .. Len(hs) /\ ds[k] = hs[k - 1])
  BY <1>1, Prepended
<1>3. \A k \in 1 .. Len(hs) : hs[k].of = fr.id /\ hs[k].list = l /\ hs[k].no <= n
  BY DEF FrameOK
<1>4. \A k, m \in 1 .. Len(hs) : k < m => hs[k].no > hs[m].no
  BY DEF FrameOK
<1>5. Len(hs) \in Nat
  BY <1>1
<1> HIDE DEF hs, ds
<1>6. \A k \in 1 .. Len(ds) : ds[k].of = fr.id /\ ds[k].list = l /\ ds[k].no <= n + 1
  <2> TAKE k \in 1 .. Len(ds)
  <2>1. CASE k = 1
    BY <1>2, <2>1
  <2>2. CASE k # 1
    BY <1>1, <1>2, <1>3, <2>2
  <2> QED BY <2>1, <2>2
<1>7. ASSUME NEW k \in 1 .. Len(ds), NEW m \in 1 .. Len(ds), k < m PROVE ds[k].no > ds[m].no
  <2>1. m - 1 \in 1 .. Len(hs) /\ ds[m] = hs[m - 1]
    BY <1>2, <1>5, <1>7
  <2>2. CASE k = 1
    BY <1>1, <1>2, <1>3, <2>1, <2>2
  <2>3. CASE k # 1
    <3>1. k - 1 \in 1 .. Len(hs) /\ ds[k] = hs[k - 1] /\ k - 1 < m - 1
      BY <1>2, <1>5, <1>7, <2>3
    <3> QED BY <1>4, <2>1, <3>1
  <2> QED BY <2>2, <2>3
<1>8. ASSUME NEW q \in X!HandlerLists, q # l, NEW k \in 1 .. Len(fr.handlers[q]) PROVE fr.handlers[q][k].no <= n + 1
  <2>1. fr.handlers[q][k].no \in Nat /\ fr.handlers[q][k].no <= n
    BY HandlerType DEF FrameOK
  <2> QED BY <2>1
<1>9. \A q \in X!HandlerLists : \A k \in 1 .. Len(fd.handlers[q]) :
        fd.handlers[q][k].of = fd.id /\ fd.handlers[q][k].list = q /\ fd.handlers[q][k].no <= n + 1
  <2> TAKE q \in X!HandlerLists
  <2>1. CASE q = l
    BY <1>6, <2>1 DEF ds
  <2>2. CASE q # l
    BY <1>8, <2>2 DEF FrameOK
  <2> QED BY <2>1, <2>2
<1>10. \A q \in X!HandlerLists : \A k, m \in 1 .. Len(fd.handlers[q]) :
         k < m => fd.handlers[q][k].no > fd.handlers[q][m].no
  <2> TAKE q \in X!HandlerLists
  <2>1. CASE q = l
    BY <1>7, <2>1 DEF ds
  <2>2. CASE q # l
    BY <2>2 DEF FrameOK
  <2> QED BY <2>1, <2>2
<1>11. \A r \in 1 .. Len(rs) : rs[r].of # fd.id
  BY DEF FrameOK
<1> QED BY <1>9, <1>10, <1>11 DEF FrameOK

(* A block ends: its catchers are dropped, and none of its handlers has    *)
(* been called.                                                            *)
LEMMA FrameEnds ==
    ASSUME NEW fr, NEW n, NEW rs, NEW W, FrameOK(fr, n, rs, W), fr.id \notin W, NEW V,
           NEW fd, fd.id = fr.id, fd.handlers["catchers"] = << >>,
           fd.handlers["finalizers"] = fr.handlers["finalizers"]
    PROVE  FrameOK(fd, n, rs, V)
<1>1. \A l \in X!HandlerLists : fd.handlers[l] = << >> \/ fd.handlers[l] = fr.handlers[l]
  BY DEF X!HandlerLists
<1>2. Len(<< >>) = 0 /\ 1 .. 0 = {}
  OBVIOUS
<1>3. \A r \in 1 .. Len(rs) : rs[r].of # fd.id
  BY DEF FrameOK
<1> QED BY <1>1, <1>2, <1>3 DEF FrameOK

(* exception_unwind calls the first handler of a list.                     *)
LEMMA FrameCalls ==
    ASSUME NEW fr \in Frames, NEW n, NEW rs \in Seq(Handlers), NEW W, FrameOK(fr, n, rs, W), fr.id \in W,
           NEW l \in X!HandlerLists, fr.handlers[l] # << >>,
           l = "finalizers" => fr.handlers["catchers"] = << >>,
           NEW fd, fd.id = fr.id, fd.handlers[l] = Tail(fr.handlers[l]),
           \A m \in X!HandlerLists : m # l => fd.handlers[m] = fr.handlers[m], InOrder(rs)
    PROVE  LET h == Head(fr.handlers[l]) IN
           /\ h \in Handlers /\ h.of = fr.id
           /\ FrameOK(fd, n, Append(rs, h), W)
           /\ InOrder(Append(rs, h))
<1> DEFINE hs == fr.handlers[l]
           ds == fd.handlers[l]
           h  == Head(hs)
           as == Append(rs, h)
<1>1. hs \in Seq(Handlers) /\ Len(hs) \in Nat /\ \A k \in 1 .. Len(hs) : hs[k].no \in Nat
  BY HandlerType
<1>2. /\ Len(ds) = Len(hs) - 1 /\ \A k \in 1 .. Len(ds) : ds[k] = hs[k + 1]
      /\ h = hs[1] /\ h \in Handlers
  BY <1>1
<1>3. /\ \A k \in 1 .. Len(hs) : hs[k].of = fr.id /\ hs[k].list = l /\ hs[k].no <= n
      /\ \A k, m \in 1 .. Len(hs) : k < m => hs[k].no > hs[m].no
  BY DEF FrameOK
<1>4. 1 \in 1 .. Len(hs) /\ \A k \in 1 .. Len(ds) : k + 1 \in 1 .. Len(hs) /\ 1 < k + 1
  BY <1>1, <1>2
<1>5. h.of = fr.id /\ h.list = l /\ \A k \in 1 .. Len(ds) : h.no > ds[k].no
  BY <1>2, <1>3, <1>4
<1>6. Len(rs) \in Nat /\ Len(as) = Len(rs) + 1
      /\ \A r \in 1 .. Len(as) : (r \in 1 .. Len(rs) /\ as[r] = rs[r]) \/ (r = Len(rs) + 1 /\ as[r] = h)
  BY <1>2
<1>7. l \in {"catchers", "finalizers"}
  BY DEF X!HandlerLists
<1> HIDE DEF hs, ds, h, as
<1>8. \A q \in X!HandlerLists : \A k \in 1 .. Len(fd.handlers[q]) :
        fd.handlers[q][k].of = fd.id /\ fd.handlers[q][k].list = q /\ fd.handlers[q][k].no <= n
  <2> TAKE q \in X!HandlerLists
  <2>1. CASE q = l
    BY <1>2, <1>3, <1>4, <2>1 DEF ds
  <2>2. CASE q # l
    BY <2>2 DEF FrameOK
  <2> QED BY <2>1, <2>2
<1>9. \A q \in X!HandlerLists : \A k, m \in 1 .. Len(fd.handlers[q]) :
         k < m => fd.handlers[q][k].no > fd.handlers[q][m].no
  <2> TAKE q \in X!HandlerLists
  <2>1. CASE q = l
    <3>1. ASSUME NEW k \in 1 .. Len(ds), NEW m \in 1 .. Len(ds), k < m PROVE ds[k].no > ds[m].no
      <4>1. k + 1 < m + 1
        BY <1>1, <1>2, <3>1
      <4> QED BY <1>2, <1>3, <1>4, <4>1
    <3> QED BY <2>1, <3>1 DEF ds
  <2>2. CASE q # l
    BY <2>2 DEF FrameOK
  <2> QED BY <2>1, <2>2
<1>10. ASSUME NEW r \in 1 .. Len(rs), rs[r].of = fr.id
       PROVE  /\ rs[r].list \in X!HandlerLists
              /\ rs[r].list = "finalizers" => l = "finalizers"
              /\ rs[r].list = l => rs[r].no > h.no
              /\ \A k \in 1 .. Len(fd.handlers[rs[r].list]) : rs[r].no > fd.handlers[rs[r].list][k].no
  <2>1. rs[r] \in Handlers
    OBVIOUS
  <2>2. rs[r].list \in X!HandlerLists
    BY <2>1 DEF Handlers
  <2>3. /\ rs[r].list = "finalizers" => fr.handlers["catchers"] = << >>
        /\ \A k \in 1 .. Len(fr.handlers[rs[r].list]) : rs[r].no > fr.handlers[rs[r].list][k].no
    BY <1>10 DEF FrameOK
  <2>4. rs[r].list = "finalizers" => l = "finalizers"
    BY <1>7, <2>3
  <2>5. rs[r].list = l => rs[r].no > h.no
    BY <1>2, <1>4, <2>3 DEF hs
  <2>6. ASSUME NEW k \in 1 .. Len(fd.handlers[rs[r].list]) PROVE rs[r].no > fd.handlers[rs[r].list][k].no
    <3>1. CASE rs[r].list = l
      <4>1. ds[k] = hs[k + 1] /\ k + 1 \in 1 .. Len(hs)
        BY <1>2, <1>4, <3>1, <2>6 DEF ds
      <4>2. rs[r].no > hs[k + 1].no
        BY <2>3, <3>1, <4>1 DEF hs
      <4> QED BY <3>1, <4>1, <4>2 DEF ds
    <3>2. CASE rs[r].list # l
      BY <2>2, <2>3, <2>6, <3>2
    <3> QED BY <3>1, <3>2
  <2> QED BY <2>2, <2>4, <2>5, <2>6
<1>11. ASSUME NEW r \in 1 .. Len(as), as[r].of = fd.id
       PROVE  /\ fd.id \in W
              /\ as[r].list = "finalizers" => fd.handlers["catchers"] = << >>
              /\ \A k \in 1 .. Len(fd.handlers[as[r].list]) : as[r].no > fd.handlers[as[r].list][k].no
  <2>1. l = "finalizers" => fd.handlers["catchers"] = << >>
    BY DEF X!HandlerLists
  <2>2. CASE r \in 1 .. Len(rs) /\ as[r] = rs[r]
    <3>1. rs[r].list = "finalizers" => l = "finalizers"
      BY <1>10, <1>11, <2>2
    <3>2. \A k \in 1 .. Len(fd.handlers[rs[r].list]) : rs[r].no > fd.handlers[rs[r].list][k].no
      BY <1>10, <1>11, <2>2
    <3> QED BY <2>1, <2>2, <3>1, <3>2
  <2>3. CASE as[r] = h
    BY <1>5, <2>1, <2>3 DEF ds
  <2> QED BY <1>6, <2>2, <2>3
<1>12. FrameOK(fd, n, as, W)
  BY <1>8, <1>9, <1>11 DEF FrameOK
<1>13. InOrder(as)
  <2> SUFFICES ASSUME NEW i \in 1 .. Len(as), NEW k \in 1 .. Len(as), i < k, as[i].of = as[k].of
               PROVE  IF as[i].list = as[k].list THEN as[i].no > as[k].no ELSE as[k].list = "finalizers"
    BY DEF InOrder
  <2>1. i \in 1 .. Len(rs) /\ as[i] = rs[i]
    <3>1. i # Len(rs) + 1
      BY <1>6
    <3> QED BY <1>6, <3>1
  <2>2. CASE k \in 1 .. Len(rs) /\ as[k] = rs[k]
    BY <2>1, <2>2 DEF InOrder
  <2>3. CASE as[k] = h
    <3>1. rs[i].of = fr.id
      BY <1>5, <2>1, <2>3
    <3>2. /\ rs[i].list \in X!HandlerLists
          /\ rs[i].list = "finalizers" => l = "finalizers"
          /\ rs[i].list = l => rs[i].no > h.no
      BY <1>10, <2>1, <3>1
    <3> QED BY <1>5, <1>7, <2>1, <2>3, <3>2 DEF X!HandlerLists
  <2> QED BY <1>6, <2>2, <2>3
<1> QED BY <1>2, <1>5, <1>12, <1>13 DEF h, as, hs

-----------------------------------------------------------------------------
(* The stack without its top.                                              *)
LEMMA TopOff ==
    ASSUME NEW s, GoodStack(s), s # << >>
    PROVE  LET r == Tail(s) IN
           /\ GoodStack(r)
           /\ s[1].kind = "unwind" => r # << >> /\ r[1].kind = "body" /\ r[1].frame = s[1].frame
           /\ BodyFrames(s) = BodyFrames(r) \cup (IF s[1].kind = "body" THEN {s[1].frame} ELSE {})
           /\ UnwindFrames(s) = UnwindFrames(r) \cup (IF s[1].kind = "unwind" THEN {s[1].frame} ELSE {})
<1> DEFINE r == SubSeq(s, 2, Len(s))
           e == s[1]
<1>1. s \in Seq(Activations) /\ Len(s) \in Nat /\ 1 \in 1 .. Len(s)
  BY DEF GoodStack
<1>2. Tail(s) = r
  BY <1>1, TailIsSubSeq
<1>3. /\ GoodStack(r) /\ Len(r) = Len(s) - 1
      /\ \A i \in 1 .. Len(r) : r[i] = s[i + 1]
  <2>1. 2 \in 1 .. Len(s) + 1
    BY <1>1
  <2>2. GoodStack(r) /\ Len(r) = Len(s) - 2 + 1 /\ \A i \in 1 .. Len(r) : r[i] = s[i + 2 - 1]
    BY <2>1, BelowIsGood
  <2>3. \A i \in 1 .. Len(r) : i + 2 - 1 = i + 1
    OBVIOUS
  <2>4. Len(s) - 2 + 1 = Len(s) - 1
    BY <1>1
  <2> QED BY <2>2, <2>3, <2>4
<1>4. r \in Seq(Activations) /\ Len(r) \in Nat /\ \A i \in 1 .. Len(r) : i + 1 \in 1 .. Len(s) /\ 1 < i + 1
  <2>1. r \in Seq(Activations)
    BY <1>3 DEF GoodStack
  <2> HIDE DEF r
  <2> QED BY <1>1, <1>3, <2>1
<1> HIDE DEF r
<1>5. s = <<e>> \o r
  <2> DEFINE u == <<e>> \o r
  <2>1. e \in Activations
    BY <1>1
  <2>2. /\ u \in Seq(Activations) /\ Len(u) = Len(r) + 1 /\ u[1] = e
        /\ \A k \in 1 .. Len(u) : k = 1 \/ (k - 1 \in 1 .. Len(r) /\ u[k] = r[k - 1])
    BY <1>4, <2>1, Prepended
  <2>3. Len(u) = Len(s)
    BY <1>1, <1>3, <2>2
  <2> HIDE DEF u
  <2>4. ASSUME NEW k \in 1 .. Len(s) PROVE u[k] = s[k]
    <3>1. CASE k = 1
      BY <2>2, <3>1
    <3>2. CASE k # 1
      <4>1. k - 1 \in 1 .. Len(r) /\ u[k] = r[k - 1] /\ (k - 1) + 1 = k
        BY <2>2, <2>3, <3>2
      <4> QED BY <1>3, <4>1
    <3> QED BY <3>1, <3>2
  <2>5. u = s
    BY <1>1, <2>2, <2>3, <2>4, SeqEqual
  <2> QED BY <2>5 DEF u
<1>6. \A i \in 1 .. Len(s) : GoodActivation(s, i)
  BY DEF GoodStack
<1>7. /\ e.kind = "unwind" => r # << >> /\ r[1].kind = "body" /\ r[1].frame = e.frame
      /\ e.kind = "handler" => r # << >> /\ r[1].kind = "unwind" /\ r[1].frame = e.frame
  <2>1. 1 < Len(s) => 1 \in 1 .. Len(r) /\ r # << >> /\ r[1] = s[1 + 1]
    BY <1>1, <1>3, <1>4
  <2> QED BY <1>1, <1>6, <2>1 DEF GoodActivation
<1>8. e.kind = "body" => \A g \in BodyFrames(r) : e.frame > g
  <2> SUFFICES ASSUME e.kind = "body", NEW i \in 1 .. Len(r), r[i].kind = "body" PROVE e.frame > r[i].frame
    BY DEF BodyFrames
  <2>1. i + 1 \in 1 .. Len(s) /\ 1 < i + 1 /\ r[i] = s[i + 1]
    BY <1>3, <1>4
  <2> QED BY <1>1, <2>1 DEF GoodStack
<1>9. e \in Activations
  BY <1>1
<1> HIDE DEF e
<1>10. /\ BodyFrames(<<e>> \o r) = BodyFrames(r) \cup (IF e.kind = "body" THEN {e.frame} ELSE {})
       /\ UnwindFrames(<<e>> \o r) = UnwindFrames(r) \cup (IF e.kind = "unwind" THEN {e.frame} ELSE {})
  BY <1>3, <1>7, <1>8, <1>9, PushIsGood
<1> QED BY <1>2, <1>3, <1>5, <1>7, <1>10 DEF e

(* exception_unwind goes on with another state, and calls a handler.       *)
LEMMA TopReplaced ==
    ASSUME NEW s, GoodStack(s), s # << >>, s[1].kind = "unwind",
           NEW e \in Activations, e.kind = "unwind", e.frame = s[1].frame,
           NEW a \in Activations, a.kind = "handler", a.frame = s[1].frame
    PROVE  LET r == <<a, e>> \o Tail(s) IN
           GoodStack(r) /\ BodyFrames(r) = BodyFrames(s) /\ UnwindFrames(r) = UnwindFrames(s)
<1> DEFINE u == Tail(s)
           v == <<e>> \o u
           r == <<a>> \o v
<1>1. /\ GoodStack(u)
      /\ u # << >> /\ u[1].kind = "body" /\ u[1].frame = s[1].frame
      /\ BodyFrames(s) = BodyFrames(u) \cup (IF s[1].kind = "body" THEN {s[1].frame} ELSE {})
      /\ UnwindFrames(s) = UnwindFrames(u) \cup (IF s[1].kind = "unwind" THEN {s[1].frame} ELSE {})
  BY TopOff
<1> HIDE DEF u
<1>2. /\ GoodStack(v) /\ v # << >> /\ v[1] = e
      /\ BodyFrames(v) = BodyFrames(u) \cup (IF e.kind = "body" THEN {e.frame} ELSE {})
      /\ UnwindFrames(v) = UnwindFrames(u) \cup (IF e.kind = "unwind" THEN {e.frame} ELSE {})
  <2>1. e.kind # "body" /\ e.kind # "handler" /\ u # << >> /\ u[1].kind = "body" /\ u[1].frame = e.frame
    BY <1>1
  <2>2. GoodStack(u)
    BY <1>1
  <2> QED BY <2>1, <2>2, PushIsGood
<1> HIDE DEF v
<1>3. /\ GoodStack(r)
      /\ BodyFrames(r) = BodyFrames(v) \cup (IF a.kind = "body" THEN {a.frame} ELSE {})
      /\ UnwindFrames(r) = UnwindFrames(v) \cup (IF a.kind = "unwind" THEN {a.frame} ELSE {})
  <2>1. a.kind # "body" /\ a.kind # "unwind" /\ v # << >> /\ v[1].kind = "unwind" /\ v[1].frame = a.frame
    BY <1>2
  <2>2. GoodStack(v)
    BY <1>2
  <2> QED BY <2>1, <2>2, PushIsGood
<1>4. r = <<a, e>> \o Tail(s)
  <2>1. u \in Seq(Activations)
    BY <1>1 DEF GoodStack
  <2> QED BY <2>1 DEF v, u
<1> QED BY <1>1, <1>2, <1>3, <1>4

LEMMA BodyIs ==
    ASSUME GoodStack(stack), NEW f, NEW b, IsBody(stack, b, f)
    PROVE  X!BodyOf(f) = b
<1>1. DOMAIN stack = 1 .. Len(stack)
  BY DEF GoodStack
<1> QED BY <1>1 DEF IsBody, X!BodyOf

(* longjmp to the block of frame f, which is then unwound.                 *)
LEMMA JumpIsGood ==
    ASSUME NEW s, GoodStack(s), NEW f, NEW b, IsBody(s, b, f)
    PROVE  LET r == <<X!Unwind(f, 1)>> \o SubSeq(s, b, Len(s)) IN
           /\ GoodStack(r)
           /\ BodyFrames(r) = {g \in BodyFrames(s) : g < f \/ g = f}
           /\ f \in UnwindFrames(r)
           /\ \A g \in UnwindFrames(s) : g < f => g \in UnwindFrames(r)
<1> DEFINE u == SubSeq(s, b, Len(s))
           e == X!Unwind(f, 1)
           r == <<e>> \o u
<1>1. s \in Seq(Activations) /\ Len(s) \in Nat /\ b \in 1 .. Len(s) /\ s[b].kind = "body" /\ s[b].frame = f
  BY DEF GoodStack, IsBody
<1>2. f \in Nat
  BY <1>1, ActivationType
<1>3. e \in Activations /\ e.kind = "unwind" /\ e.frame = f
  BY <1>2, ActivationMade DEF X!Unwind
<1>4. GoodStack(u) /\ u # << >> /\ u[1].kind = "body" /\ u[1].frame = f
  <2>1. b \in 1 .. Len(s) + 1
    BY <1>1
  <2>2. GoodStack(u) /\ Len(u) = Len(s) - b + 1 /\ \A i \in 1 .. Len(u) : u[i] = s[i + b - 1]
    BY <2>1, BelowIsGood
  <2> HIDE DEF u
  <2>3. u \in Seq(Activations)
    BY <2>2 DEF GoodStack
  <2>4. 1 \in 1 .. Len(u) /\ 1 + b - 1 = b
    BY <1>1, <2>2
  <2>5. u[1] = s[b]
    BY <2>2, <2>4
  <2> QED BY <1>1, <2>2, <2>3, <2>4, <2>5
<1>5. /\ BodyFrames(u) = {g \in BodyFrames(s) : g < f \/ (g = f /\ b = b)}
      /\ \A g \in UnwindFrames(s) : g < f => g \in UnwindFrames(u)
  <2>1. b \in {b, b + 1}
    OBVIOUS
  <2> QED BY <2>1, BelowBody
<1> HIDE DEF u, e
<1>6. /\ GoodStack(r)
      /\ BodyFrames(r) = BodyFrames(u) \cup (IF e.kind = "body" THEN {e.frame} ELSE {})
      /\ UnwindFrames(r) = UnwindFrames(u) \cup (IF e.kind = "unwind" THEN {e.frame} ELSE {})
  <2>1. e.kind # "body" /\ e.kind # "handler" /\ u[1].frame = e.frame
    BY <1>3, <1>4
  <2> QED BY <1>3, <1>4, <2>1, PushIsGood
<1> HIDE DEF r
<1>7. BodyFrames(r) = {g \in BodyFrames(s) : g < f \/ g = f}
  BY <1>3, <1>5, <1>6
<1>8. f \in UnwindFrames(r) /\ \A g \in UnwindFrames(s) : g < f => g \in UnwindFrames(r)
  BY <1>3, <1>5, <1>6
<1> QED BY <1>6, <1>7, <1>8 DEF r, e, u

LEMMA TopIsGreatest ==
    ASSUME NEW c, NEW s, NEW n \in Nat, Blocks(c, s, n), c # << >>
    PROVE  /\ 1 \in 1 .. Len(c) /\ c[1].id \in BodyFrames(s) /\ c[1].id \in Nat
           /\ \A g \in BodyFrames(s) : g \in Nat /\ (g < c[1].id \/ g = c[1].id)
<1>1. c \in Seq(Frames) /\ Len(c) \in Nat /\ 1 \in 1 .. Len(c)
  BY DEF Blocks
<1>2. \A k \in 1 .. Len(c) : c[k].id \in Nat
  BY <1>1, FrameType
<1>3. c[1].id \in BodyFrames(s)
  BY <1>1 DEF Blocks, Ids
<1>4. ASSUME NEW g \in BodyFrames(s) PROVE g \in Nat /\ (g < c[1].id \/ g = c[1].id)
  <2>1. PICK k \in 1 .. Len(c) : c[k].id = g
    BY DEF Blocks, Ids
  <2>2. CASE k = 1
    BY <1>2, <2>1, <2>2
  <2>3. CASE k # 1
    <3>1. 1 < k
      BY <1>1, <2>3
    <3>2. c[1].id > c[k].id
      BY <1>1, <3>1 DEF Blocks
    <3> QED BY <1>1, <1>2, <2>1, <3>2
  <2> QED BY <2>2, <2>3
<1> QED BY <1>1, <1>2, <1>3, <1>4

LEMMA RaiseKeeps == ASSUME ExceptionsInv, X!raise_exception PROVE ExceptionsInv'
<1> DEFINE f == context[1].id
<1>1. /\ GoodStack(stack) /\ Blocks(context, stack, tries) /\ tries \in Nat
      /\ context # << >> /\ context \in Seq(Frames)
  BY DEF ExceptionsInv, X!raise_exception, Blocks
<1>2. /\ f \in BodyFrames(stack) /\ f \in Nat
      /\ \A g \in BodyFrames(stack) : g < f \/ g = f
  BY <1>1, TopIsGreatest
<1>3. PICK b \in 1 .. Len(stack) : IsBody(stack, b, f)
  BY <1>1, <1>2, BodyExists
<1>4. stack' = <<X!Unwind(f, 1)>> \o SubSeq(stack, b, Len(stack))
  BY <1>1, <1>3, BodyIs DEF X!raise_exception, X!Jump
<1>5. /\ GoodStack(stack')
      /\ BodyFrames(stack') = {g \in BodyFrames(stack) : g < f \/ g = f}
      /\ f \in UnwindFrames(stack')
      /\ \A g \in UnwindFrames(stack) : g < f => g \in UnwindFrames(stack')
  BY <1>1, <1>3, <1>4, JumpIsGood
<1>6. BodyFrames(stack') = BodyFrames(stack)
  BY <1>2, <1>5
<1>7. UNCHANGED <<context, tries, made, ran>>
  BY DEF X!raise_exception
<1>8. Blocks(context, stack', tries)
  BY <1>1, <1>6 DEF Blocks
<1>9. ASSUME NEW k \in 1 .. Len(context) PROVE FrameOK(context[k], Len(made), ran, UnwindFrames(stack'))
  <2>1. context[k].id \in BodyFrames(stack)
    BY <1>1 DEF Blocks, Ids
  <2>2. context[k].id \in UnwindFrames(stack) => context[k].id \in UnwindFrames(stack')
    BY <1>2, <1>5, <2>1
  <2> QED BY <2>2, UnwindFrameStays
<1> QED BY <1>5, <1>7, <1>8, <1>9 DEF ExceptionsInv

LEMMA HandlerReturnKeeps == ASSUME ExceptionsInv, X!HandlerReturns PROVE ExceptionsInv'
<1>1. GoodStack(stack) /\ Blocks(context, stack, tries)
  BY DEF ExceptionsInv
<1>2. stack # << >> /\ stack[1].kind = "handler"
  BY <1>1, DoingIsTop DEF X!HandlerReturns
<1>3. stack' = Tail(stack) /\ UNCHANGED <<context, tries, made, ran>>
  BY DEF X!HandlerReturns
<1>4. /\ GoodStack(stack')
      /\ BodyFrames(stack) = BodyFrames(stack') \cup (IF stack[1].kind = "body" THEN {stack[1].frame} ELSE {})
      /\ UnwindFrames(stack) = UnwindFrames(stack') \cup (IF stack[1].kind = "unwind" THEN {stack[1].frame} ELSE {})
  BY <1>1, <1>2, <1>3, TopOff
<1>5. BodyFrames(stack') = BodyFrames(stack) /\ UnwindFrames(stack') = UnwindFrames(stack)
  BY <1>2, <1>4
<1>6. Blocks(context, stack', tries)
  BY <1>1, <1>5 DEF Blocks
<1> QED BY <1>3, <1>4, <1>5, <1>6 DEF ExceptionsInv

(* The frames when only the top one has changed.                           *)
LEMMA TopChanges ==
    ASSUME ExceptionsInv, context # << >>, NEW l \in X!HandlerLists, NEW hs \in Seq(Handlers),
           NEW d, d = X!WithHandlers(1, l, hs)
    PROVE  /\ d \in Seq(Frames) /\ Len(d) = Len(context) /\ 1 \in 1 .. Len(context)
           /\ \A k \in 1 .. Len(context) : k # 1 => d[k] = context[k]
           /\ d[1].id = context[1].id /\ d[1].handlers[l] = hs
           /\ \A m \in X!HandlerLists : m # l => d[1].handlers[m] = context[1].handlers[m]
           /\ \A r : BodyFrames(r) = BodyFrames(stack) => Blocks(d, r, tries)
           /\ \A k \in 1 .. Len(context) : k # 1 => context[k].id # context[1].id
<1>1. Blocks(context, stack, tries) /\ context \in Seq(Frames) /\ 1 \in 1 .. Len(context)
  BY DEF ExceptionsInv, Blocks
<1>2. d = [context EXCEPT ![1] = [id |-> context[1].id, handlers |-> [context[1].handlers EXCEPT ![l] = hs]]]
  BY DEF X!WithHandlers
<1>3. /\ d \in Seq(Frames) /\ Len(d) = Len(context)
      /\ \A k \in 1 .. Len(context) : k # 1 => d[k] = context[k]
      /\ \A k \in 1 .. Len(context) : d[k].id = context[k].id
      /\ d[1].handlers[l] = hs
      /\ \A m \in X!HandlerLists : m # l => d[1].handlers[m] = context[1].handlers[m]
  BY <1>1, <1>2, HandlersReplaced
<1>4. \A r : BodyFrames(r) = BodyFrames(stack) => Blocks(d, r, tries)
  BY <1>1, <1>3, BlocksSame
<1>5. ASSUME NEW k \in 1 .. Len(context), k # 1 PROVE context[k].id # context[1].id
  <2>1. context[1].id > context[k].id
    BY <1>1, <1>5 DEF Blocks
  <2>2. context[1].id \in Nat /\ context[k].id \in Nat
    BY <1>1, FrameType
  <2> QED BY <2>1, <2>2
<1> QED BY <1>1, <1>3, <1>4, <1>5

LEMMA DeclareKeeps ==
    ASSUME ExceptionsInv, NEW l \in X!HandlerLists, X!Declare(l)
    PROVE  ExceptionsInv'
<1> DEFINE f  == Head(stack).frame
           h  == [of |-> f, list |-> l, no |-> Len(made) + 1]
           hs == <<h>> \o context[1].handlers[l]
<1>1. /\ GoodStack(stack) /\ Blocks(context, stack, tries) /\ tries \in Nat
      /\ context \in Seq(Frames) /\ made \in Seq(Handlers) /\ Len(made) \in Nat
  <2>1. GoodStack(stack) /\ Blocks(context, stack, tries) /\ tries \in Nat /\ made \in Seq(Handlers)
    BY DEF ExceptionsInv
  <2>2. context \in Seq(Frames)
    BY <2>1 DEF Blocks
  <2>3. Len(made) \in Nat
    BY <2>1
  <2> QED BY <2>1, <2>2, <2>3
<1>2. stack # << >> /\ stack[1].kind = "body" /\ Head(stack) = stack[1] /\ stack[1] \in Activations
  BY <1>1, DoingIsTop DEF X!Declare
<1>3. context # << >> /\ context[1].id = f /\ f \notin UnwindFrames(stack) /\ f \in Nat
  <2>1. f \in Nat
    BY <1>2 DEF Activations
  <2> QED BY <1>1, <1>2, <2>1, TopByDoing
<1>4. 1 \in 1 .. Len(context) /\ context[1] \in Frames
  BY <1>1, <1>3
<1>5. context[1].handlers[l] \in Seq(Handlers)
  BY <1>4, HandlerType
<1>6. h \in Handlers /\ h.of = f /\ h.list = l /\ h.no = Len(made) + 1
  BY <1>1, <1>3 DEF Handlers
<1>7. hs \in Seq(Handlers) /\ \A k \in 1 .. Len(context[1].handlers[l]) :
        k + 1 \in 1 .. Len(hs) /\ hs[k + 1] = context[1].handlers[l][k]
  BY <1>5, <1>6, Prepended
<1>8. 1 \in 1 .. Len(hs) /\ hs[1] = h
  BY <1>5, <1>6, Prepended
<1>9. made' = Append(made, h) /\ context' = X!WithHandlers(1, l, hs) /\ UNCHANGED <<stack, tries, ran>>
  <2>1. DOMAIN context = 1 .. Len(context)
    BY <1>1
  <2>2. \A k \in 1 .. Len(context) : context[k].id = f => k = 1
    <3> SUFFICES ASSUME NEW k \in 1 .. Len(context), k # 1 PROVE context[k].id # f
      OBVIOUS
    <3>1. context[1].id > context[k].id
      BY <1>1, <1>4 DEF Blocks
    <3>2. context[k].id \in Nat
      BY <1>1, FrameType
    <3> QED BY <1>3, <3>1, <3>2
  <2>3. (CHOOSE y \in DOMAIN context : context[y].id = f) = 1
    BY <1>3, <1>4, <2>1, <2>2
  <2> QED BY <2>3 DEF X!Declare
<1> HIDE DEF hs, h, f
<1>10. /\ context' \in Seq(Frames) /\ Len(context') = Len(context)
       /\ \A k \in 1 .. Len(context) : k # 1 => context'[k] = context[k]
       /\ context'[1].id = context[1].id /\ context'[1].handlers[l] = hs
       /\ \A m \in X!HandlerLists : m # l => context'[1].handlers[m] = context[1].handlers[m]
       /\ \A r : BodyFrames(r) = BodyFrames(stack) => Blocks(context', r, tries)
  BY <1>3, <1>7, <1>9, TopChanges
<1>11. Len(made') = Len(made) + 1
  BY <1>1, <1>6, <1>9
<1>12. ASSUME NEW k \in 1 .. Len(context') PROVE FrameOK(context'[k], Len(made) + 1, ran, UnwindFrames(stack))
  <2>1. FrameOK(context[k], Len(made), ran, UnwindFrames(stack))
    BY <1>10 DEF ExceptionsInv
  <2>2. CASE k = 1
    <3>1. FrameOK(context'[1], Len(made) + 1, ran, UnwindFrames(stack))
      <4>1. context[1].id \notin UnwindFrames(stack) /\ h.of = context[1].id
        BY <1>3, <1>6
      <4>2. FrameOK(context[1], Len(made), ran, UnwindFrames(stack))
        BY <2>1, <2>2
      <4>3. context'[1].handlers[l] = <<h>> \o context[1].handlers[l]
        BY <1>10 DEF hs
      <4>4. \A fd : /\ fd.id = context[1].id
                    /\ fd.handlers[l] = <<h>> \o context[1].handlers[l]
                    /\ \A m \in X!HandlerLists : m # l => fd.handlers[m] = context[1].handlers[m]
                    => FrameOK(fd, Len(made) + 1, ran, UnwindFrames(stack))
        BY <1>1, <1>4, <1>6, <4>1, <4>2, FrameDeclares
      <4> QED BY <1>10, <4>3, <4>4
    <3> QED BY <2>2, <3>1
  <2>3. CASE k # 1
    <3>1. context[k] \in Frames
      BY <1>1, <1>10
    <3>2. FrameOK(context[k], Len(made) + 1, ran, UnwindFrames(stack))
      BY <1>1, <2>1, <3>1, FrameStays
    <3> QED BY <1>10, <2>3, <3>2
  <2> QED BY <2>2, <2>3
<1>13. FinalizersKept(context', made', ran)
  <2> SUFFICES ASSUME NEW k \in 1 .. Len(made'), made'[k].list = "finalizers"
               PROVE  Called(ran, made'[k]) \/ Waits(context', made'[k])
    BY DEF FinalizersKept
  <2>1. CASE k \in 1 .. Len(made) /\ made'[k] = made[k]
    <3>1. CASE Called(ran, made[k])
      BY <2>1, <3>1
    <3>2. CASE Waits(context, made[k])
      <4>1. \A i \in 1 .. Len(context) : \A m \in 1 .. Len(context[i].handlers["finalizers"]) :
              \E q \in 1 .. Len(context'[i].handlers["finalizers"]) :
                context'[i].handlers["finalizers"][q] = context[i].handlers["finalizers"][m]
        <5> TAKE i \in 1 .. Len(context)
        <5>1. CASE i # 1 \/ l # "finalizers"
          BY <1>10, <5>1 DEF X!HandlerLists
        <5>2. CASE i = 1 /\ l = "finalizers"
          BY <1>7, <1>10, <5>2
        <5> QED BY <5>1, <5>2
      <4>2. Waits(context', made[k])
        <5>1. PICK i \in 1 .. Len(context) : \E m \in 1 .. Len(context[i].handlers["finalizers"]) :
                context[i].handlers["finalizers"][m] = made[k]
          BY <3>2 DEF Waits
        <5>2. PICK m \in 1 .. Len(context[i].handlers["finalizers"]) :
                context[i].handlers["finalizers"][m] = made[k]
          BY <5>1
        <5>3. PICK q \in 1 .. Len(context'[i].handlers["finalizers"]) :
                context'[i].handlers["finalizers"][q] = made[k]
          BY <4>1, <5>2
        <5>4. i \in 1 .. Len(context')
          BY <1>10
        <5> QED BY <5>3, <5>4 DEF Waits
      <4> QED BY <2>1, <4>2
    <3> QED BY <2>1, <3>1, <3>2 DEF ExceptionsInv, FinalizersKept
  <2>2. CASE made'[k] = h
    <3>1. l = "finalizers"
      BY <1>6, <2>2
    <3>2. 1 \in 1 .. Len(context') /\ context'[1].handlers["finalizers"][1] = h
          /\ 1 \in 1 .. Len(context'[1].handlers["finalizers"])
      BY <1>4, <1>8, <1>10, <3>1
    <3> QED BY <2>2, <3>2 DEF Waits
  <2> QED BY <1>1, <1>6, <1>9, <2>1, <2>2
<1>14. made' \in Seq(Handlers) /\ \A k \in 1 .. Len(made') : made'[k].of \in 1 .. tries
  <2>1. \A k \in 1 .. Len(made) : made[k].of \in 1 .. tries
    BY DEF ExceptionsInv
  <2>2. h.of \in 1 .. tries
    BY <1>1, <1>3, <1>4, <1>6 DEF Blocks
  <2> QED BY <1>1, <1>6, <1>9, <2>1, <2>2
<1>15. Blocks(context', stack, tries)
  BY <1>10
<1> QED BY <1>1, <1>9, <1>11, <1>12, <1>13, <1>14, <1>15 DEF ExceptionsInv

LEMMA ExitKeeps == ASSUME ExceptionsInv, X!__exc_exit_try PROVE ExceptionsInv'
<1> DEFINE f == context[1].id
           e == X!Unwind(f, 0)
<1>1. /\ GoodStack(stack) /\ Blocks(context, stack, tries) /\ tries \in Nat /\ made \in Seq(Handlers)
      /\ context \in Seq(Frames)
  BY DEF ExceptionsInv, Blocks
<1>2. stack # << >> /\ stack[1].kind = "body"
  BY <1>1, DoingIsTop DEF X!__exc_exit_try
<1>3. context # << >> /\ f = stack[1].frame /\ f \notin UnwindFrames(stack)
  BY <1>1, <1>2, TopByDoing
<1>4. /\ context' = X!WithHandlers(1, "catchers", << >>) /\ stack' = <<e>> \o stack
      /\ UNCHANGED <<tries, made, ran>>
  BY DEF X!__exc_exit_try
<1>5. "catchers" \in X!HandlerLists /\ "finalizers" \in X!HandlerLists /\ << >> \in Seq(Handlers)
  BY DEF X!HandlerLists
<1>6. /\ context' \in Seq(Frames) /\ Len(context') = Len(context) /\ 1 \in 1 .. Len(context)
      /\ \A k \in 1 .. Len(context) : k # 1 => context'[k] = context[k]
      /\ context'[1].id = context[1].id /\ context'[1].handlers["catchers"] = << >>
      /\ \A m \in X!HandlerLists : m # "catchers" => context'[1].handlers[m] = context[1].handlers[m]
      /\ \A r : BodyFrames(r) = BodyFrames(stack) => Blocks(context', r, tries)
      /\ \A k \in 1 .. Len(context) : k # 1 => context[k].id # context[1].id
  <2> DEFINE l  == "catchers"
             hs == << >>
  <2>1. context' = X!WithHandlers(1, l, hs) /\ l \in X!HandlerLists /\ hs \in Seq(Handlers) /\ context # << >>
    BY <1>3, <1>4, <1>5
  <2> HIDE DEF l, hs
  <2>2. /\ context' \in Seq(Frames) /\ Len(context') = Len(context) /\ 1 \in 1 .. Len(context)
        /\ \A k \in 1 .. Len(context) : k # 1 => context'[k] = context[k]
        /\ context'[1].id = context[1].id /\ context'[1].handlers[l] = hs
        /\ \A m \in X!HandlerLists : m # l => context'[1].handlers[m] = context[1].handlers[m]
        /\ \A r : BodyFrames(r) = BodyFrames(stack) => Blocks(context', r, tries)
        /\ \A k \in 1 .. Len(context) : k # 1 => context[k].id # context[1].id
    BY <2>1, TopChanges
  <2> QED BY <2>2 DEF l, hs
<1>7. e \in Activations /\ e.kind = "unwind" /\ e.frame = f
  <2>1. f \in Nat
    BY <1>1, <1>6, FrameType
  <2> QED BY <2>1, ActivationMade DEF X!Unwind
<1> HIDE DEF e
<1>8. /\ GoodStack(stack')
      /\ BodyFrames(stack') = BodyFrames(stack) \cup (IF e.kind = "body" THEN {e.frame} ELSE {})
      /\ UnwindFrames(stack') = UnwindFrames(stack) \cup (IF e.kind = "unwind" THEN {e.frame} ELSE {})
  <2>1. e.kind # "body" /\ e.kind # "handler" /\ stack[1].frame = e.frame
    BY <1>3, <1>7
  <2> QED BY <1>1, <1>2, <1>4, <1>7, <2>1, PushIsGood
<1>9. BodyFrames(stack') = BodyFrames(stack) /\ \A g \in UnwindFrames(stack) : g \in UnwindFrames(stack')
  BY <1>7, <1>8
<1>10. Blocks(context', stack', tries)
  BY <1>6, <1>9
<1>11. context'[1].handlers["finalizers"] = context[1].handlers["finalizers"]
  BY <1>5, <1>6
<1>12. ASSUME NEW k \in 1 .. Len(context') PROVE FrameOK(context'[k], Len(made), ran, UnwindFrames(stack'))
  <2>1. CASE k = 1
    <3>1. FrameOK(context[1], Len(made), ran, UnwindFrames(stack))
      BY <1>6 DEF ExceptionsInv
    <3>2. \A fd, V : /\ fd.id = context[1].id /\ fd.handlers["catchers"] = << >>
                     /\ fd.handlers["finalizers"] = context[1].handlers["finalizers"]
                     => FrameOK(fd, Len(made), ran, V)
      BY <1>3, <3>1, FrameEnds
    <3> QED BY <1>6, <1>11, <2>1, <3>2
  <2>2. CASE k # 1
    <3>1. FrameOK(context[k], Len(made), ran, UnwindFrames(stack'))
      BY <1>6, <1>9, UnwindFrameStays
    <3> QED BY <1>6, <2>2, <3>1
  <2> QED BY <2>1, <2>2
<1>13. FinalizersKept(context', made, ran)
  <2>1. \A i \in 1 .. Len(context) : context'[i].handlers["finalizers"] = context[i].handlers["finalizers"]
    BY <1>6, <1>11
  <2> QED BY <1>6, <2>1, FinalizersStay DEF ExceptionsInv
<1> QED BY <1>4, <1>8, <1>10, <1>12, <1>13 DEF ExceptionsInv

LEMMA CallKeeps ==
    ASSUME ExceptionsInv, NEW l \in X!HandlerLists, X!Unwinds, X!TopHandlers(l) # << >>,
           l = "finalizers" => X!TopHandlers("catchers") = << >>,
           X!CallHandler(l), UNCHANGED <<tries, made>>
    PROVE  ExceptionsInv'
<1> DEFINE f  == context[1].id
           hs == context[1].handlers[l]
           h  == Head(hs)
           a  == X!Handler(f)
           e  == X!Activation("unwind", Head(stack).frame, Head(stack).errcode,
                              Head(stack).captured \/ l = "catchers")
<1>1. /\ GoodStack(stack) /\ Blocks(context, stack, tries) /\ tries \in Nat /\ made \in Seq(Handlers)
      /\ context \in Seq(Frames) /\ ran \in Seq(Handlers) /\ InOrder(ran)
  BY DEF ExceptionsInv, Blocks
<1>2. stack # << >> /\ stack[1].kind = "unwind" /\ Head(stack) = stack[1] /\ stack[1] \in Activations
  BY <1>1, DoingIsTop
<1>3. context # << >> /\ f = stack[1].frame /\ f \in UnwindFrames(stack)
  BY <1>1, <1>2, TopByDoing
<1>4. 1 \in 1 .. Len(context) /\ context[1] \in Frames /\ f \in Nat
  <2>1. 1 \in 1 .. Len(context)
    BY <1>1, <1>3
  <2> QED BY <1>1, <2>1, FrameType
<1>5. /\ context' = X!WithHandlers(1, l, Tail(hs)) /\ ran' = Append(ran, h)
      /\ stack' = <<a, e>> \o Tail(stack) /\ UNCHANGED <<tries, made>>
      /\ hs # << >> /\ (l = "finalizers" => context[1].handlers["catchers"] = << >>)
  BY DEF X!CallHandler, X!CallsFirst, X!TopHandlers
<1>6. hs \in Seq(Handlers)
  BY <1>4, HandlerType
<1>7. Tail(hs) \in Seq(Handlers)
  BY <1>5, <1>6
<1>8. /\ context' \in Seq(Frames) /\ Len(context') = Len(context)
      /\ \A k \in 1 .. Len(context) : k # 1 => context'[k] = context[k]
      /\ context'[1].id = context[1].id /\ context'[1].handlers[l] = Tail(hs)
      /\ \A m \in X!HandlerLists : m # l => context'[1].handlers[m] = context[1].handlers[m]
      /\ \A r : BodyFrames(r) = BodyFrames(stack) => Blocks(context', r, tries)
      /\ \A k \in 1 .. Len(context) : k # 1 => context[k].id # context[1].id
  <2> DEFINE ts == Tail(hs)
  <2>1. context' = X!WithHandlers(1, l, ts) /\ ts \in Seq(Handlers)
    BY <1>5, <1>7
  <2> HIDE DEF ts
  <2>2. /\ context' \in Seq(Frames) /\ Len(context') = Len(context)
        /\ \A k \in 1 .. Len(context) : k # 1 => context'[k] = context[k]
        /\ context'[1].id = context[1].id /\ context'[1].handlers[l] = ts
        /\ \A m \in X!HandlerLists : m # l => context'[1].handlers[m] = context[1].handlers[m]
        /\ \A r : BodyFrames(r) = BodyFrames(stack) => Blocks(context', r, tries)
        /\ \A k \in 1 .. Len(context) : k # 1 => context[k].id # context[1].id
    BY <1>3, <2>1, TopChanges
  <2> QED BY <2>2 DEF ts
<1>9. /\ a \in Activations /\ a.kind = "handler" /\ a.frame = f
      /\ e \in Activations /\ e.kind = "unwind" /\ e.frame = f
  <2>1. Head(stack).errcode \in {0, 1} /\ (Head(stack).captured \/ l = "catchers") \in BOOLEAN
    BY <1>2 DEF Activations
  <2>2. Head(stack).frame = f
    BY <1>2, <1>3
  <2>3. a \in Activations /\ a.kind = "handler" /\ a.frame = f
    BY <1>4, ActivationMade DEF X!Handler
  <2> DEFINE capt == Head(stack).captured \/ l = "catchers"
             err  == Head(stack).errcode
             g    == Head(stack).frame
  <2>4. capt \in BOOLEAN /\ err \in {0, 1} /\ g \in Nat /\ g = f
    BY <1>4, <2>1, <2>2
  <2>5. e = X!Activation("unwind", g, err, capt)
    OBVIOUS
  <2> HIDE DEF capt, err, g, e
  <2>6. e \in Activations /\ e.kind = "unwind" /\ e.frame = g
    BY <2>4, <2>5, ActivationMade
  <2> QED BY <2>3, <2>4, <2>6
<1> HIDE DEF a, e
<1>10. GoodStack(stack') /\ BodyFrames(stack') = BodyFrames(stack) /\ UnwindFrames(stack') = UnwindFrames(stack)
  BY <1>1, <1>2, <1>3, <1>5, <1>9, TopReplaced
<1>11. Blocks(context', stack', tries)
  BY <1>8, <1>10
<1>12. \A k \in 1 .. Len(context) : FrameOK(context[k], Len(made), ran, UnwindFrames(stack))
  BY DEF ExceptionsInv
<1>13. /\ h \in Handlers /\ h.of = f
       /\ InOrder(ran')
       /\ FrameOK(context'[1], Len(made), ran', UnwindFrames(stack))
  <2>1. \A fd : /\ fd.id = context[1].id /\ fd.handlers[l] = Tail(hs)
                /\ \A m \in X!HandlerLists : m # l => fd.handlers[m] = context[1].handlers[m]
                => /\ h \in Handlers /\ h.of = f
                   /\ InOrder(Append(ran, h))
                   /\ FrameOK(fd, Len(made), Append(ran, h), UnwindFrames(stack))
    <3>1. FrameOK(context[1], Len(made), ran, UnwindFrames(stack))
      BY <1>4, <1>12
    <3>2. context[1].id \in UnwindFrames(stack)
      BY <1>3
    <3>3. context[1].handlers[l] # << >> /\ (l = "finalizers" => context[1].handlers["catchers"] = << >>)
      BY <1>5
    <3>4. ran \in Seq(Handlers) /\ InOrder(ran) /\ context[1] \in Frames
      BY <1>1, <1>4
    <3> DEFINE fr == context[1]
               W  == UnwindFrames(stack)
               n  == Len(made)
    <3>5. /\ fr \in Frames /\ FrameOK(fr, n, ran, W) /\ fr.id \in W
          /\ fr.handlers[l] # << >> /\ (l = "finalizers" => fr.handlers["catchers"] = << >>)
      BY <3>1, <3>2, <3>3, <3>4
    <3> HIDE DEF fr, W, n
    <3>6. \A fd : /\ fd.id = fr.id /\ fd.handlers[l] = Tail(fr.handlers[l])
                  /\ \A m \in X!HandlerLists : m # l => fd.handlers[m] = fr.handlers[m]
                  => /\ Head(fr.handlers[l]) \in Handlers /\ Head(fr.handlers[l]).of = fr.id
                     /\ InOrder(Append(ran, Head(fr.handlers[l])))
                     /\ FrameOK(fd, n, Append(ran, Head(fr.handlers[l])), W)
      BY <3>4, <3>5, FrameCalls
    <3> QED BY <3>6 DEF fr, W, n
  <2> QED BY <1>5, <1>8, <2>1
<1> HIDE DEF h
<1>14. ASSUME NEW k \in 1 .. Len(context') PROVE FrameOK(context'[k], Len(made), ran', UnwindFrames(stack'))
  <2>1. CASE k = 1
    BY <1>10, <1>13, <2>1
  <2>2. CASE k # 1
    <3>1. FrameOK(context[k], Len(made), Append(ran, h), UnwindFrames(stack))
      BY <1>1, <1>8, <1>12, <1>13, <2>2, FrameStaysCall
    <3> QED BY <1>5, <1>8, <1>10, <2>2, <3>1
  <2> QED BY <2>1, <2>2
<1>15. /\ ran' \in Seq(Handlers) /\ \A k \in 1 .. Len(ran') : ran'[k].of \in 1 .. tries
       /\ Called(ran', h) /\ \A x : Called(ran, x) => Called(ran', x)
  <2>1. h.of \in 1 .. tries
    BY <1>1, <1>4, <1>13 DEF Blocks
  <2>2. \A k \in 1 .. Len(ran) : ran[k].of \in 1 .. tries
    BY DEF ExceptionsInv
  <2>3. /\ ran' \in Seq(Handlers) /\ Len(ran') = Len(ran) + 1 /\ ran'[Len(ran) + 1] = h
        /\ \A k \in 1 .. Len(ran) : ran'[k] = ran[k]
    BY <1>1, <1>5, <1>13
  <2>4. Len(ran) \in Nat
    BY <1>1
  <2>5. \A k \in 1 .. Len(ran') : k \in 1 .. Len(ran) \/ k = Len(ran) + 1
    BY <2>3, <2>4
  <2>6. Len(ran) + 1 \in 1 .. Len(ran') /\ \A k \in 1 .. Len(ran) : k \in 1 .. Len(ran')
    BY <2>3, <2>4
  <2>7. Called(ran', h)
    BY <2>3, <2>6 DEF Called
  <2>8. \A x : Called(ran, x) => Called(ran', x)
    BY <2>3, <2>6 DEF Called
  <2> QED BY <2>1, <2>2, <2>3, <2>5, <2>7, <2>8
<1>16. FinalizersKept(context', made, ran')
  <2> SUFFICES ASSUME NEW k \in 1 .. Len(made), made[k].list = "finalizers", ~ Called(ran', made[k])
               PROVE  Waits(context', made[k])
    BY DEF FinalizersKept
  <2>1. made[k] # h
    BY <1>15
  <2>2. Waits(context, made[k])
    BY <1>15 DEF ExceptionsInv, FinalizersKept
  <2>3. PICK i \in 1 .. Len(context) : \E m \in 1 .. Len(context[i].handlers["finalizers"]) :
          context[i].handlers["finalizers"][m] = made[k]
    BY <2>2 DEF Waits
  <2>4. PICK m \in 1 .. Len(context[i].handlers["finalizers"]) : context[i].handlers["finalizers"][m] = made[k]
    BY <2>3
  <2>5. \E q \in 1 .. Len(context'[i].handlers["finalizers"]) : context'[i].handlers["finalizers"][q] = made[k]
    <3>1. CASE i # 1 \/ l # "finalizers"
      <4>1. context'[i].handlers["finalizers"] = context[i].handlers["finalizers"]
        BY <1>8, <3>1 DEF X!HandlerLists
      <4> QED BY <2>4, <4>1
    <3>2. CASE i = 1 /\ l = "finalizers"
      <4>1. m \in 1 .. Len(hs) /\ hs[m] = made[k] /\ context'[i].handlers["finalizers"] = Tail(hs)
        BY <1>8, <2>4, <3>2
      <4>2. m # 1
        BY <1>5, <1>6, <2>1, <4>1 DEF h
      <4>3. m - 1 \in 1 .. Len(Tail(hs)) /\ Tail(hs)[m - 1] = hs[m]
        <5> HIDE DEF hs
        <5>1. Len(hs) \in Nat /\ Len(Tail(hs)) = Len(hs) - 1
              /\ \A q \in 1 .. Len(Tail(hs)) : Tail(hs)[q] = hs[q + 1]
          BY <1>5, <1>6, HeadTailProperties
        <5>2. m - 1 \in 1 .. Len(Tail(hs)) /\ (m - 1) + 1 = m
          BY <4>1, <4>2, <5>1
        <5> QED BY <5>1, <5>2
      <4> QED BY <4>1, <4>3
    <3> QED BY <3>1, <3>2
  <2>6. i \in 1 .. Len(context')
    BY <1>8
  <2> QED BY <2>5, <2>6 DEF Waits
<1>17. made \in Seq(Handlers) /\ \A k \in 1 .. Len(made) : made[k].of \in 1 .. tries
  BY DEF ExceptionsInv
<1> QED BY <1>1, <1>5, <1>10, <1>11, <1>13, <1>14, <1>15, <1>16, <1>17 DEF ExceptionsInv

LEMMA UnwindEndKeeps == ASSUME ExceptionsInv, X!UnwindEnds PROVE ExceptionsInv'
<1> DEFINE f == context[1].id
           d == Tail(context)
<1>1. /\ GoodStack(stack) /\ Blocks(context, stack, tries) /\ tries \in Nat /\ made \in Seq(Handlers)
      /\ context \in Seq(Frames)
  BY DEF ExceptionsInv, Blocks
<1>2. stack # << >> /\ stack[1].kind = "unwind" /\ Head(stack) = stack[1]
  BY <1>1, DoingIsTop DEF X!UnwindEnds
<1>3. context # << >> /\ f = stack[1].frame /\ IsBody(stack, 2, f) /\ f \in UnwindFrames(stack)
  BY <1>1, <1>2, TopByDoing
<1>4. /\ context' = d /\ UNCHANGED <<tries, made, ran>>
      /\ context[1].handlers["finalizers"] = << >>
  BY DEF X!UnwindEnds, X!PopFrame, X!TopHandlers
<1>5. \A g \in BodyFrames(stack) : g \in Nat /\ (g < f \/ g = f)
  BY <1>1, <1>3, TopIsGreatest
<1>6. f \in Nat
  BY <1>1, <1>3, TopIsGreatest
<1>7. \A r : BodyFrames(r) = {g \in BodyFrames(stack) : g < f} =>
        /\ Blocks(d, r, tries)
        /\ Len(d) = Len(context) - 1
        /\ \A k \in 1 .. Len(d) : k + 1 \in 1 .. Len(context) /\ d[k] = context[k + 1] /\ d[k].id < f
  BY <1>1, <1>3, BlocksPopped
<1>8. /\ GoodStack(stack')
      /\ BodyFrames(stack') = {g \in BodyFrames(stack) : g < f}
      /\ \A g \in UnwindFrames(stack) : g \in BodyFrames(stack) /\ g < f => g \in UnwindFrames(stack')
  <2>1. CASE d # << >> /\ X!Jump(d)
    <3> DEFINE q == d[1].id
    <3>1. PICK r : BodyFrames(r) = {g \in BodyFrames(stack) : g < f}
      <4> DEFINE r == SubSeq(stack, 3, Len(stack))
      <4>1. BodyFrames(r) = {g \in BodyFrames(stack) : g < f \/ (g = f /\ 3 = 2)}
        <5>1. 3 \in {2, 2 + 1}
          OBVIOUS
        <5> QED BY <1>1, <1>3, <5>1, BelowBody
      <4>2. BodyFrames(r) = {g \in BodyFrames(stack) : g < f}
        BY <4>1
      <4> QED BY <4>2
    <3>2. Blocks(d, r, tries)
      BY <1>7, <3>1
    <3>3. /\ q \in BodyFrames(r) /\ q \in Nat
          /\ \A g \in BodyFrames(r) : g \in Nat /\ (g < q \/ g = q)
      BY <1>1, <2>1, <3>2, TopIsGreatest
    <3>4. q \in BodyFrames(stack) /\ q < f
      BY <3>1, <3>3
    <3>5. PICK b \in 1 .. Len(stack) : IsBody(stack, b, q)
      BY <1>1, <3>4, BodyExists
    <3>6. stack' = <<X!Unwind(q, 1)>> \o SubSeq(stack, b, Len(stack))
      BY <1>1, <2>1, <3>5, BodyIs DEF X!Jump
    <3> HIDE DEF q, d
    <3>7. /\ GoodStack(stack')
          /\ BodyFrames(stack') = {g \in BodyFrames(stack) : g < q \/ g = q}
          /\ q \in UnwindFrames(stack')
          /\ \A g \in UnwindFrames(stack) : g < q => g \in UnwindFrames(stack')
      BY <1>1, <3>5, <3>6, JumpIsGood
    <3>8. \A g \in BodyFrames(stack) : g < f <=> g < q \/ g = q
      BY <1>5, <1>6, <3>1, <3>3, <3>4
    <3> QED BY <3>7, <3>8
  <2>2. CASE stack' = X!Outside(Head(stack).frame)
    <3>1. stack' = SubSeq(stack, 2 + 1, Len(stack))
      BY <1>1, <1>2, <1>3, <2>2, BodyIs DEF X!Outside
    <3>2. 2 + 1 \in {2, 2 + 1} /\ 2 + 1 # 2
      OBVIOUS
    <3>3. 2 + 1 \in 1 .. Len(stack) + 1
      BY <1>1, <1>3 DEF IsBody, GoodStack
    <3>4. GoodStack(stack')
      BY <1>1, <3>1, <3>3, BelowIsGood
    <3>5. /\ BodyFrames(stack') = {g \in BodyFrames(stack) : g < f \/ (g = f /\ 2 + 1 = 2)}
          /\ \A g \in UnwindFrames(stack) : g < f => g \in UnwindFrames(stack')
      BY <1>1, <1>3, <3>1, <3>2, BelowBody
    <3>6. BodyFrames(stack') = {g \in BodyFrames(stack) : g < f}
      BY <3>2, <3>5
    <3> QED BY <3>4, <3>5, <3>6
  <2>3. (d # << >> /\ X!Jump(d)) \/ stack' = X!Outside(Head(stack).frame)
    BY DEF X!UnwindEnds, X!PopFrame
  <2> QED BY <2>1, <2>2, <2>3
<1>9. /\ Blocks(d, stack', tries)
      /\ Len(d) = Len(context) - 1
      /\ \A k \in 1 .. Len(d) : k + 1 \in 1 .. Len(context) /\ d[k] = context[k + 1] /\ d[k].id < f
  BY <1>7, <1>8
<1> HIDE DEF d
<1>10. ASSUME NEW k \in 1 .. Len(d) PROVE FrameOK(d[k], Len(made), ran, UnwindFrames(stack'))
  <2>1. k + 1 \in 1 .. Len(context) /\ d[k] = context[k + 1] /\ d[k].id < f
    BY <1>9
  <2>2. context[k + 1].id \in BodyFrames(stack)
    BY <1>1, <2>1 DEF Blocks, Ids
  <2>3. FrameOK(context[k + 1], Len(made), ran, UnwindFrames(stack'))
    BY <1>8, <2>1, <2>2, UnwindFrameStays
  <2> QED BY <2>1, <2>3
<1>11. FinalizersKept(d, made, ran)
  <2> SUFFICES ASSUME NEW k \in 1 .. Len(made), made[k].list = "finalizers", ~ Called(ran, made[k])
               PROVE  Waits(d, made[k])
    BY DEF FinalizersKept
  <2>1. Waits(context, made[k])
    BY DEF ExceptionsInv, FinalizersKept
  <2>2. PICK i \in 1 .. Len(context) : \E m \in 1 .. Len(context[i].handlers["finalizers"]) :
          context[i].handlers["finalizers"][m] = made[k]
    BY <2>1 DEF Waits
  <2>3. i # 1
    <3>1. Len(<< >>) = 0 /\ 1 .. 0 = {}
      OBVIOUS
    <3> QED BY <1>4, <2>2, <3>1
  <2>4. i - 1 \in 1 .. Len(d) /\ (i - 1) + 1 = i
    BY <1>1, <1>9, <2>3
  <2>5. d[i - 1] = context[i]
    BY <1>9, <2>4
  <2> QED BY <2>2, <2>4, <2>5 DEF Waits
<1> QED BY <1>4, <1>8, <1>9, <1>10, <1>11 DEF ExceptionsInv

LEMMA NextExceptions == ASSUME ExceptionsInv, [X!Next]_X!vars PROVE ExceptionsInv'
<1>1. CASE X!TRY_WITH
  BY <1>1, TryKeeps
<1>2. CASE X!ON_ERROR \/ X!FINALLY
  <2>1. \E l \in X!HandlerLists : X!Declare(l)
    BY <1>2 DEF X!ON_ERROR, X!FINALLY, X!HandlerLists
  <2> QED BY <2>1, DeclareKeeps
<1>3. CASE X!__exc_exit_try
  BY <1>3, ExitKeeps
<1>4. CASE X!raise_exception
  BY <1>4, RaiseKeeps
<1>5. CASE X!UnwindCatchers
  <2>1. "catchers" \in X!HandlerLists /\ "catchers" # "finalizers"
    BY DEF X!HandlerLists
  <2>2. X!Unwinds /\ X!TopHandlers("catchers") # << >> /\ X!CallHandler("catchers") /\ UNCHANGED <<tries, made>>
    BY <1>5 DEF X!UnwindCatchers
  <2> QED BY <2>1, <2>2, CallKeeps
<1>6. CASE X!UnwindFinalizers
  <2>1. "finalizers" \in X!HandlerLists
    BY DEF X!HandlerLists
  <2>2. /\ X!Unwinds /\ X!TopHandlers("finalizers") # << >> /\ X!TopHandlers("catchers") = << >>
        /\ X!CallHandler("finalizers") /\ UNCHANGED <<tries, made>>
    BY <1>6 DEF X!UnwindFinalizers
  <2> QED BY <2>1, <2>2, CallKeeps
<1>7. CASE X!HandlerReturns
  BY <1>7, HandlerReturnKeeps
<1>8. CASE X!UnwindEnds
  BY <1>8, UnwindEndKeeps
<1>9. CASE UNCHANGED X!vars
  BY <1>9 DEF X!vars, ExceptionsInv
<1> QED BY <1>1, <1>2, <1>3, <1>4, <1>5, <1>6, <1>7, <1>8, <1>9 DEF X!Next

(* The invariant is what the properties say, and more.                     *)
LEMMA ExceptionsFollow == ASSUME ExceptionsInv PROVE ExceptionsUnwind
<1>1. /\ GoodStack(stack) /\ Blocks(context, stack, tries) /\ tries \in Nat
      /\ InOrder(ran) /\ FinalizersKept(context, made, ran)
  BY DEF ExceptionsInv
<1>2. /\ DOMAIN stack = 1 .. Len(stack) /\ DOMAIN context = 1 .. Len(context)
      /\ DOMAIN ran = 1 .. Len(ran) /\ DOMAIN made = 1 .. Len(made)
  BY DEF ExceptionsInv, GoodStack, Blocks
<1>3. X!ContextFollowsBlocks
  <2>1. {context[i].id : i \in DOMAIN context} = {stack[i].frame : i \in X!Bodies}
    BY <1>1, <1>2 DEF Blocks, Ids, BodyFrames, X!Bodies
  <2>2. \A i, k \in DOMAIN context : i < k => context[i].id > context[k].id
    BY <1>1, <1>2 DEF Blocks
  <2>3. \A i, k \in X!Bodies : i < k => stack[i].frame > stack[k].frame
    BY <1>1, <1>2 DEF GoodStack, X!Bodies
  <2>4. X!Unwinds => Head(stack).frame = context[1].id
    <3> HAVE X!Unwinds
    <3>1. stack # << >> /\ stack[1].kind = "unwind" /\ Head(stack) = stack[1]
      BY <1>1, DoingIsTop
    <3>2. context[1].id = stack[1].frame
      BY <1>1, <3>1, TopByDoing
    <3> QED BY <3>1, <3>2
  <2> QED BY <2>1, <2>2, <2>3, <2>4 DEF X!ContextFollowsBlocks
<1>4. ASSUME NEW k \in DOMAIN made, made[k].list = "finalizers",
             \A i \in DOMAIN context : context[i].id # made[k].of
      PROVE  \E i \in DOMAIN ran : ran[i] = made[k]
  <2>1. ASSUME Waits(context, made[k]) PROVE FALSE
    <3>1. PICK i \in 1 .. Len(context) : \E m \in 1 .. Len(context[i].handlers["finalizers"]) :
            context[i].handlers["finalizers"][m] = made[k]
      BY <2>1 DEF Waits
    <3>2. FrameOK(context[i], Len(made), ran, UnwindFrames(stack)) /\ "finalizers" \in X!HandlerLists
      BY DEF ExceptionsInv, X!HandlerLists
    <3>3. made[k].of = context[i].id
      BY <3>1, <3>2 DEF FrameOK
    <3> QED BY <1>2, <1>4, <3>3
  <2>2. Called(ran, made[k])
    BY <1>1, <1>2, <1>4, <2>1 DEF FinalizersKept
  <2> QED BY <1>2, <2>2 DEF Called
<1>5. X!HandlersRunOnce
  BY <1>1, <1>2, <1>4 DEF InOrder, X!HandlersRunOnce
<1> QED BY <1>3, <1>5 DEF ExceptionsUnwind

(* However TRY blocks nest, and whatever their bodies and handlers raise,  *)
(* the exception stack of util.h follows the blocks, and exception_unwind  *)
(* calls every handler once and in its order: for any number of blocks and *)
(* of handlers.                                                            *)
THEOREM ExceptionsAreUnwound == SupportSpec => []ExceptionsUnwind
<1>1. SupportInit => ExceptionsInv
  BY InitExceptions DEF SupportInit
<1>2. ExceptionsInv /\ [SupportNext]_allVars => ExceptionsInv'
  <2> SUFFICES ASSUME ExceptionsInv, [SupportNext]_allVars PROVE ExceptionsInv'
    OBVIOUS
  <2>1. [X!Next]_X!vars
    BY DEF SupportNext, allVars, excVars, X!vars
  <2> QED BY <2>1, NextExceptions
<1> QED BY <1>1, <1>2, ExceptionsFollow, PTL DEF SupportSpec

-----------------------------------------------------------------------------
(***************************************************************************)
(* The test runner.  While a test runs, what it wants of a terminal is     *)
(* split: a first part has passed, then come what is left of the pattern   *)
(* in the hands of the daemon and the patterns that wait.                  *)
(***************************************************************************)

(* The patterns q follow each other in W, and end with it; o has the ends. *)
Pieces(W, q, o) ==
    /\ o[Len(q)] = Len(W)
    /\ \A k \in 1 .. Len(q) :
         /\ o[k] = o[k - 1] + Len(q[k])
         /\ \A x \in 1 .. Len(q[k]) : W[o[k - 1] + x] = q[k][x]

(* W is wanted, P has passed but for what is still in the fifo F, p is the *)
(* rest of a pattern.                                                      *)
Carried(W, p, q, P, F) ==
    LET n == Len(P) - Len(F) IN
    /\ n \in Nat
    /\ \A i \in 1 .. n : P[i] = W[i]
    /\ \A i \in 1 .. Len(F) : P[n + i] = F[i]
    /\ \A i \in 1 .. Len(p) : W[n + i] = p[i]
    /\ \E o \in [0 .. Len(q) -> 0 .. Len(W)] : o[0] = n + Len(p) /\ Pieces(W, q, o)

(* The keyboard fifo is read by the machine, not by the daemon.            *)
Unread(d) == IF d = "con" THEN fifo["con"] ELSE << >>

Silent(script) == \A k \in 1 .. Len(script) : script[k][1] \in {"fail", "hang"}

ProxyTypes ==
    /\ pattern \in [U!Daemons -> Seq(Seq(Bytes))]
    /\ complete \in [U!Daemons -> BOOLEAN]
    /\ dpc \in [U!Daemons -> {"get", "ended", "poll", "polled", "read", "save", "write"}]
    /\ rest \in [U!Daemons -> Seq(Bytes)]
    /\ fifo \in [U!Daemons -> Seq(Bytes)] /\ Len(fifo["kbd"]) <= Capacity
    /\ FLAG_FAILURE \in BOOLEAN
    /\ wanted \in [U!Daemons -> Seq(Bytes)] /\ passed \in [U!Daemons -> Seq(Bytes)]

DaemonInv(d) ==
    /\ complete[d] => cpc > Len(U!Test.script) \/ Silent(U!Test.script)
    /\ dpc[d] = "ended" => complete[d] /\ pattern[d] = << >>
    /\ ~ FLAG_FAILURE =>
         /\ dpc[d] \in {"get", "ended"} => rest[d] = << >>
         /\ Carried(wanted[d], rest[d], pattern[d], passed[d], Unread(d))

FailuresKept ==
    ~ FLAG_FAILURE => \A k \in 1 .. Len(U!Test.script) : k < cpc => U!Test.script[k] # <<"fail">>

(* While the process of a test exists.                                     *)
TestInv ==
    /\ U!Test.script \in Seq(Operations)
    /\ cpc \in Nat \ {0}
    /\ ProxyTypes
    /\ \A d \in U!Daemons : DaemonInv(d)
    /\ FailuresKept
    /\ child = "exited" =>
         /\ cpc > Len(U!Test.script) /\ ~ FLAG_FAILURE
         /\ \A d \in U!Daemons : dpc[d] = "ended"

Suites == {U!internal} \cup {<<U!BootTest(s), U!internal_success>> : s \in Scripts}

VerdictInv ==
    /\ t \in Nat \ {0} /\ suite \in Suites
    /\ tpc \in {"run", "restore", "done", "dead"} => child = "none"
    /\ child \in {"running", "exited"} => TestInv

LEMMA CarriedNothing == Carried(<< >>, << >>, << >>, << >>, << >>)
<1>1. Len(<< >>) = 0 /\ 1 .. 0 = {} /\ 0 - 0 = 0 /\ 0 + 0 = 0 /\ 0 \in Nat
  OBVIOUS
<1> DEFINE o == [k \in 0 .. 0 |-> 0]
<1>2. o \in [0 .. 0 -> 0 .. 0] /\ o[0] = 0
  OBVIOUS
<1> HIDE DEF o
<1> QED BY <1>1, <1>2 DEF Carried, Pieces

(* The test wants another pattern.                                         *)
LEMMA CarriedAdd ==
    ASSUME NEW W \in Seq(Bytes), NEW p \in Seq(Bytes), NEW q \in Seq(Seq(Bytes)),
           NEW P \in Seq(Bytes), NEW F \in Seq(Bytes), Carried(W, p, q, P, F), NEW a \in Seq(Bytes)
    PROVE  Carried(W \o a, p, Append(q, a), P, F)
<1> DEFINE n == Len(P) - Len(F)
           V == W \o a
           r == Append(q, a)
<1>1. /\ n \in Nat /\ Len(W) \in Nat /\ Len(q) \in Nat /\ Len(p) \in Nat /\ Len(a) \in Nat
      /\ \A i \in 1 .. n : P[i] = W[i]
      /\ \A i \in 1 .. Len(F) : P[n + i] = F[i]
      /\ \A i \in 1 .. Len(p) : W[n + i] = p[i]
  BY DEF Carried
<1>2. PICK o \in [0 .. Len(q) -> 0 .. Len(W)] : o[0] = n + Len(p) /\ Pieces(W, q, o)
  BY DEF Carried
<1>3. /\ Len(V) = Len(W) + Len(a)
      /\ \A i \in 1 .. Len(W) : V[i] = W[i]
      /\ \A i \in 1 .. Len(a) : V[Len(W) + i] = a[i]
  OBVIOUS
<1>4. /\ Len(r) = Len(q) + 1 /\ r[Len(q) + 1] = a
      /\ \A k \in 1 .. Len(q) : r[k] = q[k] /\ q[k] \in Seq(Bytes) /\ Len(q[k]) \in Nat
  OBVIOUS
<1> HIDE DEF V, r, n
<1> DEFINE u == [k \in 0 .. Len(r) |-> IF k <= Len(q) THEN o[k] ELSE Len(V)]
<1>5. u \in [0 .. Len(r) -> 0 .. Len(V)]
  <2>1. ASSUME NEW k \in 0 .. Len(r) PROVE u[k] \in 0 .. Len(V)
    <3>1. CASE k <= Len(q)
      <4>1. k \in 0 .. Len(q)
        BY <1>1, <1>4, <3>1
      <4>2. o[k] \in 0 .. Len(W)
        BY <4>1
      <4> QED BY <1>1, <1>3, <3>1, <4>2
    <3>2. CASE ~ k <= Len(q)
      BY <1>1, <1>3, <3>2
    <3> QED BY <3>1, <3>2
  <2> QED BY <2>1
<1>6. /\ \A k \in 0 .. Len(q) : u[k] = o[k]
      /\ u[Len(q) + 1] = Len(V)
  BY <1>1, <1>4
<1> HIDE DEF u
<1>7. \A k \in 0 .. Len(q) : o[k] \in 0 .. Len(W)
  OBVIOUS
<1>8. u[0] = n + Len(p) /\ n + Len(p) \in 0 .. Len(W)
  BY <1>1, <1>2, <1>6, <1>7
<1>9. Pieces(V, r, u)
  <2>1. u[Len(r)] = Len(V)
    BY <1>4, <1>6
  <2>2. ASSUME NEW k \in 1 .. Len(r)
        PROVE  u[k] = u[k - 1] + Len(r[k]) /\ \A x \in 1 .. Len(r[k]) : V[u[k - 1] + x] = r[k][x]
    <3>1. CASE k \in 1 .. Len(q)
      <4>1. k \in 0 .. Len(q) /\ k - 1 \in 0 .. Len(q)
        BY <1>1, <3>1
      <4>2. o[k] = o[k - 1] + Len(q[k]) /\ \A x \in 1 .. Len(q[k]) : W[o[k - 1] + x] = q[k][x]
        BY <1>2, <3>1 DEF Pieces
      <4>3. \A x \in 1 .. Len(q[k]) : o[k - 1] + x \in 1 .. Len(W)
        <5>1. o[k] \in 0 .. Len(W) /\ o[k - 1] \in 0 .. Len(W) /\ Len(q[k]) \in Nat
          BY <1>4, <1>7, <3>1, <4>1
        <5>2. o[k] = o[k - 1] + Len(q[k])
          BY <4>2
        <5> DEFINE y == o[k - 1]
                   z == o[k]
                   l == Len(q[k])
                   w == Len(W)
        <5>3. y \in 0 .. w /\ z \in 0 .. w /\ l \in Nat /\ w \in Nat /\ z = y + l
          BY <1>1, <5>1, <5>2
        <5> HIDE DEF y, z, l, w
        <5>4. \A x \in 1 .. l : y + x \in 1 .. w
          BY <5>3
        <5> QED BY <5>4 DEF y, l, w
      <4>4. r[k] = q[k] /\ u[k] = o[k] /\ u[k - 1] = o[k - 1]
        BY <1>4, <1>6, <3>1, <4>1
      <4>5. \A x \in 1 .. Len(q[k]) : V[o[k - 1] + x] = q[k][x]
        BY <1>3, <4>2, <4>3
      <4> QED BY <4>2, <4>4, <4>5
    <3>2. CASE k = Len(q) + 1
      <4>1. k - 1 = Len(q) /\ Len(q) \in 0 .. Len(q)
        BY <1>1, <3>2
      <4>2. u[k - 1] = Len(W) /\ r[k] = a /\ u[k] = Len(V)
        BY <1>2, <1>4, <1>6, <3>2, <4>1 DEF Pieces
      <4> QED BY <1>3, <4>2
    <3>3. k \in 1 .. Len(q) \/ k = Len(q) + 1
      <4>1. Len(q) \in Nat /\ Len(r) = Len(q) + 1
        BY <1>4
      <4> QED BY <4>1
    <3> QED BY <3>1, <3>2, <3>3
  <2> QED BY <2>1, <2>2 DEF Pieces
<1>10. \A i \in 1 .. n : P[i] = V[i]
  <2>1. \A i \in 1 .. n : i \in 1 .. Len(W)
    BY <1>1, <1>8
  <2> QED BY <1>1, <1>3, <2>1
<1>11. \A i \in 1 .. Len(p) : V[n + i] = p[i]
  <2>1. \A i \in 1 .. Len(p) : n + i \in 1 .. Len(W)
    BY <1>1, <1>8
  <2> QED BY <1>1, <1>3, <2>1
<1>12. \E v \in [0 .. Len(r) -> 0 .. Len(V)] : v[0] = n + Len(p) /\ Pieces(V, r, v)
  BY <1>5, <1>8, <1>9
<1> QED BY <1>1, <1>10, <1>11, <1>12 DEF Carried, n, V, r

(* The machine writes a byte.                                              *)
LEMMA CarriedWrite ==
    ASSUME NEW W, NEW p, NEW q, NEW P \in Seq(Bytes), NEW F \in Seq(Bytes), Carried(W, p, q, P, F), NEW c \in Bytes
    PROVE  Carried(W, p, q, Append(P, c), Append(F, c))
<1> DEFINE n == Len(P) - Len(F)
           Pc == Append(P, c)
           Fc == Append(F, c)
<1>1. /\ Len(Pc) = Len(P) + 1 /\ Len(Fc) = Len(F) + 1 /\ Len(P) \in Nat /\ Len(F) \in Nat
      /\ Pc[Len(P) + 1] = c /\ Fc[Len(F) + 1] = c
      /\ \A i \in 1 .. Len(P) : Pc[i] = P[i]
      /\ \A i \in 1 .. Len(F) : Fc[i] = F[i]
  OBVIOUS
<1>2. n \in Nat
  BY DEF Carried
<1> HIDE DEF Pc, Fc
<1>3. Len(Pc) - Len(Fc) = n
  BY <1>1
<1>4. \A i \in 1 .. n : Pc[i] = W[i]
  <2>1. \A i \in 1 .. n : i \in 1 .. Len(P)
    BY <1>1, <1>2
  <2>2. \A i \in 1 .. n : P[i] = W[i]
    BY DEF Carried
  <2> QED BY <1>1, <2>1, <2>2
<1>5. ASSUME NEW i \in 1 .. Len(Fc) PROVE Pc[n + i] = Fc[i]
  <2>1. CASE i = Len(F) + 1
    <3>1. n + i = Len(P) + 1
      BY <1>1, <2>1
    <3> QED BY <1>1, <2>1, <3>1
  <2>2. CASE i # Len(F) + 1
    <3>1. i \in 1 .. Len(F) /\ n + i \in 1 .. Len(P)
      BY <1>1, <1>2, <2>2
    <3>2. P[n + i] = F[i]
      BY <3>1 DEF Carried
    <3> QED BY <1>1, <3>1, <3>2
  <2> QED BY <2>1, <2>2
<1>6. /\ \A i \in 1 .. Len(p) : W[n + i] = p[i]
      /\ \E o \in [0 .. Len(q) -> 0 .. Len(W)] : o[0] = n + Len(p) /\ Pieces(W, q, o)
  BY DEF Carried
<1> HIDE DEF n
<1> QED BY <1>2, <1>3, <1>4, <1>5, <1>6 DEF Carried, Pc, Fc

(* The daemon gets a pattern.                                              *)
LEMMA CarriedGet ==
    ASSUME NEW W \in Seq(Bytes), NEW q \in Seq(Seq(Bytes)), q # << >>, NEW P, NEW F,
           Carried(W, << >>, q, P, F)
    PROVE  Carried(W, Head(q), Tail(q), P, F)
<1> DEFINE n == Len(P) - Len(F)
           p == Head(q)
           r == Tail(q)
<1>1. /\ Len(q) \in Nat /\ 1 \in 1 .. Len(q) /\ p = q[1] /\ p \in Seq(Bytes) /\ Len(p) \in Nat
      /\ Len(r) = Len(q) - 1 /\ \A k \in 1 .. Len(r) : r[k] = q[k + 1]
      /\ Len(W) \in Nat
  BY HeadTailProperties
<1>2. PICK o \in [0 .. Len(q) -> 0 .. Len(W)] : o[0] = n + 0 /\ Pieces(W, q, o)
  <2>1. Len(<< >>) = 0
    OBVIOUS
  <2> QED BY <2>1 DEF Carried
<1>3. n \in Nat
  BY DEF Carried
<1>4. /\ \A i \in 1 .. n : P[i] = W[i]
      /\ \A i \in 1 .. Len(F) : P[n + i] = F[i]
  BY DEF Carried
<1> HIDE DEF n, p, r
<1> DEFINE u == [k \in 0 .. Len(r) |-> o[k + 1]]
<1>5. u \in [0 .. Len(r) -> 0 .. Len(W)] /\ \A k \in 0 .. Len(r) : u[k] = o[k + 1]
  <2>1. \A k \in 0 .. Len(r) : k + 1 \in 0 .. Len(q)
    BY <1>1
  <2>2. \A k \in 0 .. Len(r) : o[k + 1] \in 0 .. Len(W)
    BY <2>1
  <2> QED BY <2>2
<1> HIDE DEF u
<1>6. o[1] = o[1 - 1] + Len(p) /\ \A x \in 1 .. Len(p) : W[o[1 - 1] + x] = p[x]
  BY <1>1, <1>2 DEF Pieces
<1>7. o[0] = n /\ 1 - 1 = 0
  BY <1>2, <1>3
<1>8. 0 \in 0 .. Len(r) /\ 0 + 1 = 1 /\ Len(r) \in 0 .. Len(r) /\ Len(r) + 1 = Len(q)
  BY <1>1
<1>9. u[0] = n + Len(p) /\ u[Len(r)] = Len(W)
  BY <1>2, <1>5, <1>6, <1>7, <1>8 DEF Pieces
<1>10. ASSUME NEW k \in 1 .. Len(r)
       PROVE  u[k] = u[k - 1] + Len(r[k]) /\ \A x \in 1 .. Len(r[k]) : W[u[k - 1] + x] = r[k][x]
  <2>1. k \in 0 .. Len(r) /\ k - 1 \in 0 .. Len(r) /\ (k - 1) + 1 = k /\ k + 1 \in 1 .. Len(q) /\ k + 1 - 1 = k
    BY <1>1
  <2>2. o[k + 1] = o[k + 1 - 1] + Len(q[k + 1]) /\ \A x \in 1 .. Len(q[k + 1]) : W[o[k + 1 - 1] + x] = q[k + 1][x]
    BY <1>2, <2>1 DEF Pieces
  <2>3. u[k] = o[k + 1] /\ u[k - 1] = o[k] /\ r[k] = q[k + 1]
    BY <1>1, <1>5, <2>1
  <2> QED BY <2>1, <2>2, <2>3
<1>11. Pieces(W, r, u)
  BY <1>9, <1>10 DEF Pieces
<1>12. \A i \in 1 .. Len(p) : W[n + i] = p[i]
  BY <1>6, <1>7
<1> QED BY <1>3, <1>4, <1>5, <1>9, <1>11, <1>12 DEF Carried, n, p, r

(* A part of a pattern goes.                                               *)
LEMMA PartOf ==
    ASSUME NEW S, NEW p \in Seq(S), NEW m \in 0 .. Len(p)
    PROVE  /\ SubSeq(p, 1, m) \in Seq(S) /\ Len(SubSeq(p, 1, m)) = m
           /\ \A i \in 1 .. m : SubSeq(p, 1, m)[i] = p[i]
           /\ SubSeq(p, m + 1, Len(p)) \in Seq(S) /\ Len(SubSeq(p, m + 1, Len(p))) = Len(p) - m
           /\ \A i \in 1 .. Len(p) - m : m + i \in 1 .. Len(p) /\ SubSeq(p, m + 1, Len(p))[i] = p[m + i]
<1>1. Len(p) \in Nat /\ m \in Int /\ m + 1 \in Int /\ Len(p) \in Int /\ \A i \in 1 .. Len(p) : p[i] \in S
  OBVIOUS
<1>2. /\ SubSeq(p, 1, m) \in Seq(S) /\ Len(SubSeq(p, 1, m)) = IF 1 <= m THEN m - 1 + 1 ELSE 0
      /\ \A i \in 1 .. m - 1 + 1 : SubSeq(p, 1, m)[i] = p[1 + i - 1]
  <2>1. \A i \in 1 .. m : p[i] \in S
    BY <1>1
  <2> QED BY <1>1, <2>1, SubSeqProperties
<1>3. /\ SubSeq(p, m + 1, Len(p)) \in Seq(S)
      /\ Len(SubSeq(p, m + 1, Len(p))) = IF m + 1 <= Len(p) THEN Len(p) - (m + 1) + 1 ELSE 0
      /\ \A i \in 1 .. Len(p) - (m + 1) + 1 : SubSeq(p, m + 1, Len(p))[i] = p[m + 1 + i - 1]
  <2>1. \A i \in m + 1 .. Len(p) : p[i] \in S
    BY <1>1
  <2> QED BY <1>1, <2>1, SubSeqProperties
<1>4. m - 1 + 1 = m /\ \A i \in 1 .. m : 1 + i - 1 = i
  BY <1>1
<1>5. Len(p) - (m + 1) + 1 = Len(p) - m /\ \A i \in 1 .. Len(p) - m : m + 1 + i - 1 = m + i
  BY <1>1
<1>6. \A i \in 1 .. Len(p) - m : m + i \in 1 .. Len(p)
  BY <1>1
<1>7. Len(SubSeq(p, 1, m)) = m
  BY <1>1, <1>2
<1>8. Len(SubSeq(p, m + 1, Len(p))) = Len(p) - m
  BY <1>1, <1>3
<1> QED BY <1>2, <1>3, <1>4, <1>5, <1>6, <1>7, <1>8

(* con_proc has read m bytes, which match.                                 *)
LEMMA CarriedRead ==
    ASSUME NEW W, NEW p \in Seq(Bytes), NEW q, NEW P \in Seq(Bytes), NEW F \in Seq(Bytes), Carried(W, p, q, P, F),
           NEW m \in Nat, m <= Len(p), m <= Len(F), SubSeq(F, 1, m) = SubSeq(p, 1, m)
    PROVE  Carried(W, SubSeq(p, m + 1, Len(p)), q, P, SubSeq(F, m + 1, Len(F)))
<1> DEFINE n == Len(P) - Len(F)
           v == SubSeq(p, m + 1, Len(p))
           G == SubSeq(F, m + 1, Len(F))
<1>1. Len(p) \in Nat /\ Len(F) \in Nat /\ Len(P) \in Nat /\ m \in 0 .. Len(p) /\ m \in 0 .. Len(F)
  OBVIOUS
<1>2. /\ Len(v) = Len(p) - m /\ \A i \in 1 .. Len(p) - m : m + i \in 1 .. Len(p) /\ v[i] = p[m + i]
      /\ \A i \in 1 .. m : SubSeq(p, 1, m)[i] = p[i]
  BY <1>1, PartOf
<1>3. /\ Len(G) = Len(F) - m /\ \A i \in 1 .. Len(F) - m : m + i \in 1 .. Len(F) /\ G[i] = F[m + i]
      /\ \A i \in 1 .. m : SubSeq(F, 1, m)[i] = F[i]
  BY <1>1, PartOf
<1>4. \A i \in 1 .. m : F[i] = p[i]
  BY <1>2, <1>3
<1>5. /\ n \in Nat
      /\ \A i \in 1 .. n : P[i] = W[i]
      /\ \A i \in 1 .. Len(F) : P[n + i] = F[i]
      /\ \A i \in 1 .. Len(p) : W[n + i] = p[i]
      /\ \E o \in [0 .. Len(q) -> 0 .. Len(W)] : o[0] = n + Len(p) /\ Pieces(W, q, o)
  BY DEF Carried
<1> HIDE DEF v, G
<1>6. Len(P) - Len(G) = n + m
  BY <1>1, <1>3
<1> HIDE DEF n
<1>7. n + m \in Nat /\ n + m + Len(v) = n + Len(p)
  BY <1>1, <1>2, <1>5
<1>8. ASSUME NEW i \in 1 .. n + m PROVE P[i] = W[i]
  <2>1. CASE i <= n
    BY <1>5, <2>1
  <2>2. CASE ~ i <= n
    <3>1. i - n \in 1 .. m /\ n + (i - n) = i /\ i - n \in 1 .. Len(F) /\ i - n \in 1 .. Len(p)
      BY <1>1, <1>5, <2>2
    <3>2. P[n + (i - n)] = W[n + (i - n)]
      BY <1>4, <1>5, <3>1
    <3> QED BY <3>1, <3>2
  <2> QED BY <2>1, <2>2
<1>9. ASSUME NEW i \in 1 .. Len(G) PROVE P[n + m + i] = G[i]
  <2>1. i \in 1 .. Len(F) - m /\ n + (m + i) = n + m + i
    BY <1>1, <1>3, <1>5
  <2>2. m + i \in 1 .. Len(F) /\ G[i] = F[m + i]
    BY <1>3, <2>1
  <2> QED BY <1>5, <2>1, <2>2
<1>10. ASSUME NEW i \in 1 .. Len(v) PROVE W[n + m + i] = v[i]
  <2>1. i \in 1 .. Len(p) - m /\ n + (m + i) = n + m + i
    BY <1>1, <1>2, <1>5
  <2>2. m + i \in 1 .. Len(p) /\ v[i] = p[m + i]
    BY <1>2, <2>1
  <2> QED BY <1>5, <2>1, <2>2
<1> QED BY <1>5, <1>6, <1>7, <1>8, <1>9, <1>10 DEF Carried, v, G

(* kbd_proc has typed m bytes.                                             *)
LEMMA CarriedTyped ==
    ASSUME NEW W, NEW p \in Seq(Bytes), NEW q, NEW P \in Seq(Bytes), Carried(W, p, q, P, << >>),
           NEW m \in Nat, m <= Len(p)
    PROVE  Carried(W, SubSeq(p, m + 1, Len(p)), q, P \o SubSeq(p, 1, m), << >>)
<1> DEFINE n == Len(P)
           v == SubSeq(p, m + 1, Len(p))
           a == SubSeq(p, 1, m)
           R == P \o a
<1>1. Len(p) \in Nat /\ Len(P) \in Nat /\ m \in 0 .. Len(p) /\ Len(<< >>) = 0 /\ \A k \in Nat : k - 0 = k
  OBVIOUS
<1>2. /\ Len(v) = Len(p) - m /\ \A i \in 1 .. Len(p) - m : m + i \in 1 .. Len(p) /\ v[i] = p[m + i]
      /\ a \in Seq(Bytes) /\ Len(a) = m /\ \A i \in 1 .. m : a[i] = p[i]
  BY <1>1, PartOf
<1>3. /\ \A i \in 1 .. n : P[i] = W[i]
      /\ \A i \in 1 .. Len(p) : W[n + i] = p[i]
      /\ \E o \in [0 .. Len(q) -> 0 .. Len(W)] : o[0] = n + Len(p) /\ Pieces(W, q, o)
  BY <1>1 DEF Carried
<1> HIDE DEF v, a
<1>4. Len(R) = n + m /\ (\A i \in 1 .. n : R[i] = P[i]) /\ \A i \in 1 .. m : R[n + i] = a[i]
  BY <1>1, <1>2
<1> HIDE DEF R
<1>5. n \in Nat /\ n + m \in Nat /\ n + m + Len(v) = n + Len(p) /\ Len(R) - Len(<< >>) = n + m
  BY <1>1, <1>2, <1>4
<1> HIDE DEF n
<1>6. ASSUME NEW i \in 1 .. n + m PROVE R[i] = W[i]
  <2>1. CASE i <= n
    BY <1>3, <1>4, <1>5, <2>1
  <2>2. CASE ~ i <= n
    <3>1. i - n \in 1 .. m /\ n + (i - n) = i /\ i - n \in 1 .. Len(p)
      BY <1>1, <1>5, <2>2
    <3>2. R[n + (i - n)] = W[n + (i - n)]
      BY <1>2, <1>3, <1>4, <3>1
    <3> QED BY <3>1, <3>2
  <2> QED BY <2>1, <2>2
<1>7. ASSUME NEW i \in 1 .. Len(v) PROVE W[n + m + i] = v[i]
  <2>1. i \in 1 .. Len(p) - m /\ n + (m + i) = n + m + i
    BY <1>1, <1>2, <1>5
  <2>2. m + i \in 1 .. Len(p) /\ v[i] = p[m + i]
    BY <1>2, <2>1
  <2> QED BY <1>3, <2>1, <2>2
<1>8. 1 .. Len(<< >>) = {}
  OBVIOUS
<1> QED BY <1>3, <1>5, <1>6, <1>7, <1>8 DEF Carried, v, a, R

(* Nothing is left: all that was wanted has passed.                        *)
LEMMA CarriedAll ==
    ASSUME NEW W \in Seq(Bytes), NEW P \in Seq(Bytes), NEW F \in Seq(Bytes), Carried(W, << >>, << >>, P, F)
    PROVE  /\ Len(W) = Len(P) - Len(F) /\ Len(W) <= Len(P)
           /\ \A i \in 1 .. Len(W) : W[i] = P[i]
<1> DEFINE n == Len(P) - Len(F)
<1>1. Len(<< >>) = 0
  OBVIOUS
<1>2. PICK o \in [0 .. 0 -> 0 .. Len(W)] : o[0] = n + 0 /\ Pieces(W, << >>, o)
  BY <1>1 DEF Carried
<1>3. n \in Nat /\ \A i \in 1 .. n : P[i] = W[i]
  BY DEF Carried
<1>4. o[0] = Len(W)
  BY <1>1, <1>2 DEF Pieces
<1>5. Len(W) = n
  BY <1>2, <1>3, <1>4
<1>6. Len(P) \in Nat /\ Len(F) \in Nat
  OBVIOUS
<1> QED BY <1>3, <1>5, <1>6

-----------------------------------------------------------------------------
(* The steps of a test and of its daemons.                                 *)

(* A daemon that a step does not concern.                                  *)
LEMMA DaemonStays ==
    ASSUME NEW e \in U!Daemons, DaemonInv(e), UNCHANGED <<suite, t>>, U!Test.script \in Seq(Operations),
           cpc \in Nat, cpc' \in {cpc, cpc + 1},
           pattern'[e] = pattern[e], complete'[e] = complete[e], dpc'[e] = dpc[e], rest'[e] = rest[e],
           wanted'[e] = wanted[e], passed'[e] = passed[e], e = "con" => fifo'["con"] = fifo["con"],
           ~ FLAG_FAILURE' => ~ FLAG_FAILURE
    PROVE  DaemonInv(e)'
<1>1. U!Test' = U!Test
  BY DEF U!Test
<1>2. Len(U!Test.script) \in Nat
  OBVIOUS
<1>3. complete[e] => cpc' > Len(U!Test.script) \/ Silent(U!Test.script)
  BY <1>2 DEF DaemonInv
<1>4. Unread(e)' = Unread(e)
  BY DEF Unread
<1>5. (complete[e] => cpc > Len(U!Test.script) \/ Silent(U!Test.script))'
  BY <1>1, <1>3 DEF Silent
<1>6. (dpc[e] = "ended" => complete[e] /\ pattern[e] = << >>)'
  BY DEF DaemonInv
<1>7. (~ FLAG_FAILURE =>
         /\ dpc[e] \in {"get", "ended"} => rest[e] = << >>
         /\ Carried(wanted[e], rest[e], pattern[e], passed[e], Unread(e)))'
  BY <1>4 DEF DaemonInv
<1> QED BY <1>5, <1>6, <1>7 DEF DaemonInv

(* The operation that the test has got to.                                 *)
LEMMA OpType ==
    ASSUME TestInv, NEW w, U!InScript(w)
    PROVE  /\ cpc \in 1 .. Len(U!Test.script) /\ U!Op = U!Test.script[cpc] /\ U!Op[1] = w
           /\ w \in {"expect", "sendme"} => U!Op[2] \in Seq(Bytes)
           /\ w \in {"write", "read"} => U!Op[2] \in Bytes
           /\ w # "fail" => U!Op # <<"fail">>
           /\ w \notin {"fail", "hang"} => ~ Silent(U!Test.script)
<1>1. U!Test.script \in Seq(Operations) /\ cpc \in Nat \ {0} /\ Len(U!Test.script) \in Nat
  BY DEF TestInv
<1>2. cpc \in 1 .. Len(U!Test.script) /\ U!Op = U!Test.script[cpc] /\ U!Op[1] = w
  BY <1>1 DEF U!InScript, U!Op
<1>3. U!Op \in Operations
  BY <1>1, <1>2
<1>4. CASE U!Op \in {"expect", "sendme"} \X Seq(Bytes)
  <2>1. U!Op[1] \in {"expect", "sendme"} /\ U!Op[2] \in Seq(Bytes)
    BY <1>4
  <2> QED BY <1>2, <2>1 DEF Silent
<1>5. CASE U!Op \in {"write", "read"} \X Bytes
  <2>1. U!Op[1] \in {"write", "read"} /\ U!Op[2] \in Bytes
    BY <1>5
  <2> QED BY <1>2, <2>1 DEF Silent
<1>6. CASE U!Op \in {<<"fail">>, <<"hang">>}
  <2>1. U!Op[1] \in {"fail", "hang"} /\ (U!Op = <<"fail">> => U!Op[1] = "fail")
    BY <1>6
  <2> QED BY <1>2, <2>1
<1> QED BY <1>3, <1>4, <1>5, <1>6 DEF Operations

(* A step of the script that is not a failed ASSERT.                       *)
LEMMA FailuresStay ==
    ASSUME TestInv, NEW w, U!InScript(w), UNCHANGED <<suite, t>>, cpc' = cpc + 1,
           w = "fail" => FLAG_FAILURE', ~ FLAG_FAILURE' => ~ FLAG_FAILURE
    PROVE  /\ FailuresKept' /\ (U!Test.script \in Seq(Operations))' /\ (cpc \in Nat \ {0})'
<1>1. U!Test' = U!Test
  BY DEF U!Test
<1>2. cpc \in Nat \ {0} /\ U!Test.script \in Seq(Operations) /\ FailuresKept
  BY DEF TestInv
<1>3. w # "fail" => U!Test.script[cpc] # <<"fail">>
  BY OpType
<1>4. ASSUME ~ FLAG_FAILURE', NEW k \in 1 .. Len(U!Test.script), k < cpc + 1
      PROVE  U!Test.script[k] # <<"fail">>
  <2>1. CASE k = cpc
    BY <1>3, <1>4, <2>1
  <2>2. CASE k # cpc
    <3>1. k < cpc
      BY <1>2, <1>4, <2>2
    <3> QED BY <1>2, <1>4, <3>1 DEF FailuresKept
  <2> QED BY <2>1, <2>2
<1>5. FailuresKept'
  BY <1>1, <1>4 DEF FailuresKept
<1>6. cpc + 1 \in Nat \ {0}
  BY <1>2
<1> QED BY <1>1, <1>2, <1>5, <1>6

(* A test that can still talk has not marked its daemons.                  *)
LEMMA NotMarked ==
    ASSUME TestInv, NEW w, U!InScript(w), w \notin {"fail", "hang"}, NEW d \in U!Daemons
    PROVE  complete[d] = FALSE /\ dpc[d] # "ended"
<1>1. DaemonInv(d) /\ cpc \in Nat /\ U!Test.script \in Seq(Operations) /\ complete[d] \in BOOLEAN
  BY DEF TestInv, ProxyTypes
<1>2. cpc \in 1 .. Len(U!Test.script) /\ ~ Silent(U!Test.script)
  BY OpType
<1>3. ~ cpc > Len(U!Test.script)
  BY <1>1, <1>2
<1> QED BY <1>1, <1>2, <1>3 DEF DaemonInv

LEMMA AddKeeps ==
    ASSUME TestInv, child = "running", NEW d \in U!Daemons, NEW w \in {"expect", "sendme"}, U!InScript(w),
           U!term_proxy_daemon_add(d, U!Op[2]), cpc' = cpc + 1, U!OnlyProxy
    PROVE  TestInv'
<1> DEFINE p == U!Op[2]
<1>1. ProxyTypes /\ U!Test.script \in Seq(Operations) /\ cpc \in Nat /\ \A e \in U!Daemons : DaemonInv(e)
  BY DEF TestInv
<1>2. p \in Seq(Bytes) /\ complete[d] = FALSE /\ dpc[d] # "ended"
  BY OpType, NotMarked
<1>3. UNCHANGED <<suite, t, child>>
  BY DEF U!OnlyProxy, U!argVars, U!loopVars
<1>4. /\ pattern' = [pattern EXCEPT ![d] = Append(pattern[d], p)]
      /\ wanted' = [wanted EXCEPT ![d] = wanted[d] \o p]
      /\ UNCHANGED <<complete, dpc, rest, have_data, oldcomplete, fifo, FLAG_FAILURE, passed>>
  BY DEF U!term_proxy_daemon_add
<1> HIDE DEF p
<1>5. /\ pattern[d] \in Seq(Seq(Bytes)) /\ wanted[d] \in Seq(Bytes)
      /\ rest[d] \in Seq(Bytes) /\ passed[d] \in Seq(Bytes) /\ Unread(d) \in Seq(Bytes)
  BY <1>1 DEF ProxyTypes, Unread, U!Daemons
<1>6. Append(pattern[d], p) \in Seq(Seq(Bytes)) /\ wanted[d] \o p \in Seq(Bytes)
  BY <1>2, <1>5
<1>7. /\ pattern' \in [U!Daemons -> Seq(Seq(Bytes))] /\ wanted' \in [U!Daemons -> Seq(Bytes)]
      /\ pattern'[d] = Append(pattern[d], p) /\ wanted'[d] = wanted[d] \o p
      /\ \A e \in U!Daemons : e # d => pattern'[e] = pattern[e] /\ wanted'[e] = wanted[e]
  BY <1>1, <1>4, <1>6 DEF ProxyTypes
<1>8. ProxyTypes'
  BY <1>1, <1>4, <1>7 DEF ProxyTypes
<1>9. DaemonInv(d)'
  <2>1. Unread(d)' = Unread(d)
    BY <1>4 DEF Unread
  <2>2. ~ FLAG_FAILURE => Carried(wanted[d] \o p, rest[d], Append(pattern[d], p), passed[d], Unread(d))
    <3> HAVE ~ FLAG_FAILURE
    <3>1. Carried(wanted[d], rest[d], pattern[d], passed[d], Unread(d))
      BY <1>1 DEF DaemonInv
    <3> QED BY <1>2, <1>5, <3>1, CarriedAdd
  <2>3. ~ FLAG_FAILURE /\ dpc[d] \in {"get", "ended"} => rest[d] = << >>
    BY <1>1 DEF DaemonInv
  <2> QED BY <1>2, <1>4, <1>7, <2>1, <2>2, <2>3 DEF DaemonInv
<1>10. ASSUME NEW e \in U!Daemons, e # d PROVE DaemonInv(e)'
  BY <1>1, <1>3, <1>4, <1>7, <1>10, DaemonStays
<1>11. FailuresKept' /\ (U!Test.script \in Seq(Operations))' /\ (cpc \in Nat \ {0})'
  BY <1>3, <1>4, FailuresStay
<1>12. child' # "exited"
  BY <1>3
<1> QED BY <1>8, <1>9, <1>10, <1>11, <1>12 DEF TestInv

LEMMA ConsoleOutKeeps ==
    ASSUME TestInv, child = "running", U!InScript("write"), U!ConsoleOut(U!Op[2]), cpc' = cpc + 1, U!OnlyProxy
    PROVE  TestInv'
<1> DEFINE c == U!Op[2]
<1>1. ProxyTypes /\ U!Test.script \in Seq(Operations) /\ cpc \in Nat /\ \A e \in U!Daemons : DaemonInv(e)
  BY DEF TestInv
<1>2. c \in Bytes
  BY OpType
<1>3. UNCHANGED <<suite, t, child>>
  BY DEF U!OnlyProxy, U!argVars, U!loopVars
<1>4. /\ fifo' = [fifo EXCEPT !["con"] = Append(fifo["con"], c)]
      /\ passed' = [passed EXCEPT !["con"] = Append(passed["con"], c)]
      /\ UNCHANGED <<pattern, complete, dpc, rest, have_data, oldcomplete, FLAG_FAILURE, wanted>>
  BY DEF U!ConsoleOut
<1> HIDE DEF c
<1>5. /\ "con" \in U!Daemons /\ "kbd" \in U!Daemons /\ "con" # "kbd"
      /\ passed["con"] \in Seq(Bytes) /\ fifo["con"] \in Seq(Bytes)
  BY <1>1 DEF ProxyTypes, U!Daemons
<1>6. Append(fifo["con"], c) \in Seq(Bytes) /\ Append(passed["con"], c) \in Seq(Bytes)
  BY <1>2, <1>5
<1>7. /\ fifo' \in [U!Daemons -> Seq(Bytes)] /\ passed' \in [U!Daemons -> Seq(Bytes)]
      /\ fifo'["con"] = Append(fifo["con"], c) /\ passed'["con"] = Append(passed["con"], c)
      /\ fifo'["kbd"] = fifo["kbd"] /\ passed'["kbd"] = passed["kbd"]
  BY <1>1, <1>4, <1>5, <1>6 DEF ProxyTypes
<1>8. ProxyTypes'
  BY <1>1, <1>4, <1>7 DEF ProxyTypes
<1>9. DaemonInv("con")'
  <2>1. U!Test' = U!Test /\ Unread("con") = fifo["con"] /\ Unread("con")' = Append(fifo["con"], c)
    BY <1>3, <1>7 DEF U!Test, Unread
  <2>2. ~ FLAG_FAILURE => Carried(wanted["con"], rest["con"], pattern["con"], passed'["con"], Unread("con")')
    <3> HAVE ~ FLAG_FAILURE
    <3>1. Carried(wanted["con"], rest["con"], pattern["con"], passed["con"], fifo["con"])
      BY <1>1, <1>5, <2>1 DEF DaemonInv
    <3>2. Carried(wanted["con"], rest["con"], pattern["con"], Append(passed["con"], c), Append(fifo["con"], c))
      BY <1>2, <1>5, <3>1, CarriedWrite
    <3> QED BY <1>7, <2>1, <3>2
  <2>3. ~ FLAG_FAILURE /\ dpc["con"] \in {"get", "ended"} => rest["con"] = << >>
    BY <1>1, <1>5 DEF DaemonInv
  <2>4. complete["con"] = FALSE /\ dpc["con"] # "ended"
    BY <1>5, NotMarked
  <2> QED BY <1>4, <2>2, <2>3, <2>4 DEF DaemonInv
<1>10. DaemonInv("kbd")'
  BY <1>1, <1>3, <1>4, <1>5, <1>7, DaemonStays
<1>11. FailuresKept' /\ (U!Test.script \in Seq(Operations))' /\ (cpc \in Nat \ {0})'
  BY <1>3, <1>4, FailuresStay
<1>12. child' # "exited"
  BY <1>3
<1> QED BY <1>8, <1>9, <1>10, <1>11, <1>12 DEF TestInv, U!Daemons

LEMMA KeyboardInKeeps ==
    ASSUME TestInv, child = "running", U!InScript("read"), U!KeyboardIn(U!Op[2]), cpc' = cpc + 1, U!OnlyProxy
    PROVE  TestInv'
<1>1. ProxyTypes /\ U!Test.script \in Seq(Operations) /\ cpc \in Nat /\ \A e \in U!Daemons : DaemonInv(e)
  BY DEF TestInv
<1>2. UNCHANGED <<suite, t, child>>
  BY DEF U!OnlyProxy, U!argVars, U!loopVars
<1>3. /\ fifo["kbd"] # << >> /\ fifo' = [fifo EXCEPT !["kbd"] = Tail(fifo["kbd"])]
      /\ FLAG_FAILURE' = (FLAG_FAILURE \/ Head(fifo["kbd"]) # U!Op[2])
      /\ UNCHANGED <<pattern, complete, dpc, rest, have_data, oldcomplete, wanted, passed>>
  BY DEF U!KeyboardIn
<1>4. /\ "con" \in U!Daemons /\ "kbd" \in U!Daemons /\ "con" # "kbd" /\ fifo["kbd"] \in Seq(Bytes)
  BY <1>1 DEF ProxyTypes, U!Daemons
<1>5. Tail(fifo["kbd"]) \in Seq(Bytes) /\ Len(Tail(fifo["kbd"])) = Len(fifo["kbd"]) - 1 /\ Len(fifo["kbd"]) \in Nat
  BY <1>3, <1>4
<1>6. /\ fifo' \in [U!Daemons -> Seq(Bytes)]
      /\ fifo'["kbd"] = Tail(fifo["kbd"]) /\ fifo'["con"] = fifo["con"]
  BY <1>1, <1>3, <1>4, <1>5 DEF ProxyTypes
<1>7. ProxyTypes'
  <2>1. Len(fifo["kbd"]) <= Capacity /\ Capacity \in Nat
    BY <1>1, SupportAssumption DEF ProxyTypes
  <2>2. Len(fifo'["kbd"]) <= Capacity
    BY <1>5, <1>6, <2>1
  <2>3. FLAG_FAILURE' \in BOOLEAN
    BY <1>3
  <2> QED BY <1>1, <1>3, <1>6, <2>2, <2>3 DEF ProxyTypes
<1>8. ~ FLAG_FAILURE' => ~ FLAG_FAILURE
  BY <1>3
<1>9. \A e \in U!Daemons : DaemonInv(e)'
  BY <1>1, <1>2, <1>3, <1>6, <1>8, DaemonStays
<1>10. FailuresKept' /\ (U!Test.script \in Seq(Operations))' /\ (cpc \in Nat \ {0})'
  BY <1>2, <1>8, FailuresStay
<1>11. child' # "exited"
  BY <1>2
<1> QED BY <1>7, <1>9, <1>10, <1>11 DEF TestInv

LEMMA FailKeeps ==
    ASSUME TestInv, child = "running", U!InScript("fail"), FLAG_FAILURE' = TRUE,
           UNCHANGED <<pattern, complete, dpc, rest, have_data, oldcomplete, fifo, wanted, passed>>,
           cpc' = cpc + 1, U!OnlyProxy
    PROVE  TestInv'
<1>1. ProxyTypes /\ U!Test.script \in Seq(Operations) /\ cpc \in Nat /\ \A e \in U!Daemons : DaemonInv(e)
  BY DEF TestInv
<1>2. UNCHANGED <<suite, t, child>>
  BY DEF U!OnlyProxy, U!argVars, U!loopVars
<1>3. ProxyTypes'
  BY <1>1 DEF ProxyTypes
<1>4. \A e \in U!Daemons : DaemonInv(e)'
  BY <1>1, <1>2, DaemonStays
<1>5. FailuresKept' /\ (U!Test.script \in Seq(Operations))' /\ (cpc \in Nat \ {0})'
  BY <1>2, FailuresStay
<1>6. child' # "exited"
  BY <1>2
<1> QED BY <1>3, <1>4, <1>5, <1>6 DEF TestInv

LEMMA ScriptStepKeeps == ASSUME TestInv, U!ScriptStep PROVE TestInv' /\ child = "running" /\ child' = "running"
<1>1. child = "running" /\ child' = child /\ cpc' = cpc + 1 /\ U!OnlyProxy
  BY DEF U!ScriptStep, U!InScript, U!Running, U!OnlyProxy
<1>2. "con" \in U!Daemons /\ "kbd" \in U!Daemons
  BY DEF U!Daemons
<1>3. CASE U!InScript("expect") /\ U!term_proxy_daemon_add("con", U!Op[2])
  BY <1>1, <1>2, <1>3, AddKeeps
<1>4. CASE U!InScript("sendme") /\ U!term_proxy_daemon_add("kbd", U!Op[2])
  BY <1>1, <1>2, <1>4, AddKeeps
<1>5. CASE U!InScript("write") /\ U!ConsoleOut(U!Op[2])
  BY <1>1, <1>5, ConsoleOutKeeps
<1>6. CASE U!InScript("read") /\ U!KeyboardIn(U!Op[2])
  BY <1>1, <1>6, KeyboardInKeeps
<1>7. CASE /\ U!InScript("fail") /\ FLAG_FAILURE' = TRUE
           /\ UNCHANGED <<pattern, complete, dpc, rest, have_data, oldcomplete, fifo, wanted, passed>>
  BY <1>1, <1>7, FailKeeps
<1> QED BY <1>1, <1>3, <1>4, <1>5, <1>6, <1>7 DEF U!ScriptStep

(* A step that concerns one daemon.                                        *)
LEMMA DaemonStep ==
    ASSUME TestInv, child = "running", UNCHANGED <<suite, t, child, cpc>>, NEW d \in U!Daemons,
           ProxyTypes', DaemonInv(d)', ~ FLAG_FAILURE' => ~ FLAG_FAILURE,
           \A e \in U!Daemons : e # d =>
             /\ pattern'[e] = pattern[e] /\ complete'[e] = complete[e] /\ dpc'[e] = dpc[e] /\ rest'[e] = rest[e]
             /\ wanted'[e] = wanted[e] /\ passed'[e] = passed[e] /\ fifo'[e] = fifo[e]
    PROVE  TestInv'
<1>1. U!Test' = U!Test
  BY DEF U!Test
<1>2. U!Test.script \in Seq(Operations) /\ cpc \in Nat \ {0} /\ FailuresKept /\ \A e \in U!Daemons : DaemonInv(e)
  BY DEF TestInv
<1>3. ASSUME NEW e \in U!Daemons, e # d PROVE DaemonInv(e)'
  <2>1. cpc \in Nat /\ cpc' \in {cpc, cpc + 1} /\ DaemonInv(e)
    BY <1>2
  <2>2. fifo'[e] = fifo[e]
    BY <1>3
  <2> QED BY <1>2, <1>3, <2>1, <2>2, DaemonStays
<1>4. FailuresKept'
  BY <1>1, <1>2 DEF FailuresKept
<1>5. (U!Test.script \in Seq(Operations))' /\ (cpc \in Nat \ {0})'
  BY <1>1, <1>2
<1> QED BY <1>3, <1>4, <1>5 DEF TestInv

LEMMA CloseKeeps == ASSUME TestInv, U!term_proxy_close PROVE TestInv' /\ child = "running" /\ child' = "running"
<1>1. /\ child = "running" /\ UNCHANGED <<suite, t, child, cpc>> /\ cpc > Len(U!Test.script)
  BY DEF U!term_proxy_close, U!OnlyProxy, U!argVars, U!loopVars, U!Running
<1>2. UNCHANGED <<pattern, dpc, rest, have_data, oldcomplete, fifo, FLAG_FAILURE, wanted, passed>>
  BY DEF U!term_proxy_close, U!MarkComplete
<1>3. PICK d \in U!Daemons : complete' = [complete EXCEPT ![d] = TRUE]
  <2>1. "con" \in U!Daemons /\ "kbd" \in U!Daemons
    BY DEF U!Daemons
  <2> QED BY <2>1 DEF U!term_proxy_close, U!MarkComplete
<1>4. ProxyTypes /\ DaemonInv(d)
  BY DEF TestInv
<1>5. /\ complete' \in [U!Daemons -> BOOLEAN] /\ complete'[d] = TRUE
      /\ \A e \in U!Daemons : e # d => complete'[e] = complete[e]
  BY <1>4, <1>3 DEF ProxyTypes
<1>6. ProxyTypes'
  BY <1>2, <1>4, <1>5 DEF ProxyTypes
<1>7. DaemonInv(d)'
  <2>1. U!Test' = U!Test /\ Unread(d)' = Unread(d)
    BY <1>1, <1>2 DEF U!Test, Unread
  <2>2. (complete[d] => cpc > Len(U!Test.script) \/ Silent(U!Test.script))'
    BY <1>1, <2>1
  <2>3. (dpc[d] = "ended" => complete[d] /\ pattern[d] = << >>)'
    BY <1>2, <1>4, <1>5 DEF DaemonInv
  <2>4. (~ FLAG_FAILURE =>
           /\ dpc[d] \in {"get", "ended"} => rest[d] = << >>
           /\ Carried(wanted[d], rest[d], pattern[d], passed[d], Unread(d)))'
    BY <1>2, <1>4, <2>1 DEF DaemonInv
  <2> QED BY <2>2, <2>3, <2>4 DEF DaemonInv
<1>8. TestInv'
  BY <1>1, <1>2, <1>5, <1>6, <1>7, DaemonStep
<1> QED BY <1>1, <1>8

LEMMA GetKeeps ==
    ASSUME TestInv, child = "running", UNCHANGED <<suite, t, child, cpc>>, NEW d \in U!Daemons, U!term_proxy_daemon_get(d)
    PROVE  TestInv'
<1>1. ProxyTypes /\ DaemonInv(d) /\ dpc[d] = "get" /\ (complete[d] \/ pattern[d] # << >>)
  BY DEF TestInv, U!term_proxy_daemon_get
<1>2. /\ pattern[d] \in Seq(Seq(Bytes)) /\ rest[d] \in Seq(Bytes) /\ wanted[d] \in Seq(Bytes)
      /\ complete[d] \in BOOLEAN
  BY <1>1 DEF ProxyTypes
<1>3. UNCHANGED <<complete, have_data, oldcomplete, fifo, FLAG_FAILURE, wanted, passed>>
  BY DEF U!term_proxy_daemon_get
<1>4. U!Test' = U!Test /\ Unread(d)' = Unread(d)
  BY <1>3 DEF U!Test, Unread
<1>5. complete'[d] => (cpc > Len(U!Test.script) \/ Silent(U!Test.script))'
  BY <1>1, <1>3, <1>4 DEF DaemonInv
<1>6. ~ FLAG_FAILURE => rest[d] = << >> /\ Carried(wanted[d], rest[d], pattern[d], passed[d], Unread(d))
  BY <1>1 DEF DaemonInv
<1>7. CASE pattern[d] # << >>
  <2>1. /\ rest' = [rest EXCEPT ![d] = Head(pattern[d])]
        /\ pattern' = [pattern EXCEPT ![d] = Tail(pattern[d])]
        /\ dpc' = [dpc EXCEPT ![d] = IF Head(pattern[d]) = << >> THEN "get" ELSE "poll"]
    BY <1>7 DEF U!term_proxy_daemon_get, U!GetsPattern, U!GoTo
  <2>2. Head(pattern[d]) \in Seq(Bytes) /\ Tail(pattern[d]) \in Seq(Seq(Bytes))
    BY <1>2, <1>7
  <2>3. /\ rest' \in [U!Daemons -> Seq(Bytes)] /\ rest'[d] = Head(pattern[d])
        /\ pattern' \in [U!Daemons -> Seq(Seq(Bytes))] /\ pattern'[d] = Tail(pattern[d])
        /\ dpc' \in [U!Daemons -> {"get", "ended", "poll", "polled", "read", "save", "write"}]
        /\ dpc'[d] \in {"get", "poll"} /\ (dpc'[d] = "get" => rest'[d] = << >>)
        /\ \A e \in U!Daemons : e # d => rest'[e] = rest[e] /\ pattern'[e] = pattern[e] /\ dpc'[e] = dpc[e]
    BY <1>1, <2>1, <2>2 DEF ProxyTypes
  <2>4. ProxyTypes'
    BY <1>1, <1>3, <2>3 DEF ProxyTypes
  <2>5. ~ FLAG_FAILURE => Carried(wanted[d], Head(pattern[d]), Tail(pattern[d]), passed[d], Unread(d))
    BY <1>2, <1>6, <1>7, CarriedGet
  <2>6. DaemonInv(d)'
    BY <1>3, <1>4, <1>5, <2>3, <2>5 DEF DaemonInv
  <2> QED BY <1>3, <2>3, <2>4, <2>6, DaemonStep
<1>8. CASE pattern[d] = << >>
  <2>1. dpc' = [dpc EXCEPT ![d] = "ended"] /\ UNCHANGED <<rest, pattern>>
    BY <1>8 DEF U!term_proxy_daemon_get, U!GetsPattern, U!GoTo
  <2>2. /\ dpc' \in [U!Daemons -> {"get", "ended", "poll", "polled", "read", "save", "write"}]
        /\ \A e \in U!Daemons : e # d => dpc'[e] = dpc[e]
    BY <1>1, <2>1 DEF ProxyTypes
  <2>3. ProxyTypes'
    BY <1>1, <1>3, <2>1, <2>2 DEF ProxyTypes
  <2>4. DaemonInv(d)'
    BY <1>1, <1>3, <1>4, <1>5, <1>6, <1>8, <2>1 DEF DaemonInv
  <2> QED BY <1>3, <2>1, <2>2, <2>3, <2>4, DaemonStep
<1> QED BY <1>7, <1>8

(* A daemon moves in its loop, and may find that a pattern is not used up. *)
LEMMA MoveKeeps ==
    ASSUME TestInv, child = "running", UNCHANGED <<suite, t, child, cpc>>, NEW d \in U!Daemons,
           NEW place \in {"get", "poll", "polled", "read", "save", "write"}, dpc' = [dpc EXCEPT ![d] = place],
           FLAG_FAILURE' \in BOOLEAN, FLAG_FAILURE => FLAG_FAILURE',
           place = "get" => FLAG_FAILURE' \/ rest[d] = << >>,
           UNCHANGED <<pattern, complete, rest, fifo, wanted, passed>>
    PROVE  TestInv'
<1>1. ProxyTypes /\ DaemonInv(d)
  BY DEF TestInv
<1>2. /\ dpc' \in [U!Daemons -> {"get", "ended", "poll", "polled", "read", "save", "write"}]
      /\ dpc'[d] = place /\ \A e \in U!Daemons : e # d => dpc'[e] = dpc[e]
  BY <1>1 DEF ProxyTypes
<1>3. ProxyTypes'
  BY <1>1, <1>2 DEF ProxyTypes
<1>4. U!Test' = U!Test /\ Unread(d)' = Unread(d)
  BY DEF U!Test, Unread
<1>5. DaemonInv(d)'
  <2>1. (complete[d] => cpc > Len(U!Test.script) \/ Silent(U!Test.script))'
    BY <1>1, <1>4 DEF DaemonInv
  <2>2. (dpc[d] = "ended" => complete[d] /\ pattern[d] = << >>)'
    BY <1>2
  <2>3. ASSUME ~ FLAG_FAILURE' PROVE place \in {"get", "ended"} => rest[d] = << >>
    BY <2>3
  <2>4. ASSUME ~ FLAG_FAILURE' PROVE Carried(wanted[d], rest[d], pattern[d], passed[d], Unread(d))
    BY <1>1, <2>4 DEF DaemonInv
  <2>5. (~ FLAG_FAILURE =>
           /\ dpc[d] \in {"get", "ended"} => rest[d] = << >>
           /\ Carried(wanted[d], rest[d], pattern[d], passed[d], Unread(d)))'
    BY <1>2, <1>4, <2>3, <2>4
  <2> QED BY <2>1, <2>2, <2>5 DEF DaemonInv
<1> QED BY <1>2, <1>3, <1>5, DaemonStep

LEMMA ConReadKeeps ==
    ASSUME TestInv, child = "running", UNCHANGED <<suite, t, child, cpc>>, U!con_proc_read
    PROVE  TestInv'
<1> DEFINE pat == rest["con"]
           F   == fifo["con"]
           rc  == IF Len(F) < Len(pat) THEN Len(F) ELSE Len(pat)
           matched == SubSeq(F, 1, rc) = SubSeq(pat, 1, rc)
           left == IF matched THEN SubSeq(pat, rc + 1, Len(pat)) ELSE pat
           G    == SubSeq(F, rc + 1, Len(F))
<1>1. ProxyTypes /\ "con" \in U!Daemons /\ DaemonInv("con") /\ FLAG_FAILURE \in BOOLEAN
  BY DEF TestInv, U!Daemons, ProxyTypes
<1>2. /\ pat \in Seq(Bytes) /\ F \in Seq(Bytes) /\ passed["con"] \in Seq(Bytes)
  BY <1>1 DEF ProxyTypes
<1>3. /\ fifo' = [fifo EXCEPT !["con"] = G] /\ rest' = [rest EXCEPT !["con"] = left]
      /\ UNCHANGED <<pattern, complete, have_data, oldcomplete, wanted, passed>>
      /\ dpc["con"] = "read"
  BY DEF U!con_proc_read
<1>4. \/ matched /\ dpc' = [dpc EXCEPT !["con"] = "poll"] /\ FLAG_FAILURE' = FLAG_FAILURE
      \/ dpc' = [dpc EXCEPT !["con"] = "get"] /\ FLAG_FAILURE' = (FLAG_FAILURE \/ left # << >>)
  BY DEF U!con_proc_read, U!ProcEnds, U!GoTo
<1>5. rc \in Nat /\ rc <= Len(pat) /\ rc <= Len(F) /\ Len(pat) \in Nat /\ Len(F) \in Nat
  BY <1>2
<1> HIDE DEF rc
<1>6. /\ G \in Seq(Bytes) /\ SubSeq(pat, rc + 1, Len(pat)) \in Seq(Bytes)
  <2>1. rc \in 0 .. Len(pat) /\ rc \in 0 .. Len(F)
    BY <1>5
  <2> QED BY <1>2, <2>1, PartOf
<1>7. left \in Seq(Bytes)
  BY <1>2, <1>6
<1>8. ~ FLAG_FAILURE' => ~ FLAG_FAILURE /\ matched
  <2>1. ASSUME ~ matched, left = << >> PROVE FALSE
    <3>1. Len(pat) = 0
      BY <2>1
    <3>2. rc = 0
      BY <1>5, <3>1
    <3>3. SubSeq(F, 1, 0) = << >> /\ SubSeq(pat, 1, 0) = << >>
      BY SubSeqEmpty
    <3> QED BY <2>1, <3>2, <3>3
  <2> QED BY <1>1, <1>4, <2>1
<1>9. FLAG_FAILURE' \in BOOLEAN
  BY <1>1, <1>4
<1>10. ~ FLAG_FAILURE' => Carried(wanted["con"], left, pattern["con"], passed["con"], G)
  <2> HAVE ~ FLAG_FAILURE'
  <2>1. Carried(wanted["con"], pat, pattern["con"], passed["con"], F)
    BY <1>1, <1>8 DEF DaemonInv, Unread
  <2>2. SubSeq(F, 1, rc) = SubSeq(pat, 1, rc)
    BY <1>8
  <2>3. Carried(wanted["con"], SubSeq(pat, rc + 1, Len(pat)), pattern["con"], passed["con"], SubSeq(F, rc + 1, Len(F)))
    <3> HIDE DEF pat, F
    <3> QED BY <1>2, <1>5, <2>1, <2>2, CarriedRead
  <2> QED BY <1>8, <2>3
<1>11. FLAG_FAILURE' \/ dpc' = [dpc EXCEPT !["con"] = "poll"] \/ left = << >>
  BY <1>4
<1>12. dpc' = [dpc EXCEPT !["con"] = "poll"] \/ dpc' = [dpc EXCEPT !["con"] = "get"]
  BY <1>4
<1> HIDE DEF left, G, matched
<1>13. /\ dpc' \in [U!Daemons -> {"get", "ended", "poll", "polled", "read", "save", "write"}]
       /\ dpc'["con"] \in {"poll", "get"} /\ (dpc'["con"] = "get" => FLAG_FAILURE' \/ left = << >>)
       /\ \A e \in U!Daemons : e # "con" => dpc'[e] = dpc[e]
  <2>1. dpc \in [U!Daemons -> {"get", "ended", "poll", "polled", "read", "save", "write"}]
    BY <1>1 DEF ProxyTypes
  <2>2. CASE dpc' = [dpc EXCEPT !["con"] = "poll"]
    BY <1>1, <2>1, <2>2
  <2>3. CASE dpc' = [dpc EXCEPT !["con"] = "get"]
    <3>1. [dpc EXCEPT !["con"] = "poll"] # dpc'
      BY <1>1, <2>1, <2>3
    <3> QED BY <1>1, <1>11, <2>1, <2>3, <3>1
  <2> QED BY <1>12, <2>2, <2>3
<1>14. /\ rest' \in [U!Daemons -> Seq(Bytes)] /\ rest'["con"] = left
       /\ \A e \in U!Daemons : e # "con" => rest'[e] = rest[e]
  BY <1>1, <1>3, <1>7 DEF ProxyTypes
<1>15. /\ fifo' \in [U!Daemons -> Seq(Bytes)] /\ fifo'["con"] = G
       /\ \A e \in U!Daemons : e # "con" => fifo'[e] = fifo[e]
  BY <1>1, <1>3, <1>6 DEF ProxyTypes
<1>16. ProxyTypes'
  <2>1. fifo'["kbd"] = fifo["kbd"]
    BY <1>15 DEF U!Daemons
  <2> QED BY <1>1, <1>3, <1>9, <1>13, <1>14, <1>15, <2>1 DEF ProxyTypes
<1>17. DaemonInv("con")'
  <2>1. U!Test' = U!Test /\ Unread("con")' = G
    BY <1>15 DEF U!Test, Unread
  <2>2. (complete["con"] => cpc > Len(U!Test.script) \/ Silent(U!Test.script))'
    BY <1>1, <1>3, <2>1 DEF DaemonInv
  <2>3. dpc'["con"] # "ended"
    BY <1>13
  <2>4. (~ FLAG_FAILURE =>
           /\ dpc["con"] \in {"get", "ended"} => rest["con"] = << >>
           /\ Carried(wanted["con"], rest["con"], pattern["con"], passed["con"], Unread("con")))'
    BY <1>3, <1>10, <1>13, <1>14, <2>1
  <2> QED BY <2>2, <2>3, <2>4 DEF DaemonInv
<1> QED BY <1>1, <1>3, <1>8, <1>13, <1>14, <1>15, <1>16, <1>17, DaemonStep

LEMMA KbdWriteKeeps ==
    ASSUME TestInv, child = "running", UNCHANGED <<suite, t, child, cpc>>, U!kbd_proc_write
    PROVE  TestInv'
<1> DEFINE pat == rest["kbd"]
           F   == fifo["kbd"]
           rc  == U!Taken(Len(pat))
           a   == SubSeq(pat, 1, rc)
           left == SubSeq(pat, rc + 1, Len(pat))
<1>1. ProxyTypes /\ "kbd" \in U!Daemons /\ DaemonInv("kbd") /\ FLAG_FAILURE \in BOOLEAN
  BY DEF TestInv, U!Daemons, ProxyTypes
<1>2. pat \in Seq(Bytes) /\ F \in Seq(Bytes) /\ passed["kbd"] \in Seq(Bytes)
  BY <1>1 DEF ProxyTypes
<1>3. /\ fifo' = [fifo EXCEPT !["kbd"] = F \o a] /\ passed' = [passed EXCEPT !["kbd"] = passed["kbd"] \o a]
      /\ rest' = [rest EXCEPT !["kbd"] = left]
      /\ UNCHANGED <<pattern, complete, have_data, oldcomplete, wanted>>
  BY DEF U!kbd_proc_write
<1>4. /\ rest' \in [U!Daemons -> Seq(Bytes)] /\ rest'["kbd"] = left
      /\ \A e \in U!Daemons : e # "kbd" => rest'[e] = rest[e]
      /\ a \in Seq(Bytes) /\ left \in Seq(Bytes) /\ Len(a) = rc
      /\ rc \in Nat /\ rc <= Len(pat) /\ Len(F) + rc <= Capacity
  <2>1. Len(pat) \in Nat /\ Len(F) \in Nat /\ Len(F) <= Capacity /\ Capacity \in Nat
    BY <1>1, <1>2, SupportAssumption DEF ProxyTypes
  <2>2. U!Room = Capacity - Len(F)
    BY DEF U!Room
  <2>3. rc \in Nat /\ rc <= Len(pat) /\ Len(F) + rc <= Capacity
    <3> DEFINE room == U!Room
               l == Len(pat)
               f == Len(F)
    <3>1. l \in Nat /\ f \in Nat /\ f <= Capacity /\ Capacity \in Nat /\ room = Capacity - f
      BY <2>1, <2>2
    <3>2. rc = IF l <= room THEN l ELSE IF l <= PIPE_BUF THEN 0 ELSE room
      BY DEF U!Taken
    <3> HIDE DEF room, l, f, rc
    <3>3. rc \in Nat /\ rc <= l /\ f + rc <= Capacity
      BY <3>1, <3>2
    <3> QED BY <3>3 DEF l, f
  <2> HIDE DEF rc
  <2>4. a \in Seq(Bytes) /\ left \in Seq(Bytes) /\ Len(a) = rc
    <3>1. rc \in 0 .. Len(pat)
      BY <2>1, <2>3
    <3> QED BY <1>2, <3>1, PartOf
  <2> HIDE DEF left
  <2>5. /\ rest' \in [U!Daemons -> Seq(Bytes)] /\ rest'["kbd"] = left
        /\ \A e \in U!Daemons : e # "kbd" => rest'[e] = rest[e]
    BY <1>1, <1>3, <2>4 DEF ProxyTypes
  <2> QED BY <2>3, <2>4, <2>5
<1>5. \/ /\ dpc' = [dpc EXCEPT !["kbd"] = "get"] /\ FLAG_FAILURE' = (FLAG_FAILURE \/ rest'["kbd"] # << >>)
      \/ /\ dpc' \in {[dpc EXCEPT !["kbd"] = "poll"], [dpc EXCEPT !["kbd"] = "write"]}
         /\ FLAG_FAILURE' = FLAG_FAILURE
  BY DEF U!kbd_proc_write, U!ProcEnds, U!GoTo
<1> HIDE DEF rc
<1>6. ~ FLAG_FAILURE => Carried(wanted["kbd"], left, pattern["kbd"], passed["kbd"] \o a, << >>)
  <2> HAVE ~ FLAG_FAILURE
  <2>1. Carried(wanted["kbd"], pat, pattern["kbd"], passed["kbd"], << >>)
    <3>1. Unread("kbd") = << >>
      BY DEF Unread
    <3> QED BY <1>1, <3>1 DEF DaemonInv
  <2> HIDE DEF pat
  <2> QED BY <1>2, <1>4, <2>1, CarriedTyped
<1> HIDE DEF left, a
<1>7. F \o a \in Seq(Bytes) /\ Len(F \o a) = Len(F) + rc /\ passed["kbd"] \o a \in Seq(Bytes)
  <2>1. a \in Seq(Bytes) /\ Len(a) = rc
    BY <1>4
  <2>2. F \in Seq(Bytes) /\ passed["kbd"] \in Seq(Bytes)
    BY <1>2
  <2> DEFINE p == passed["kbd"]
  <2> HIDE DEF F, p
  <2>3. F \o a \in Seq(Bytes) /\ Len(F \o a) = Len(F) + Len(a)
    BY <2>1, <2>2, ConcatProperties
  <2>4. p \o a \in Seq(Bytes)
    BY <2>1, <2>2, ConcatProperties DEF p
  <2> QED BY <2>1, <2>3, <2>4 DEF p
<1>8. /\ fifo' \in [U!Daemons -> Seq(Bytes)] /\ fifo'["kbd"] = F \o a
      /\ passed' \in [U!Daemons -> Seq(Bytes)] /\ passed'["kbd"] = passed["kbd"] \o a
      /\ \A e \in U!Daemons : e # "kbd" => fifo'[e] = fifo[e] /\ passed'[e] = passed[e]
  BY <1>1, <1>3, <1>7 DEF ProxyTypes
<1>9. /\ FLAG_FAILURE' \in BOOLEAN /\ (~ FLAG_FAILURE' => ~ FLAG_FAILURE)
  BY <1>1, <1>5
<1>10. /\ dpc' \in [U!Daemons -> {"get", "ended", "poll", "polled", "read", "save", "write"}]
       /\ dpc'["kbd"] \in {"poll", "get", "write"} /\ (dpc'["kbd"] = "get" => FLAG_FAILURE' \/ left = << >>)
       /\ \A e \in U!Daemons : e # "kbd" => dpc'[e] = dpc[e]
  <2>1. dpc \in [U!Daemons -> {"get", "ended", "poll", "polled", "read", "save", "write"}]
    BY <1>1 DEF ProxyTypes
  <2>2. CASE dpc' = [dpc EXCEPT !["kbd"] = "get"] /\ FLAG_FAILURE' = (FLAG_FAILURE \/ rest'["kbd"] # << >>)
    <3>1. FLAG_FAILURE' \/ left = << >>
      BY <1>4, <2>2
    <3> QED BY <1>1, <2>1, <2>2, <3>1
  <2>3. CASE dpc' \in {[dpc EXCEPT !["kbd"] = "poll"], [dpc EXCEPT !["kbd"] = "write"]}
    BY <1>1, <2>1, <2>3
  <2> QED BY <1>5, <2>2, <2>3
<1>11. ProxyTypes'
  <2>1. Len(fifo'["kbd"]) <= Capacity
    BY <1>4, <1>7, <1>8
  <2> QED BY <1>1, <1>3, <1>4, <1>8, <1>9, <1>10, <2>1 DEF ProxyTypes
<1>12. DaemonInv("kbd")'
  <2>1. U!Test' = U!Test /\ Unread("kbd")' = << >>
    BY DEF U!Test, Unread
  <2>2. (complete["kbd"] => cpc > Len(U!Test.script) \/ Silent(U!Test.script))'
    BY <1>1, <1>3, <2>1 DEF DaemonInv
  <2>3. dpc'["kbd"] # "ended"
    BY <1>10
  <2>4. (~ FLAG_FAILURE =>
           /\ dpc["kbd"] \in {"get", "ended"} => rest["kbd"] = << >>
           /\ Carried(wanted["kbd"], rest["kbd"], pattern["kbd"], passed["kbd"], Unread("kbd")))'
    BY <1>3, <1>4, <1>6, <1>8, <1>9, <1>10, <2>1
  <2> QED BY <2>2, <2>3, <2>4 DEF DaemonInv
<1> QED BY <1>1, <1>3, <1>4, <1>8, <1>9, <1>10, <1>11, <1>12, DaemonStep

LEMMA DaemonKeeps ==
    ASSUME TestInv, NEW d \in U!Daemons, U!Daemon(d)
    PROVE  TestInv' /\ child = "running" /\ child' = "running"
<1>1. child = "running" /\ UNCHANGED <<suite, t, child, cpc>>
  BY DEF U!Daemon, U!OnlyProxy, U!argVars, U!loopVars, U!Running
<1>2. "con" \in U!Daemons /\ "kbd" \in U!Daemons /\ ProxyTypes /\ FLAG_FAILURE \in BOOLEAN
  BY DEF U!Daemons, TestInv, ProxyTypes
<1>3. CASE U!term_proxy_daemon_get(d)
  BY <1>1, <1>3, GetKeeps
<1>4. CASE U!con_proc_poll
  BY <1>1, <1>2, <1>4, MoveKeeps DEF U!con_proc_poll, U!GoTo
<1>5. CASE U!con_proc_polled
  <2>1. CASE have_data \/ ~ complete["con"]
    BY <1>1, <1>2, <1>5, <2>1, MoveKeeps DEF U!con_proc_polled, U!GoTo
  <2>2. CASE ~ have_data /\ complete["con"]
    <3>1. /\ FLAG_FAILURE' = (FLAG_FAILURE \/ rest["con"] # << >>) /\ dpc' = [dpc EXCEPT !["con"] = "get"]
          /\ UNCHANGED <<pattern, complete, rest, fifo, wanted, passed>>
      BY <1>5, <2>2 DEF U!con_proc_polled, U!ProcEnds, U!GoTo
    <3> QED BY <1>1, <1>2, <3>1, MoveKeeps
  <2> QED BY <2>1, <2>2
<1>6. CASE U!con_proc_read
  BY <1>1, <1>6, ConReadKeeps
<1>7. CASE U!kbd_proc_poll
  BY <1>1, <1>2, <1>7, MoveKeeps DEF U!kbd_proc_poll, U!GoTo
<1>8. CASE U!kbd_proc_save
  BY <1>1, <1>2, <1>8, MoveKeeps DEF U!kbd_proc_save, U!GoTo
<1>9. CASE U!kbd_proc_write
  BY <1>1, <1>9, KbdWriteKeeps
<1> QED BY <1>1, <1>3, <1>4, <1>5, <1>6, <1>7, <1>8, <1>9 DEF U!Daemon, U!term_proxy_daemon

(* The test and its daemons are where they were.                           *)
LEMMA TestStays ==
    ASSUME TestInv, UNCHANGED <<pattern, complete, dpc, rest, fifo, FLAG_FAILURE, wanted, passed, cpc, suite, t>>,
           child' = "exited" => /\ cpc > Len(U!Test.script) /\ ~ FLAG_FAILURE
                                /\ \A d \in U!Daemons : dpc[d] = "ended"
    PROVE  TestInv'
<1>1. U!Test' = U!Test
  BY DEF U!Test
<1>2. ProxyTypes'
  BY DEF TestInv, ProxyTypes
<1>3. U!Test.script \in Seq(Operations) /\ cpc \in Nat /\ cpc' \in {cpc, cpc + 1}
  BY DEF TestInv
<1>4. \A d \in U!Daemons : DaemonInv(d)'
  <2> TAKE d \in U!Daemons
  <2>1. DaemonInv(d)
    BY DEF TestInv
  <2> QED BY <1>3, <2>1, DaemonStays
<1>5. FailuresKept'
  BY <1>1 DEF TestInv, FailuresKept
<1> QED BY <1>1, <1>2, <1>4, <1>5 DEF TestInv

LEMMA TestEndKeeps == ASSUME TestInv, U!TestEnds PROVE TestInv' /\ child = "running" /\ child' # "none"
<1>1. /\ child = "running" /\ cpc > Len(U!Test.script)
      /\ child' = (IF FLAG_FAILURE THEN "aborted" ELSE "exited")
      /\ \A d \in U!Daemons : dpc[d] = "ended"
      /\ UNCHANGED <<pattern, complete, dpc, rest, fifo, FLAG_FAILURE, wanted, passed, cpc, suite, t>>
  BY DEF U!TestEnds, U!Ends, U!Running, U!proxyVars, U!argVars, U!loopVars
<1>2. child' = "exited" => ~ FLAG_FAILURE
  BY <1>1
<1> QED BY <1>1, <1>2, TestStays

(* The tests of a suite: a bare test is silent.                            *)
LEMMA TestType ==
    ASSUME VerdictInv, t <= Len(suite)
    PROVE  /\ U!Test.script \in Seq(Operations)
           /\ U!Test.type # "BOOT_FUNC" => Silent(U!Test.script)
<1> DEFINE Fine(x) == x.script \in Seq(Operations) /\ (x.type # "BOOT_FUNC" => Silent(x.script))
<1>1. t \in Nat \ {0} /\ suite \in Suites
  BY DEF VerdictInv
<1>2. << >> \in Seq(Operations) /\ <<<<"fail">>>> \in Seq(Operations) /\ <<<<"hang">>>> \in Seq(Operations)
  BY DEF Operations
<1>3. Silent(<< >>) /\ Silent(<<<<"fail">>>>) /\ Silent(<<<<"hang">>>>)
  BY DEF Silent
<1>4. \A s : U!Bare(s).script = s /\ U!Bare(s).type = "BARE_FUNC"
  BY DEF U!Bare
<1>5. Fine(U!internal_success) /\ Fine(U!internal_failure) /\ Fine(U!internal_timeout) /\ Fine(U!internal_skip)
  BY <1>2, <1>3, <1>4 DEF U!internal_success, U!internal_failure, U!internal_timeout, U!internal_skip
<1>6. \A s \in Scripts : Fine(U!BootTest(s))
  BY SupportAssumption DEF U!BootTest
<1> HIDE DEF Fine
<1>7. CASE suite = U!internal
  <2>1. Len(suite) = 4 /\ suite[1] = U!internal_success /\ suite[2] = U!internal_failure
        /\ suite[3] = U!internal_timeout /\ suite[4] = U!internal_skip
    BY <1>7 DEF U!internal
  <2>2. t = 1 \/ t = 2 \/ t = 3 \/ t = 4
    BY <1>1, <2>1
  <2>3. Fine(suite[t])
    BY <1>5, <2>1, <2>2
  <2> QED BY <2>3 DEF U!Test, Fine
<1>8. CASE \E s \in Scripts : suite = <<U!BootTest(s), U!internal_success>>
  <2>1. PICK s \in Scripts : suite = <<U!BootTest(s), U!internal_success>>
    BY <1>8
  <2>2. Len(suite) = 2 /\ suite[1] = U!BootTest(s) /\ suite[2] = U!internal_success
    BY <2>1
  <2>3. t = 1 \/ t = 2
    BY <1>1, <2>2
  <2>4. Fine(suite[t])
    BY <1>5, <1>6, <2>2, <2>3
  <2> QED BY <2>4 DEF U!Test, Fine
<1> QED BY <1>1, <1>7, <1>8 DEF Suites

LEMMA ExecuteKeeps == ASSUME VerdictInv, U!execute PROVE VerdictInv'
<1> DEFINE boot == U!Test.type = "BOOT_FUNC"
<1>1. /\ t <= Len(suite) /\ child' = "running" /\ cpc' = 1 /\ UNCHANGED <<suite, t>>
      /\ tpc' \in {"mask", "call"}
  BY DEF U!execute, U!argVars, U!loopVars
<1>2. /\ pattern' = [d \in U!Daemons |-> << >>] /\ complete' = [d \in U!Daemons |-> ~ boot]
      /\ dpc' = [d \in U!Daemons |-> IF boot THEN "get" ELSE "ended"] /\ rest' = [d \in U!Daemons |-> << >>]
      /\ fifo' = [d \in U!Daemons |-> << >>] /\ FLAG_FAILURE' = FALSE
      /\ wanted' = [d \in U!Daemons |-> << >>] /\ passed' = [d \in U!Daemons |-> << >>]
  BY DEF U!execute, U!term_proxy_init, U!ForBoth
<1>3. U!Test.script \in Seq(Operations) /\ (~ boot => Silent(U!Test.script)) /\ U!Test' = U!Test
  BY <1>1, TestType DEF U!Test
<1>4. boot' = boot /\ boot \in BOOLEAN
  BY <1>3
<1>5. ProxyTypes'
  <2>1. << >> \in Seq(Bytes) /\ << >> \in Seq(Seq(Bytes)) /\ Len(<< >>) = 0 /\ 0 <= Capacity
    BY SupportAssumption
  <2>2. "kbd" \in U!Daemons
    BY DEF U!Daemons
  <2> QED BY <1>2, <2>1, <2>2 DEF ProxyTypes
<1>6. ASSUME NEW d \in U!Daemons PROVE DaemonInv(d)'
  <2>1. /\ complete'[d] = ~ boot /\ dpc'[d] = (IF boot THEN "get" ELSE "ended")
        /\ pattern'[d] = << >> /\ rest'[d] = << >> /\ wanted'[d] = << >> /\ passed'[d] = << >>
        /\ fifo'[d] = << >>
    BY <1>2
  <2>2. Unread(d)' = << >>
    BY <2>1 DEF Unread
  <2>3. (complete[d] => cpc > Len(U!Test.script) \/ Silent(U!Test.script))'
    BY <1>3, <2>1
  <2>4. Carried(wanted'[d], rest'[d], pattern'[d], passed'[d], Unread(d)')
    BY <2>1, <2>2, CarriedNothing
  <2> QED BY <2>1, <2>3, <2>4 DEF DaemonInv
<1>7. FailuresKept'
  <2>1. \A k \in 1 .. Len(U!Test.script) : ~ k < 1
    OBVIOUS
  <2> QED BY <1>1, <1>3, <2>1 DEF FailuresKept
<1>8. TestInv'
  BY <1>1, <1>3, <1>5, <1>6, <1>7 DEF TestInv
<1> QED BY <1>1, <1>8 DEF VerdictInv, Suites

(* The next machine, or the next test.                                     *)
LEMMA CompletedKeeps ==
    ASSUME NEW res, t \in Nat \ {0}, U!Completed(res)
    PROVE  t' \in Nat \ {0}
BY DEF U!Completed

(* A step of the tester that leaves no process of a test.                  *)
LEMMA NoChildKeeps ==
    ASSUME VerdictInv, child' = "none", suite' = suite, t' \in Nat \ {0}
    PROVE  VerdictInv'
<1>1. suite' \in Suites
  BY DEF VerdictInv
<1>2. ~ child' \in {"running", "exited"}
  OBVIOUS
<1> QED BY <1>1, <1>2 DEF VerdictInv, Suites

(* A step of the tester beside the test.                                   *)
LEMMA BesideKeeps ==
    ASSUME VerdictInv, UNCHANGED <<U!proxyVars, cpc, suite, t>>, child' \in {child, "killed"},
           tpc' \in {"run", "restore", "done", "dead"} => child' = "none"
    PROVE  VerdictInv'
<1>1. /\ UNCHANGED <<pattern, complete, dpc, rest, fifo, FLAG_FAILURE, wanted, passed, cpc, suite, t>>
  BY DEF U!proxyVars
<1>2. ASSUME child' \in {"running", "exited"} PROVE TestInv'
  <2>1. child' = child
    BY <1>2
  <2>2. TestInv
    BY <1>2, <2>1 DEF VerdictInv
  <2>3. child' = "exited" => /\ cpc > Len(U!Test.script) /\ ~ FLAG_FAILURE
                             /\ \A d \in U!Daemons : dpc[d] = "ended"
    BY <2>1, <2>2 DEF TestInv
  <2> QED BY <1>1, <2>2, <2>3, TestStays
<1>3. t' \in Nat \ {0} /\ suite' \in Suites
  BY DEF VerdictInv
<1> QED BY <1>2, <1>3 DEF VerdictInv, Suites

LEMMA RunnerKeeps == ASSUME VerdictInv, U!Runner PROVE VerdictInv'
<1>1. t \in Nat \ {0} /\ (tpc \in {"run", "restore", "done", "dead"} => child = "none")
  BY DEF VerdictInv
<1>2. CASE U!run_suite_ends
  <2>1. child' = "none" /\ suite' = suite /\ t' = t
    BY <1>1, <1>2 DEF U!run_suite_ends, U!argVars, U!loopVars
  <2> QED BY <1>1, <2>1, NoChildKeeps
<1>3. CASE U!Skip
  <2>1. child' = "none" /\ suite' = suite
    BY <1>1, <1>3 DEF U!Skip, U!argVars
  <2>2. t' \in Nat \ {0}
    BY <1>1, <1>3, CompletedKeeps DEF U!Skip
  <2> QED BY <2>1, <2>2, NoChildKeeps
<1>4. CASE U!execute
  BY <1>4, ExecuteKeeps
<1>5. CASE U!execute_nofork
  <2>1. child' = "none" /\ suite' = suite
    BY <1>5 DEF U!execute_nofork, U!argVars
  <2>2. t' = t \/ U!Completed(TRUE)
    BY <1>5 DEF U!execute_nofork, U!loopVars
  <2>3. t' \in Nat \ {0}
    BY <1>1, <2>2, CompletedKeeps
  <2> QED BY <2>1, <2>3, NoChildKeeps
<1>6. CASE U!waitpid
  <2>1. child' = "none" /\ suite' = suite
    BY <1>6 DEF U!waitpid, U!Tester, U!argVars
  <2>2. t' \in Nat \ {0}
    BY <1>1, <1>6, CompletedKeeps DEF U!waitpid
  <2> QED BY <2>1, <2>2, NoChildKeeps
<1>7. CASE U!RestoreMask
  <2>1. child' = "none" /\ suite' = suite /\ t' = t
    BY <1>1, <1>7 DEF U!RestoreMask, U!Tester, U!argVars, U!loopVars
  <2> QED BY <1>1, <2>1, NoChildKeeps
<1>8. CASE U!BlockAlarm
  <2>1. UNCHANGED <<U!proxyVars, cpc, suite, t>> /\ child' = child /\ tpc' = "alarm"
    BY <1>8 DEF U!BlockAlarm, U!Tester, U!argVars, U!loopVars
  <2> QED BY <2>1, BesideKeeps
<1>9. CASE U!SetAlarm
  <2>1. UNCHANGED <<U!proxyVars, cpc, suite, t>> /\ child' = child /\ tpc' = "sigwait"
    BY <1>9 DEF U!SetAlarm, U!Tester, U!argVars, U!loopVars
  <2> QED BY <2>1, BesideKeeps
<1>10. CASE U!sigwait
  <2>1. UNCHANGED <<U!proxyVars, cpc, suite, t>> /\ child' = child /\ tpc' = "cancel"
    BY <1>10 DEF U!sigwait, U!Tester, U!argVars, U!loopVars
  <2> QED BY <2>1, BesideKeeps
<1>11. CASE U!CancelAlarm
  <2>1. UNCHANGED <<U!proxyVars, cpc, suite, t>> /\ child' = child /\ tpc' \in {"kill", "waitpid"}
    BY <1>11 DEF U!CancelAlarm, U!Tester, U!argVars, U!loopVars
  <2> QED BY <2>1, BesideKeeps
<1>12. CASE U!kill
  <2>1. UNCHANGED <<U!proxyVars, cpc, suite, t>> /\ tpc' = "waitpid"
    BY <1>12 DEF U!kill, U!Tester, U!argVars, U!loopVars
  <2>2. child' \in {child, "killed"}
    BY <1>12 DEF U!kill, U!KillChild, U!Ends
  <2> QED BY <2>1, <2>2, BesideKeeps
<1> QED BY <1>2, <1>3, <1>4, <1>5, <1>6, <1>7, <1>8, <1>9, <1>10, <1>11, <1>12 DEF U!Runner

(* A step of the process of the test.                                      *)
LEMMA ProcessKeeps ==
    ASSUME VerdictInv, child = "running", UNCHANGED <<suite, t, tpc>>, TestInv' 
    PROVE  VerdictInv'
<1>1. tpc' \notin {"run", "restore", "done", "dead"}
  BY DEF VerdictInv
<1>2. t' \in Nat \ {0} /\ suite' \in Suites
  BY DEF VerdictInv
<1> QED BY <1>1, <1>2 DEF VerdictInv, Suites

LEMMA NextVerdict == ASSUME VerdictInv, [U!Next]_U!vars PROVE VerdictInv'
<1>1. CASE U!Runner
  BY <1>1, RunnerKeeps
<1>2. CASE U!AlarmRings
  <2>1. UNCHANGED <<U!proxyVars, cpc, suite, t>> /\ child' = child /\ tpc' = tpc
    BY <1>2 DEF U!AlarmRings, U!argVars, U!loopVars
  <2>2. tpc \in {"run", "restore", "done", "dead"} => child = "none"
    BY DEF VerdictInv
  <2> QED BY <2>1, <2>2, BesideKeeps
<1>3. child = "running" => TestInv
  BY DEF VerdictInv
<1>4. CASE U!ScriptStep
  <2>1. child = "running" /\ UNCHANGED <<suite, t, tpc>>
    BY <1>4 DEF U!ScriptStep, U!InScript, U!Running, U!OnlyProxy, U!argVars, U!loopVars
  <2> QED BY <1>3, <1>4, <2>1, ScriptStepKeeps, ProcessKeeps
<1>5. CASE U!term_proxy_close
  <2>1. child = "running" /\ UNCHANGED <<suite, t, tpc>>
    BY <1>5 DEF U!term_proxy_close, U!Running, U!OnlyProxy, U!argVars, U!loopVars
  <2> QED BY <1>3, <1>5, <2>1, CloseKeeps, ProcessKeeps
<1>6. CASE U!TestEnds
  <2>1. child = "running" /\ UNCHANGED <<suite, t, tpc>>
    BY <1>6 DEF U!TestEnds, U!Running, U!argVars, U!loopVars
  <2> QED BY <1>3, <1>6, <2>1, TestEndKeeps, ProcessKeeps
<1>7. ASSUME NEW d \in U!Daemons, U!Daemon(d) PROVE VerdictInv'
  <2>1. child = "running" /\ UNCHANGED <<suite, t, tpc>>
    BY <1>7 DEF U!Daemon, U!Running, U!OnlyProxy, U!argVars, U!loopVars
  <2> QED BY <1>3, <1>7, <2>1, DaemonKeeps, ProcessKeeps
<1>8. CASE UNCHANGED U!vars
  <2>1. UNCHANGED <<U!proxyVars, cpc, suite, t>> /\ child' = child /\ tpc' = tpc
    BY <1>8 DEF U!vars, U!testVars, U!argVars, U!loopVars
  <2>2. tpc \in {"run", "restore", "done", "dead"} => child = "none"
    BY DEF VerdictInv
  <2> QED BY <2>1, <2>2, BesideKeeps
<1> QED BY <1>1, <1>2, <1>4, <1>5, <1>6, <1>7, <1>8 DEF U!Next, U!Child

LEMMA InitVerdict == ASSUME U!Init PROVE VerdictInv
<1>1. t = 1 /\ child = "none" /\ suite \in Suites
  BY DEF U!Init, Suites
<1> QED BY <1>1 DEF VerdictInv

LEMMA VerdictFollows == ASSUME VerdictInv PROVE VerdictIsSound
<1> SUFFICES ASSUME child = "exited" PROVE U!VerdictIsSound
  BY DEF VerdictIsSound, U!VerdictIsSound
<1>1. TestInv /\ ProxyTypes /\ ~ FLAG_FAILURE /\ cpc > Len(U!Test.script) /\ cpc \in Nat
      /\ U!Test.script \in Seq(Operations) /\ FailuresKept
  BY DEF VerdictInv, TestInv
<1>2. ASSUME NEW k \in DOMAIN U!Test.script PROVE U!Test.script[k] # <<"fail">>
  <2>1. k \in 1 .. Len(U!Test.script) /\ Len(U!Test.script) \in Nat
    BY <1>1
  <2>2. k < cpc
    BY <1>1, <2>1
  <2> QED BY <1>1, <2>1, <2>2 DEF FailuresKept
<1>3. ASSUME NEW d \in U!Daemons
      PROVE  /\ wanted[d] \in Seq(Bytes) /\ passed[d] \in Seq(Bytes) /\ Unread(d) \in Seq(Bytes)
             /\ Carried(wanted[d], << >>, << >>, passed[d], Unread(d))
  <2>1. dpc[d] = "ended" /\ DaemonInv(d)
    BY <1>3 DEF TestInv, VerdictInv
  <2>2. pattern[d] = << >> /\ rest[d] = << >> /\ Carried(wanted[d], rest[d], pattern[d], passed[d], Unread(d))
    BY <1>1, <2>1 DEF DaemonInv
  <2>3. << >> \in Seq(Bytes) /\ fifo["con"] \in Seq(Bytes)
    BY <1>1 DEF ProxyTypes, U!Daemons
  <2>4. Unread(d) \in Seq(Bytes)
    BY <2>3 DEF Unread
  <2> QED BY <1>1, <1>3, <2>2, <2>4 DEF ProxyTypes
<1>4. ASSUME NEW d \in U!Daemons
      PROVE  /\ Len(wanted[d]) = Len(passed[d]) - Len(Unread(d)) /\ Len(wanted[d]) <= Len(passed[d])
             /\ \A i \in 1 .. Len(wanted[d]) : wanted[d][i] = passed[d][i]
  BY <1>3, <1>4, CarriedAll
<1>5. "con" \in U!Daemons /\ "kbd" \in U!Daemons
  BY DEF U!Daemons
<1>6. U!IsPrefix(wanted["con"], passed["con"])
  <2> DEFINE W == wanted["con"]
             P == passed["con"]
  <2>1. W \in Seq(Bytes) /\ P \in Seq(Bytes) /\ Len(W) <= Len(P) /\ \A i \in 1 .. Len(W) : W[i] = P[i]
    BY <1>3, <1>4, <1>5
  <2> HIDE DEF W, P
  <2>2. SubSeq(W, 1, Len(W)) = SubSeq(P, 1, Len(W))
    BY <2>1
  <2>3. U!IsPrefix(W, P)
    BY <2>1, <2>2 DEF U!IsPrefix
  <2> QED BY <2>3 DEF W, P
<1>7. passed["kbd"] = wanted["kbd"]
  <2> DEFINE W == wanted["kbd"]
             P == passed["kbd"]
  <2>1. Unread("kbd") = << >> /\ Len(<< >>) = 0
    BY DEF Unread
  <2>2. /\ W \in Seq(Bytes) /\ P \in Seq(Bytes) /\ Len(W) = Len(P) - 0
        /\ \A i \in 1 .. Len(W) : W[i] = P[i]
    BY <1>3, <1>4, <1>5, <2>1
  <2> HIDE DEF W, P
  <2>3. P = W
    BY <2>2, SeqEqual
  <2> QED BY <2>3 DEF W, P
<1> QED BY <1>2, <1>6, <1>7 DEF U!VerdictIsSound

(* A test that unit_testing.c reports as passed failed no ASSERT, wrote    *)
(* all that it expected and was sent all that it sends, however the two    *)
(* proxy threads, the machine, the alarm and the runner interleave: for    *)
(* any scripts, any bytes and fifos of any capacity.                       *)
THEOREM VerdictsAreSound == SupportSpec => []VerdictIsSound
<1>1. SupportInit => VerdictInv
  BY InitVerdict DEF SupportInit
<1>2. VerdictInv /\ [SupportNext]_allVars => VerdictInv'
  <2> SUFFICES ASSUME VerdictInv, [SupportNext]_allVars PROVE VerdictInv'
    OBVIOUS
  <2>1. U!Next \/ UNCHANGED tstVars
    BY DEF SupportNext, allVars
  <2>2. UNCHANGED tstVars => UNCHANGED U!vars
    BY DEF tstVars, U!vars, U!proxyVars, U!testVars, U!argVars, U!loopVars, U!signalVars
  <2> QED BY <2>1, <2>2, NextVerdict
<1> QED BY <1>1, <1>2, VerdictFollows, PTL DEF SupportSpec

-----------------------------------------------------------------------------
(***************************************************************************)
(* The arguments of a program.  The loops of argvlen, argvpack and         *)
(* argvunpack are recursive functions: a first lemma says that a function  *)
(* that is defined from its value one before exists, the next ones what    *)
(* the loops have done after i rounds.                                     *)
(***************************************************************************)
Rounds(f, c, n, step) == f[0] = c /\ \A i \in 1 .. n : f[i] = step[i][f[i - 1]]

LEMMA LoopExists ==
    ASSUME NEW S, NEW c \in S, NEW n \in Nat, NEW step \in [1 .. n -> [S -> S]]
    PROVE  \E f \in [0 .. n -> S] : Rounds(f, c, n, step)
<1> DEFINE Good(f, m) == f[0] = c /\ \A i \in 1 .. m : f[i] = step[i][f[i - 1]]
           T == {m \in 0 .. n : ~ \E f \in [0 .. m -> S] : Good(f, m)}
<1>1. T = {}
  <2> SUFFICES ASSUME T # {} PROVE FALSE
    OBVIOUS
  <2>1. T \subseteq Nat
    OBVIOUS
  <2> HIDE DEF T
  <2>2. PICK m \in T : \A y \in T : m <= y
    BY <2>1, LeastMember
  <2>3. m \in 0 .. n /\ ~ \E f \in [0 .. m -> S] : Good(f, m)
    BY <2>2 DEF T
  <2>4. CASE m = 0
    <3> DEFINE f == [i \in 0 .. 0 |-> c]
    <3>1. f \in [0 .. 0 -> S] /\ Good(f, 0)
      OBVIOUS
    <3> QED BY <2>3, <2>4, <3>1
  <2>5. CASE m # 0
    <3>1. m - 1 \in 0 .. n /\ m - 1 \notin T /\ m \in 1 .. n
      BY <2>1, <2>2, <2>3, <2>5
    <3>2. PICK f \in [0 .. m - 1 -> S] : Good(f, m - 1)
      BY <3>1 DEF T
    <3> DEFINE g == [i \in 0 .. m |-> IF i = m THEN step[m][f[m - 1]] ELSE f[i]]
    <3>3. step[m] \in [S -> S] /\ f[m - 1] \in S
      BY <3>1
    <3>4. g \in [0 .. m -> S]
      BY <3>1, <3>3
    <3>5. ASSUME NEW i \in 1 .. m PROVE g[i] = step[i][g[i - 1]]
      <4>1. i - 1 \in 0 .. m /\ i - 1 # m /\ g[i - 1] = f[i - 1] /\ i \in 0 .. m
        BY <3>1
      <4>2. CASE i = m
        BY <4>1, <4>2
      <4>3. CASE i # m
        <5>1. i \in 1 .. m - 1 /\ g[i] = f[i]
          BY <3>1, <4>1, <4>3
        <5> QED BY <3>2, <4>1, <5>1
      <4> QED BY <4>2, <4>3
    <3>6. g[0] = c
      BY <3>1, <3>2
    <3> HIDE DEF g
    <3> QED BY <2>3, <3>4, <3>5, <3>6
  <2> QED BY <2>4, <2>5
<1>2. PICK f \in [0 .. n -> S] : Good(f, n)
  BY <1>1
<1> QED BY <1>2 DEF Rounds

(* Induction over the rounds of a loop.                                    *)
LEMMA EveryRound ==
    ASSUME NEW n \in Nat, NEW T, 0 \in T, \A i \in 1 .. n : i - 1 \in T => i \in T
    PROVE  \A i \in 0 .. n : i \in T
<1> DEFINE R == {i \in 0 .. n : i \notin T}
<1> SUFFICES ASSUME R # {} PROVE FALSE
  OBVIOUS
<1>1. R \subseteq Nat
  OBVIOUS
<1> HIDE DEF R
<1>2. PICK m \in R : \A y \in R : m <= y
  BY <1>1, LeastMember
<1>3. m \in 1 .. n /\ m - 1 \in 0 .. n /\ m \notin T
  <2>1. m \in 0 .. n /\ m \notin T
    BY <1>2 DEF R
  <2>2. m # 0
    BY <2>1
  <2> QED BY <2>1, <2>2
<1>4. m - 1 \notin R
  BY <1>1, <1>2, <1>3
<1>5. m - 1 \in T
  BY <1>3, <1>4 DEF R
<1> QED BY <1>3, <1>5

Cells == Chars \cup {A!NUL}

(* The rounds of argvlen and of argvpack.                                  *)
Lengths(v) ==
    LET l[i \in 0 .. Len(v)] == IF i = 0 THEN 0 ELSE l[i - 1] + Len(v[i]) + 1
    IN  l

Packs(v) ==
    LET buf[i \in 0 .. Len(v)] == IF i = 0 THEN << >> ELSE buf[i - 1] \o v[i] \o <<A!NUL>>
    IN  buf

LEMMA LengthsDef ==
    ASSUME NEW v \in Seq(Seq(Chars))
    PROVE  /\ A!argvlen(v) = Lengths(v)[Len(v)]
           /\ Lengths(v) \in [0 .. Len(v) -> Nat] /\ Lengths(v)[0] = 0
           /\ \A i \in 1 .. Len(v) : Lengths(v)[i] = Lengths(v)[i - 1] + Len(v[i]) + 1
<1> DEFINE n == Len(v)
           step == [i \in 1 .. n |-> [x \in Nat |-> x + Len(v[i]) + 1]]
           l == Lengths(v)
<1>1. n \in Nat /\ \A i \in 1 .. n : Len(v[i]) \in Nat
  OBVIOUS
<1>2. step \in [1 .. n -> [Nat -> Nat]]
  BY <1>1
<1>3. \A i \in 1 .. n, x \in Nat : step[i][x] = x + Len(v[i]) + 1
  OBVIOUS
<1> HIDE DEF step, n
<1>4. PICK f \in [0 .. n -> Nat] : f[0] = 0 /\ \A i \in 1 .. n : f[i] = step[i][f[i - 1]]
  <2> DEFINE S == Nat
             z == 0
  <2>1. z \in S /\ n \in Nat /\ step \in [1 .. n -> [S -> S]]
    BY <1>1, <1>2
  <2> HIDE DEF S, z
  <2>2. \E f \in [0 .. n -> S] : Rounds(f, z, n, step)
    BY <2>1, LoopExists
  <2> QED BY <2>2 DEF S, z, Rounds
<1>5. ASSUME NEW i \in 0 .. n
      PROVE  f[i] = IF i = 0 THEN 0 ELSE f[i - 1] + Len(v[i]) + 1
  <2>1. CASE i = 0
    BY <1>4, <2>1
  <2>2. CASE i # 0
    <3>1. i \in 1 .. n /\ i - 1 \in 0 .. n
      BY <1>1, <2>2
    <3>2. f[i] = step[i][f[i - 1]] /\ f[i - 1] \in Nat
      BY <1>4, <3>1
    <3> QED BY <1>3, <2>2, <3>1, <3>2
  <2> QED BY <2>1, <2>2
<1>6. f = [i \in 0 .. n |-> IF i = 0 THEN 0 ELSE f[i - 1] + Len(v[i]) + 1]
  BY <1>5
<1>7. l = [i \in 0 .. n |-> IF i = 0 THEN 0 ELSE l[i - 1] + Len(v[i]) + 1]
  BY <1>6 DEF Lengths, n
<1>8. A!argvlen(v) = l[n]
  BY DEF A!argvlen, Lengths, n
<1> HIDE DEF l
<1>9. l[0] = 0 /\ \A i \in 1 .. n : l[i] = l[i - 1] + Len(v[i]) + 1
  <2>1. 0 \in 0 .. n /\ \A i \in 1 .. n : i \in 0 .. n /\ i # 0
    BY <1>1
  <2> QED BY <1>7, <2>1
<1>10. \A i \in 0 .. n : l[i] \in Nat
  <2> DEFINE T == {i \in 0 .. n : l[i] \in Nat}
  <2>1. ASSUME NEW i \in 1 .. n, i - 1 \in T PROVE i \in T
    <3>1. l[i] = l[i - 1] + Len(v[i]) + 1 /\ Len(v[i]) \in Nat /\ l[i - 1] \in Nat
      BY <1>1, <1>9, <2>1
    <3> QED BY <1>1, <3>1
  <2>2. 0 \in T
    BY <1>1, <1>9
  <2> HIDE DEF T
  <2>3. \A i \in 0 .. n : i \in T
    BY <1>1, <2>1, <2>2, EveryRound
  <2> QED BY <2>3 DEF T
<1>11. l \in [0 .. n -> Nat]
  BY <1>7, <1>10
<1> QED BY <1>8, <1>9, <1>11 DEF l, n

LEMMA LengthsGrow ==
    ASSUME NEW v \in Seq(Seq(Chars)), NEW i \in 0 .. Len(v), NEW k \in 0 .. i
    PROVE  Lengths(v)[k] <= Lengths(v)[i] /\ (k < i => Lengths(v)[k] < Lengths(v)[i])
<1> DEFINE n == Len(v)
           l == Lengths(v)
           T == {m \in 0 .. n : \A h \in 0 .. m : l[h] <= l[m] /\ (h < m => l[h] < l[m])}
<1>1. n \in Nat /\ l \in [0 .. n -> Nat] /\ \A m \in 1 .. n : l[m - 1] < l[m]
  <2>1. \A m \in 1 .. n : Len(v[m]) \in Nat
    OBVIOUS
  <2>2. l \in [0 .. n -> Nat] /\ \A m \in 1 .. n : l[m] = l[m - 1] + Len(v[m]) + 1
    BY LengthsDef
  <2>3. n \in Nat
    OBVIOUS
  <2> HIDE DEF l, n
  <2>4. ASSUME NEW m \in 1 .. n PROVE l[m - 1] < l[m]
    <3>1. m - 1 \in 0 .. n
      BY <2>3
    <3>2. l[m - 1] \in Nat
      BY <2>2, <3>1
    <3>3. l[m] = l[m - 1] + Len(v[m]) + 1 /\ Len(v[m]) \in Nat
      BY <2>1, <2>2
    <3> QED BY <3>2, <3>3
  <2> QED BY <2>2, <2>3, <2>4
<1> HIDE DEF l, n
<1>2. 0 \in T
  BY <1>1
<1>3. ASSUME NEW m \in 1 .. n, m - 1 \in T PROVE m \in T
  <2>1. ASSUME NEW h \in 0 .. m, h # m PROVE l[h] < l[m]
    <3>1. h \in 0 .. m - 1
      BY <1>1, <2>1
    <3>2. l[h] <= l[m - 1] /\ l[m - 1] < l[m]
      BY <1>1, <1>3, <3>1
    <3>3. l[h] \in Nat /\ l[m - 1] \in Nat /\ l[m] \in Nat
      BY <1>1, <3>1
    <3> QED BY <3>2, <3>3
  <2>2. \A h \in 0 .. m : l[h] \in Nat
    BY <1>1
  <2>3. \A h \in 0 .. m : l[h] <= l[m] /\ (h < m => l[h] < l[m])
    BY <2>1, <2>2
  <2> QED BY <2>3
<1> HIDE DEF T
<1>4. i \in T
  BY <1>1, <1>2, <1>3, EveryRound DEF n
<1> QED BY <1>4 DEF T, l

LEMMA PacksDef ==
    ASSUME NEW v \in Seq(Seq(Chars))
    PROVE  /\ A!argvpack(v) = Packs(v)[Len(v)]
           /\ Packs(v)[0] = << >>
           /\ \A i \in 0 .. Len(v) : Packs(v)[i] \in Seq(Cells)
           /\ \A i \in 1 .. Len(v) : Packs(v)[i] = Packs(v)[i - 1] \o v[i] \o <<A!NUL>>
<1> DEFINE n == Len(v)
           step == [i \in 1 .. n |-> [x \in Seq(Cells) |-> x \o v[i] \o <<A!NUL>>]]
           b == Packs(v)
<1>1. n \in Nat /\ << >> \in Seq(Cells)
  OBVIOUS
<1>2. ASSUME NEW i \in 1 .. n, NEW x \in Seq(Cells) PROVE x \o v[i] \o <<A!NUL>> \in Seq(Cells)
  <2>1. v[i] \in Seq(Chars)
    OBVIOUS
  <2>2. v[i] \in Seq(Cells)
    BY <2>1 DEF Cells
  <2>3. <<A!NUL>> \in Seq(Cells)
    BY DEF Cells
  <2> QED BY <2>2, <2>3
<1>3. step \in [1 .. n -> [Seq(Cells) -> Seq(Cells)]]
  BY <1>2
<1>4. \A i \in 1 .. n, x \in Seq(Cells) : step[i][x] = x \o v[i] \o <<A!NUL>>
  OBVIOUS
<1> HIDE DEF step, n
<1>5. PICK f \in [0 .. n -> Seq(Cells)] : f[0] = << >> /\ \A i \in 1 .. n : f[i] = step[i][f[i - 1]]
  <2> DEFINE S == Seq(Cells)
             z == << >>
  <2>1. z \in S /\ n \in Nat /\ step \in [1 .. n -> [S -> S]]
    BY <1>1, <1>3
  <2> HIDE DEF S, z
  <2>2. \E f \in [0 .. n -> S] : Rounds(f, z, n, step)
    BY <2>1, LoopExists
  <2> QED BY <2>2 DEF S, z, Rounds
<1>6. ASSUME NEW i \in 0 .. n
      PROVE  f[i] = IF i = 0 THEN << >> ELSE f[i - 1] \o v[i] \o <<A!NUL>>
  <2>1. CASE i = 0
    BY <1>5, <2>1
  <2>2. CASE i # 0
    <3>1. i \in 1 .. n /\ i - 1 \in 0 .. n
      BY <1>1, <2>2
    <3>2. f[i] = step[i][f[i - 1]] /\ f[i - 1] \in Seq(Cells)
      BY <1>5, <3>1
    <3> QED BY <1>4, <2>2, <3>1, <3>2
  <2> QED BY <2>1, <2>2
<1>7. f = [i \in 0 .. n |-> IF i = 0 THEN << >> ELSE f[i - 1] \o v[i] \o <<A!NUL>>]
  BY <1>6
<1>8. b = [i \in 0 .. n |-> IF i = 0 THEN << >> ELSE b[i - 1] \o v[i] \o <<A!NUL>>]
  BY <1>7 DEF Packs, n
<1>9. A!argvpack(v) = b[n]
  BY DEF A!argvpack, Packs, n
<1> HIDE DEF b
<1>10. b[0] = << >> /\ \A i \in 1 .. n : b[i] = b[i - 1] \o v[i] \o <<A!NUL>>
  <2>1. 0 \in 0 .. n /\ \A i \in 1 .. n : i \in 0 .. n /\ i # 0
    BY <1>1
  <2> QED BY <1>8, <2>1
<1>11. \A i \in 0 .. n : b[i] \in Seq(Cells)
  <2> DEFINE T == {i \in 0 .. n : b[i] \in Seq(Cells)}
  <2>1. ASSUME NEW i \in 1 .. n, i - 1 \in T PROVE i \in T
    <3>1. b[i - 1] \in Seq(Cells)
      BY <2>1
    <3>2. b[i] \in Seq(Cells)
      BY <1>2, <1>10, <3>1
    <3>3. i \in 0 .. n
      BY <1>1
    <3> QED BY <3>2, <3>3
  <2>2. 0 \in T
    <3>1. 0 \in 0 .. n
      BY <1>1
    <3>2. b[0] \in Seq(Cells)
      BY <1>1, <1>10
    <3> QED BY <3>1, <3>2
  <2> HIDE DEF T
  <2>3. \A i \in 0 .. n : i \in T
    BY <1>1, <2>1, <2>2, EveryRound
  <2> QED BY <2>3 DEF T
<1> QED BY <1>9, <1>10, <1>11 DEF b, n

(* The strings v follow each other in the buffer b, each with a zero byte, *)
(* as far as the i-th.                                                     *)
Packed(b, v, i) ==
    /\ Len(b) = Lengths(v)[i]
    /\ \A k \in 1 .. i :
         /\ b[Lengths(v)[k]] = A!NUL
         /\ \A x \in 1 .. Len(v[k]) : b[Lengths(v)[k - 1] + x] = v[k][x]

(* A buffer, a string and its zero byte.                                   *)
LEMMA JoinThree ==
    ASSUME NEW S, NEW b \in Seq(S), NEW s \in Seq(S), NEW z \in S
    PROVE  /\ Len(b \o s \o <<z>>) = Len(b) + Len(s) + 1
           /\ (b \o s \o <<z>>)[Len(b) + Len(s) + 1] = z
           /\ \A x \in 1 .. Len(b) : (b \o s \o <<z>>)[x] = b[x]
           /\ \A x \in 1 .. Len(s) : (b \o s \o <<z>>)[Len(b) + x] = s[x]
<1> DEFINE bs == b \o s
<1>1. /\ bs \in Seq(S) /\ Len(bs) = Len(b) + Len(s) /\ Len(b) \in Nat /\ Len(s) \in Nat
      /\ \A x \in 1 .. Len(b) : bs[x] = b[x]
      /\ \A x \in 1 .. Len(s) : bs[Len(b) + x] = s[x]
  OBVIOUS
<1> HIDE DEF bs
<1>2. /\ Len(bs \o <<z>>) = Len(bs) + 1 /\ (bs \o <<z>>)[Len(bs) + 1] = z
      /\ \A x \in 1 .. Len(bs) : (bs \o <<z>>)[x] = bs[x]
  <2>1. bs \in Seq(S) /\ Len(bs) \in Nat
    BY <1>1
  <2>2. <<z>> \in Seq(S) /\ Len(<<z>>) = 1 /\ <<z>>[1] = z
    OBVIOUS
  <2> QED BY <2>1, <2>2
<1>3. \A x \in 1 .. Len(b) : x \in 1 .. Len(bs)
  BY <1>1
<1>4. \A x \in 1 .. Len(s) : Len(b) + x \in 1 .. Len(bs)
  BY <1>1
<1> QED BY <1>1, <1>2, <1>3, <1>4 DEF bs

LEMMA PackedAll ==
    ASSUME NEW v \in Seq(Seq(Chars))
    PROVE  A!argvpack(v) \in Seq(Cells) /\ Packed(A!argvpack(v), v, Len(v))
<1> DEFINE n == Len(v)
           l == Lengths(v)
           T == {i \in 0 .. n : Packed(Packs(v)[i], v, i)}
<1>1. n \in Nat /\ l \in [0 .. n -> Nat] /\ l[0] = 0
  BY LengthsDef
<1>2. 0 \in T
  <2>1. Packs(v)[0] = << >> /\ Len(<< >>) = 0
    BY PacksDef
  <2> QED BY <1>1, <2>1 DEF Packed
<1>3. ASSUME NEW i \in 1 .. n, i - 1 \in T PROVE i \in T
  <2> DEFINE b == Packs(v)[i - 1]
             s == v[i]
             c == b \o s \o <<A!NUL>>
  <2>1. b \in Seq(Cells) /\ s \in Seq(Chars) /\ Packs(v)[i] = c
    <3>1. i - 1 \in 0 .. Len(v)
      BY <1>1
    <3>2. \A x \in 0 .. Len(v) : Packs(v)[x] \in Seq(Cells)
      BY PacksDef
    <3>3. Packs(v)[i] = c
      BY PacksDef
    <3>4. v[i] \in Seq(Chars)
      OBVIOUS
    <3> QED BY <3>1, <3>2, <3>3, <3>4
  <2>2. s \in Seq(Cells) /\ Len(s) \in Nat
    BY <2>1 DEF Cells
  <2>3. Packed(b, v, i - 1) /\ Len(b) = l[i - 1] /\ l[i] = l[i - 1] + Len(s) + 1
    BY <1>1, <1>3, LengthsDef DEF Packed
  <2> HIDE DEF b, s
  <2>4. /\ Len(c) = Len(b) + Len(s) + 1 /\ c[Len(b) + Len(s) + 1] = A!NUL
        /\ \A x \in 1 .. Len(b) : c[x] = b[x]
        /\ \A x \in 1 .. Len(s) : c[Len(b) + x] = s[x]
    <3> DEFINE z == A!NUL
    <3>1. z \in Cells
      BY DEF Cells
    <3> HIDE DEF z
    <3>2. b \in Seq(Cells)
      BY <2>1
    <3>3. s \in Seq(Cells)
      BY <2>2
    <3>4. /\ Len(b \o s \o <<z>>) = Len(b) + Len(s) + 1
          /\ (b \o s \o <<z>>)[Len(b) + Len(s) + 1] = z
          /\ \A x \in 1 .. Len(b) : (b \o s \o <<z>>)[x] = b[x]
          /\ \A x \in 1 .. Len(s) : (b \o s \o <<z>>)[Len(b) + x] = s[x]
      BY <3>1, <3>2, <3>3, JoinThree
    <3> QED BY <3>4 DEF z
  <2> HIDE DEF c, l
  <2>5. Len(c) = l[i] /\ c[l[i]] = A!NUL
    BY <2>3, <2>4
  <2>6. ASSUME NEW k \in 1 .. i
        PROVE  c[l[k]] = A!NUL /\ \A x \in 1 .. Len(v[k]) : c[l[k - 1] + x] = v[k][x]
    <3>1. CASE k = i
      BY <2>3, <2>4, <2>5, <3>1 DEF s
    <3>2. CASE k # i
      <4>1. k \in 1 .. i - 1 /\ k - 1 \in 0 .. n /\ k \in 0 .. n /\ i - 1 \in 0 .. n /\ k \in 0 .. i - 1 /\ k \in 1 .. n
        BY <1>1, <3>2
      <4>2. b[l[k]] = A!NUL /\ \A x \in 1 .. Len(v[k]) : b[l[k - 1] + x] = v[k][x]
        BY <2>3, <4>1 DEF Packed, l
      <4>3. l[k] <= l[i - 1] /\ l[k] = l[k - 1] + Len(v[k]) + 1
        BY <4>1, LengthsGrow, LengthsDef DEF l
      <4>4. l[k] \in Nat /\ l[k - 1] \in Nat /\ l[i - 1] \in Nat /\ Len(v[k]) \in Nat
        <5>1. \A x \in 0 .. n : l[x] \in Nat
          BY <1>1
        <5>2. Len(v[k]) \in Nat
          BY <4>1
        <5> HIDE DEF n
        <5> QED BY <4>1, <5>1, <5>2
      <4>5. l[k] \in 1 .. Len(b)
        BY <2>3, <4>3, <4>4
      <4>6. ASSUME NEW x \in 1 .. Len(v[k]) PROVE l[k - 1] + x \in 1 .. Len(b)
        <5> DEFINE p == l[k - 1]
                   q == Len(v[k])
        <5>1. p \in Nat /\ q \in Nat /\ p + q + 1 <= Len(b) /\ Len(b) \in Nat
          BY <2>3, <4>3, <4>4
        <5>2. x \in 1 .. q
          OBVIOUS
        <5> HIDE DEF p, q
        <5>3. p + x \in 1 .. Len(b)
          BY <5>1, <5>2
        <5> QED BY <5>3 DEF p
      <4> QED BY <2>4, <4>2, <4>5, <4>6
    <3> QED BY <3>1, <3>2
  <2>7. Packed(c, v, i)
    BY <2>5, <2>6 DEF Packed, l
  <2> QED BY <1>1, <2>1, <2>7
<1>5. n \in Nat
  OBVIOUS
<1> HIDE DEF T, n, l
<1>4. n \in T
  <2>1. n \in 0 .. n
    BY <1>5
  <2>2. \A i \in 0 .. n : i \in T
    BY <1>2, <1>3, <1>5, EveryRound
  <2> QED BY <2>1, <2>2
<1> QED BY <1>1, <1>4, PacksDef DEF T, n

(* A string in the middle of a buffer.                                     *)
LEMMA PartAt ==
    ASSUME NEW S, NEW b \in Seq(S), NEW lo \in Nat, NEW n \in Nat, lo + n <= Len(b)
    PROVE  /\ SubSeq(b, lo + 1, lo + n) \in Seq(S) /\ Len(SubSeq(b, lo + 1, lo + n)) = n
           /\ \A x \in 1 .. n : SubSeq(b, lo + 1, lo + n)[x] = b[lo + x]
<1> DEFINE u == SubSeq(b, lo + 1, lo + n)
<1>1. Len(b) \in Nat /\ \A x \in 1 .. Len(b) : b[x] \in S
  OBVIOUS
<1>2. \A x \in lo + 1 .. lo + n : x \in 1 .. Len(b) /\ b[x] \in S
  BY <1>1
<1>3. u \in Seq(S)
  BY <1>2, SubSeqProperties
<1>4. Len(u) = n /\ \A x \in 1 .. n : u[x] = b[lo + 1 + x - 1]
  BY <1>1, <1>2, SubSeqProperties
<1>5. \A x \in 1 .. n : lo + 1 + x - 1 = lo + x
  OBVIOUS
<1> HIDE DEF u
<1>6. \A x \in 1 .. n : u[x] = b[lo + x]
  BY <1>4, <1>5
<1> QED BY <1>3, <1>4, <1>6 DEF u

(* A string ends at the zero byte that follows it.                         *)
LEMMA EndOfString ==
    ASSUME NEW v \in Seq(Seq(Chars)), NEW k \in 1 .. Len(v), NEW b \in Seq(Cells), Packed(b, v, Len(v))
    PROVE  A!EndOf(b, Lengths(v)[k - 1] + 1) = Lengths(v)[k]
<1> DEFINE lo == Lengths(v)[k - 1]
           hi == Lengths(v)[k]
           q  == Len(v[k])
<1>1. v[k] \in Seq(Chars) /\ q \in Nat /\ Len(v) \in Nat
  OBVIOUS
<1>2. /\ Lengths(v) \in [0 .. Len(v) -> Nat]
      /\ Lengths(v)[k] = Lengths(v)[k - 1] + Len(v[k]) + 1
      /\ Lengths(v)[k] <= Lengths(v)[Len(v)]
  <2>1. Len(v) \in 0 .. Len(v) /\ k \in 0 .. Len(v)
    BY <1>1
  <2> QED BY <2>1, LengthsDef, LengthsGrow
<1>3. lo \in Nat /\ hi \in Nat
  <2>1. k \in 0 .. Len(v) /\ k - 1 \in 0 .. Len(v)
    BY <1>1
  <2>2. \A x \in 0 .. Len(v) : Lengths(v)[x] \in Nat
    BY <1>2
  <2> QED BY <2>1, <2>2
<1>4. b[hi] = A!NUL /\ Len(b) = Lengths(v)[Len(v)] /\ \A x \in 1 .. q : b[lo + x] = v[k][x]
  BY DEF Packed
<1>5. hi = lo + q + 1 /\ hi <= Len(b) /\ Len(b) \in Nat
  BY <1>2, <1>4
<1> HIDE DEF lo, hi, q
<1>6. ASSUME NEW x \in lo + 1 .. hi - 1 PROVE b[x] # A!NUL
  <2>1. x - lo \in 1 .. q /\ lo + (x - lo) = x
    BY <1>1, <1>3, <1>5
  <2>2. b[x] = v[k][x - lo]
    BY <1>4, <2>1
  <2>3. v[k][x - lo] \in Chars
    BY <1>1, <2>1 DEF q
  <2> QED BY <2>2, <2>3, SupportAssumption DEF A!NUL
<1>7. hi \in lo + 1 .. Len(b)
  BY <1>1, <1>3, <1>5
<1>8. ASSUME NEW i \in lo + 1 .. Len(b), b[i] = A!NUL, \A x \in lo + 1 .. i - 1 : b[x] # A!NUL
      PROVE  i = hi
  <2>1. CASE i < hi
    <3>1. i \in lo + 1 .. hi - 1
      BY <1>3, <1>5, <2>1
    <3> QED BY <1>6, <1>8, <3>1
  <2>2. CASE i > hi
    <3>1. hi \in lo + 1 .. i - 1
      BY <1>3, <1>5, <1>7, <2>2
    <3> QED BY <1>4, <1>8, <3>1
  <2> QED BY <1>3, <2>1, <2>2
<1>9. A!EndOf(b, lo + 1) = hi
  <2>1. \E i \in lo + 1 .. Len(b) : b[i] = A!NUL /\ \A x \in lo + 1 .. i - 1 : b[x] # A!NUL
    BY <1>4, <1>6, <1>7
  <2> QED BY <1>8, <2>1 DEF A!EndOf
<1> QED BY <1>9 DEF lo, hi

(* The rounds of argvunpack.                                               *)
Starts(argc, buf) ==
    LET a[i \in 0 .. argc] == IF i = 0 THEN 1 ELSE A!EndOf(buf, a[i - 1]) + 1
    IN  a

LEMMA StartsDef ==
    ASSUME NEW v \in Seq(Seq(Chars)), NEW b \in Seq(Cells), Packed(b, v, Len(v))
    PROVE  \A i \in 0 .. Len(v) : Starts(Len(v), b)[i] = Lengths(v)[i] + 1
<1> DEFINE n == Len(v)
           l == Lengths(v)
           a == Starts(n, b)
           f == [i \in 0 .. n |-> l[i] + 1]
<1>1. n \in Nat /\ l[0] = 0 /\ \A k \in 1 .. n : A!EndOf(b, l[k - 1] + 1) = l[k]
  BY LengthsDef, EndOfString
<1> HIDE DEF n, l
<1>2. \A i \in 0 .. n : f[i] = IF i = 0 THEN 1 ELSE A!EndOf(b, f[i - 1]) + 1
  <2> TAKE i \in 0 .. n
  <2>1. CASE i = 0
    BY <1>1, <2>1
  <2>2. CASE i # 0
    <3>1. i \in 1 .. n /\ i - 1 \in 0 .. n
      BY <1>1, <2>2
    <3>2. f[i] = l[i] + 1 /\ f[i - 1] = l[i - 1] + 1
      BY <3>1
    <3> QED BY <1>1, <2>2, <3>1, <3>2
  <2> QED BY <2>1, <2>2
<1>3. f = [i \in 0 .. n |-> IF i = 0 THEN 1 ELSE A!EndOf(b, f[i - 1]) + 1]
  BY <1>2
<1>4. a = [i \in 0 .. n |-> IF i = 0 THEN 1 ELSE A!EndOf(b, a[i - 1]) + 1]
  <2> HIDE DEF f
  <2> QED BY <1>3 DEF Starts
<1> HIDE DEF f, a
<1> DEFINE T == {i \in 0 .. n : a[i] = l[i] + 1}
<1>5. 0 \in T
  <2>1. 0 \in 0 .. n
    BY <1>1
  <2>2. a[0] = 1
    BY <1>4, <2>1
  <2> QED BY <1>1, <2>1, <2>2
<1>6. ASSUME NEW i \in 1 .. n, i - 1 \in T PROVE i \in T
  <2>1. i \in 0 .. n /\ i # 0
    BY <1>1
  <2>2. a[i] = A!EndOf(b, a[i - 1]) + 1
    BY <1>4, <2>1
  <2>3. a[i - 1] = l[i - 1] + 1
    BY <1>6
  <2> QED BY <1>1, <2>1, <2>2, <2>3
<1> HIDE DEF T
<1>7. \A i \in 0 .. n : i \in T
  BY <1>1, <1>5, <1>6, EveryRound
<1> QED BY <1>7 DEF T, n, l, a

LEMMA Unpacked ==
    ASSUME NEW v \in Seq(Seq(Chars)), NEW b \in Seq(Cells), Packed(b, v, Len(v))
    PROVE  A!argvunpack(Len(v), b) = v
<1> DEFINE n == Len(v)
           l == Lengths(v)
           a == Starts(n, b)
<1>1. n \in Nat /\ l \in [0 .. n -> Nat]
  BY LengthsDef
<1>2. A!argvunpack(n, b) = [i \in 1 .. n |-> SubSeq(b, a[i - 1], A!EndOf(b, a[i - 1]) - 1)]
  BY DEF A!argvunpack, Starts
<1>3. ASSUME NEW i \in 1 .. n PROVE SubSeq(b, a[i - 1], A!EndOf(b, a[i - 1]) - 1) = v[i]
  <2> DEFINE lo == l[i - 1]
             hi == l[i]
             w  == v[i]
  <2>1. i - 1 \in 0 .. n /\ i \in 0 .. n /\ n \in 0 .. n
    BY <1>1
  <2>2. a[i - 1] = lo + 1 /\ A!EndOf(b, lo + 1) = hi
    BY <2>1, StartsDef, EndOfString
  <2>3. hi = lo + Len(w) + 1 /\ hi <= l[n]
    BY <2>1, LengthsDef, LengthsGrow
  <2>4. lo \in Nat /\ w \in Seq(Chars) /\ Len(w) \in Nat
    <3>1. w \in Seq(Chars)
      OBVIOUS
    <3>2. \A x \in 0 .. n : l[x] \in Nat
      BY <1>1
    <3> QED BY <2>1, <3>1, <3>2
  <2>5. Len(b) = l[n] /\ \A x \in 1 .. Len(w) : b[lo + x] = w[x]
    BY DEF Packed
  <2> HIDE DEF lo, hi, w, a, l, n
  <2>6. SubSeq(b, lo + 1, hi - 1) = w
    <3> DEFINE s == SubSeq(b, lo + 1, lo + Len(w))
    <3>1. hi - 1 = lo + Len(w) /\ lo + Len(w) <= Len(b) /\ Len(b) \in Nat
      BY <2>3, <2>4, <2>5
    <3>2. s \in Seq(Cells) /\ Len(s) = Len(w) /\ \A x \in 1 .. Len(w) : s[x] = b[lo + x]
      BY <2>4, <3>1, PartAt
    <3>3. w \in Seq(Cells)
      BY <2>4 DEF Cells
    <3> HIDE DEF s
    <3>4. s = w
      BY <2>5, <3>2, <3>3, SeqEqual
    <3> QED BY <3>1, <3>4 DEF s
  <2> QED BY <2>2, <2>6 DEF w
<1>4. v = [i \in 1 .. n |-> v[i]]
  OBVIOUS
<1> QED BY <1>2, <1>3, <1>4

(* argscount counts the strings.                                           *)
LEMMA Counted ==
    ASSUME NEW v \in Seq(Seq(Chars)), NEW b \in Seq(Cells), Packed(b, v, Len(v))
    PROVE  A!argscount(b) = Len(v)
<1> DEFINE n == Len(v)
           l == Lengths(v)
           Z == {i \in 1 .. Len(b) : b[i] = A!NUL}
           f == [k \in 1 .. n |-> l[k]]
<1>1. n \in Nat /\ l \in [0 .. n -> Nat] /\ l[0] = 0 /\ Len(b) = l[n]
  BY LengthsDef DEF Packed
<1>2. ASSUME NEW k \in 1 .. n PROVE l[k] \in Z
  <2>1. b[l[k]] = A!NUL
    BY DEF Packed
  <2>2. k \in 0 .. n /\ 0 \in 0 .. k /\ 0 < k /\ n \in 0 .. n
    BY <1>1
  <2>3. l[0] < l[k] /\ l[k] <= l[n]
    BY <2>2, LengthsGrow
  <2>4. l[k] \in Nat /\ l[n] \in Nat
    BY <1>1, <2>2
  <2> HIDE DEF n, l
  <2>5. l[k] \in 1 .. Len(b)
    BY <1>1, <2>3, <2>4
  <2> QED BY <2>1, <2>5
<1>3. ASSUME NEW k \in 1 .. n, NEW m \in 1 .. n, l[k] = l[m] PROVE k = m
  <2>1. k \in 0 .. n /\ m \in 0 .. n /\ l[k] \in Nat
    <3>1. \A x \in 0 .. n : l[x] \in Nat
      BY <1>1
    <3>2. k \in 0 .. n /\ m \in 0 .. n
      BY <1>1
    <3> QED BY <3>1, <3>2
  <2>2. CASE k < m
    <3>1. k \in 0 .. m
      BY <2>1, <2>2
    <3>2. l[k] < l[m]
      BY <2>1, <2>2, <3>1, LengthsGrow
    <3> HIDE DEF l
    <3> QED BY <1>3, <2>1, <3>2
  <2>3. CASE m < k
    <3>1. m \in 0 .. k
      BY <2>1, <2>3
    <3>2. l[m] < l[k]
      BY <2>1, <2>3, <3>1, LengthsGrow
    <3> HIDE DEF l
    <3> QED BY <1>3, <2>1, <3>2
  <2> QED BY <1>1, <2>1, <2>2, <2>3
<1>4. ASSUME NEW i \in Z PROVE \E k \in 1 .. n : l[k] = i
  <2> DEFINE R == {k \in 0 .. n : i <= l[k]}
  <2>1. i \in 1 .. l[n] /\ b[i] = A!NUL /\ R \subseteq Nat
    BY <1>1, <1>4
  <2>2. n \in R
    BY <1>1, <2>1
  <2> HIDE DEF R
  <2>3. PICK k \in R : \A y \in R : k <= y
    BY <2>1, <2>2, LeastMember
  <2>4. k \in 1 .. n /\ k - 1 \in 0 .. n /\ i <= l[k]
    <3>1. k \in 0 .. n /\ i <= l[k]
      BY <2>3 DEF R
    <3>2. k # 0
      BY <1>1, <2>1, <3>1
    <3> QED BY <3>1, <3>2
  <2>5. ~ i <= l[k - 1]
    <3>1. k - 1 \notin R
      BY <2>1, <2>3, <2>4
    <3> QED BY <2>4, <3>1 DEF R
  <2>6. /\ l[k] = l[k - 1] + Len(v[k]) + 1 /\ \A x \in 1 .. Len(v[k]) : b[l[k - 1] + x] = v[k][x]
    BY <2>4, LengthsDef DEF Packed
  <2>7. l[k - 1] \in Nat /\ l[k] \in Nat /\ v[k] \in Seq(Chars) /\ Len(v[k]) \in Nat
    <3>1. \A x \in 0 .. n : l[x] \in Nat
      BY <1>1
    <3>2. v[k] \in Seq(Chars)
      BY <2>4
    <3>3. k \in 0 .. n
      BY <2>4
    <3> QED BY <2>4, <3>1, <3>2, <3>3
  <2> DEFINE lo == l[k - 1]
             hi == l[k]
             w  == v[k]
  <2>8. lo \in Nat /\ hi = lo + Len(w) + 1 /\ w \in Seq(Chars) /\ Len(w) \in Nat /\ ~ i <= lo /\ i <= hi
    BY <2>4, <2>5, <2>6, <2>7
  <2>9. \A x \in 1 .. Len(w) : b[lo + x] = w[x]
    BY <2>6
  <2> HIDE DEF lo, hi, w
  <2>10. i = hi
    <3> SUFFICES ASSUME i # hi PROVE FALSE
      OBVIOUS
    <3>1. i - lo \in 1 .. Len(w) /\ lo + (i - lo) = i
      BY <2>1, <2>8
    <3>2. b[i] = w[i - lo] /\ w[i - lo] \in Chars
      BY <2>8, <2>9, <3>1
    <3> QED BY <2>1, <3>2, SupportAssumption DEF A!NUL
  <2> QED BY <2>4, <2>10 DEF hi
<1> HIDE DEF Z
<1>5. f \in Bijection(1 .. n, Z)
  <2>1. f \in [1 .. n -> Z]
    BY <1>2
  <2>2. \A k, m \in 1 .. n : f[k] = f[m] => k = m
    BY <1>3
  <2>3. \A i \in Z : \E k \in 1 .. n : f[k] = i
    BY <1>4
  <2> HIDE DEF f, n
  <2> QED BY <2>1, <2>2, <2>3, Zenon DEF Bijection, Injection, Surjection, IsInjective
<1>6. ExistsBijection(1 .. n, Z)
  BY <1>5 DEF ExistsBijection
<1>7. Cardinality(Z) = n
  BY <1>1, <1>6, FS_CountingElements
<1>8. A!Cardinality(Z) = Cardinality(Z)
  BY DEF A!Cardinality, Cardinality, A!IsFiniteSet, IsFiniteSet
<1> QED BY <1>7, <1>8 DEF Z, A!argscount

(* The cell of the program in front of the strings.                        *)
LEMMA OneBefore ==
    ASSUME NEW S, NEW b \in Seq(S), NEW p
    PROVE  /\ <<p>> \o b # << >> /\ Len(<<p>> \o b) = Len(b) + 1
           /\ Head(<<p>> \o b) = p /\ Tail(<<p>> \o b) = b
<1> DEFINE R == S \cup {p}
           c == <<p>> \o b
<1>1. <<p>> \in Seq(R) /\ Len(<<p>>) = 1 /\ <<p>>[1] = p
  OBVIOUS
<1>2. b \in Seq(R) /\ Len(b) \in Nat
  OBVIOUS
<1> HIDE DEF R
<1>3. c \in Seq(R) /\ Len(c) = 1 + Len(b) /\ c[1] = p /\ \A i \in 1 .. Len(b) : c[1 + i] = b[i]
  BY <1>1, <1>2
<1> HIDE DEF c
<1>4. c # << >> /\ Head(c) = p
  BY <1>2, <1>3
<1>5. Tail(c) \in Seq(R) /\ Len(Tail(c)) = Len(b) /\ \A i \in 1 .. Len(b) : Tail(c)[i] = c[i + 1]
  BY <1>2, <1>3, <1>4
<1>6. \A i \in 1 .. Len(b) : i + 1 = 1 + i
  BY <1>2
<1>7. \A i \in 1 .. Len(b) : Tail(c)[i] = b[i]
  BY <1>3, <1>5, <1>6
<1>8. Tail(c) = b
  BY <1>2, <1>5, <1>7, SeqEqual
<1>9. Len(c) = Len(b) + 1
  BY <1>2, <1>3
<1> QED BY <1>4, <1>8, <1>9 DEF c

LEMMA ArgvType ==
    ASSUME NEW v \in A!Argvs
    PROVE  v \in Seq(Seq(Chars)) /\ Len(v) <= MaxArgs
<1>1. PICK n \in 0 .. MaxArgs : v \in [1 .. n -> A!Strings]
  BY DEF A!Argvs
<1>2. ASSUME NEW s \in A!Strings PROVE s \in Seq(Chars)
  <2>1. PICK m \in 0 .. MaxLength : s \in [1 .. m -> Chars]
    BY <1>2 DEF A!Strings
  <2>2. m \in Nat
    OBVIOUS
  <2> QED BY <2>1, <2>2
<1>3. n \in Nat /\ n <= MaxArgs
  BY SupportAssumption
<1>4. \A i \in 1 .. n : v[i] \in Seq(Chars)
  BY <1>1, <1>2
<1>5. v \in [1 .. n -> Seq(Chars)]
  BY <1>1, <1>4
<1>6. v \in Seq(Seq(Chars)) /\ Len(v) = n
  BY <1>3, <1>5
<1> QED BY <1>3, <1>6

(* The buffer that Execute makes.                                          *)
Buffer(x) == <<x[1]>> \o A!argvpack(x[2])

LEMMA BufferHas ==
    ASSUME NEW x \in Programs \X A!Argvs
    PROVE  /\ x # << >> /\ x = <<x[1], x[2]>>
           /\ Buffer(x) # << >> /\ Len(Buffer(x)) = A!argvlen(x[2]) + 1
           /\ Head(Buffer(x)) = x[1]
           /\ A!argscount(Tail(Buffer(x))) = Len(x[2])
           /\ A!argvunpack(Len(x[2]), Tail(Buffer(x))) = x[2]
<1> DEFINE p == x[1]
           v == x[2]
           b == A!argvpack(v)
<1>1. p \in Programs /\ v \in A!Argvs /\ x = <<p, v>> /\ x # << >>
  OBVIOUS
<1>2. v \in Seq(Seq(Chars))
  BY <1>1, ArgvType
<1> HIDE DEF v
<1>3. b \in Seq(Cells) /\ Packed(b, v, Len(v))
  BY <1>2, PackedAll
<1>4. Len(b) = A!argvlen(v)
  BY <1>2, <1>3, LengthsDef DEF Packed
<1> HIDE DEF b
<1>5. A!argscount(b) = Len(v) /\ A!argvunpack(Len(v), b) = v
  BY <1>2, <1>3, Counted, Unpacked
<1> HIDE DEF p
<1>6. <<p>> \o b # << >> /\ Len(<<p>> \o b) = Len(b) + 1 /\ Head(<<p>> \o b) = p /\ Tail(<<p>> \o b) = b
  BY <1>3, OneBefore
<1>7. Buffer(x) = <<p>> \o b
  BY DEF Buffer, p, b, v
<1> QED BY <1>1, <1>4, <1>5, <1>6, <1>7 DEF p, v

(* The buffer in the frame of Execute may be overwritten once the process  *)
(* has its own.                                                            *)
ArgumentsInv ==
    /\ asked = << >> \/ asked \in Programs \X A!Argvs
    /\ asked = << >> => frame = << >> /\ args = << >> /\ got = << >>
    /\ asked # << >> /\ args = << >> => frame = Buffer(asked)
    /\ args # << >> => asked # << >> /\ args = <<Buffer(asked)>>
    /\ got # << >> => got = asked

LEMMA InitArguments == ASSUME A!Init PROVE ArgumentsInv
BY DEF A!Init, A!Nothing, ArgumentsInv

LEMMA NextArguments == ASSUME ArgumentsInv, [A!Next]_A!vars PROVE ArgumentsInv'
<1>1. ASSUME NEW prog \in Programs, NEW argv \in A!Argvs, A!Execute(prog, argv) PROVE ArgumentsInv'
  <2> DEFINE x == <<prog, argv>>
  <2>1. asked = << >> /\ asked' = x /\ frame' = <<prog>> \o A!argvpack(argv) /\ UNCHANGED <<args, got>>
    BY <1>1 DEF A!Execute, A!Nothing
  <2>2. x \in Programs \X A!Argvs /\ x[1] = prog /\ x[2] = argv /\ x # << >>
    OBVIOUS
  <2>3. Buffer(x) = <<prog>> \o A!argvpack(argv)
    BY <2>2 DEF Buffer
  <2>4. Buffer(asked)' = Buffer(x)
    BY <2>1 DEF Buffer
  <2>5. args' = << >> /\ got' = << >>
    BY <2>1 DEF ArgumentsInv
  <2> HIDE DEF x
  <2> QED BY <2>1, <2>2, <2>3, <2>4, <2>5 DEF ArgumentsInv
<1>2. CASE A!sys_Exec
  <2>1. frame # << >> /\ args = << >> /\ args' = <<frame>> /\ UNCHANGED <<asked, frame, got>>
    BY <1>2 DEF A!sys_Exec, A!Nothing, A!CopiesArguments
  <2>2. asked # << >> /\ frame = Buffer(asked)
    BY <2>1 DEF ArgumentsInv
  <2>3. Buffer(asked)' = Buffer(asked)
    BY <2>1 DEF Buffer
  <2>4. args' # << >> /\ args' = <<Buffer(asked)>>
    BY <2>1, <2>2
  <2> QED BY <2>1, <2>2, <2>3, <2>4 DEF ArgumentsInv
<1>3. CASE A!Reuse
  <2>1. args # << >> /\ UNCHANGED <<asked, args, got>>
    BY <1>3 DEF A!Reuse, A!Nothing
  <2>2. Buffer(asked)' = Buffer(asked)
    BY <2>1 DEF Buffer
  <2> QED BY <2>1, <2>2 DEF ArgumentsInv
<1>4. CASE A!exec_wrapper
  <2>1. args # << >> /\ UNCHANGED <<asked, frame, args>>
    BY <1>4 DEF A!exec_wrapper, A!Nothing
  <2>2. asked \in Programs \X A!Argvs /\ args = <<Buffer(asked)>>
    BY <2>1 DEF ArgumentsInv
  <2> DEFINE b == Buffer(asked)
  <2>3. /\ b # << >> /\ Head(b) = asked[1] /\ A!argscount(Tail(b)) = Len(asked[2])
        /\ A!argvunpack(Len(asked[2]), Tail(b)) = asked[2] /\ asked = <<asked[1], asked[2]>>
    BY <2>2, BufferHas
  <2> HIDE DEF b
  <2>4. args # <<A!Nothing>> /\ args[1] = b
    BY <2>2, <2>3 DEF A!Nothing, b
  <2>5. got' = <<Head(b), A!argvunpack(A!argscount(Tail(b)), Tail(b))>>
    BY <1>4, <2>4 DEF A!exec_wrapper
  <2>6. got' = asked
    BY <2>3, <2>5
  <2>7. Buffer(asked)' = Buffer(asked)
    BY <2>1 DEF Buffer
  <2> QED BY <2>1, <2>6, <2>7 DEF ArgumentsInv
<1>5. CASE UNCHANGED A!vars
  <2>1. UNCHANGED <<asked, frame, args, got>>
    BY <1>5 DEF A!vars
  <2>2. Buffer(asked)' = Buffer(asked)
    BY <2>1 DEF Buffer
  <2> QED BY <2>1, <2>2 DEF ArgumentsInv
<1> QED BY <1>1, <1>2, <1>3, <1>4, <1>5 DEF A!Next

LEMMA ArgumentsFollow == ASSUME ArgumentsInv PROVE ArgumentsArrive
<1>1. got # A!Nothing => got = asked
  BY DEF ArgumentsInv, A!Nothing
<1>2. ASSUME asked # A!Nothing
      PROVE  LET argv == asked[2]
                 buf  == <<asked[1]>> \o A!argvpack(argv)
                 info == A!ParseProcInfo("exec_wrapper", buf, A!Nothing, MaxArgs)
             IN  /\ Len(buf) = A!argvlen(argv) + 1
                 /\ info.ret = IF Len(buf) > PROCINFO_MAX_ARGS_SIZE THEN -1 ELSE Len(argv)
                 /\ info.ret # -1 => info.argv = argv
  <2> DEFINE argv == asked[2]
             buf  == Buffer(asked)
             info == A!ParseProcInfo("exec_wrapper", buf, A!Nothing, MaxArgs)
             N    == A!argscount(Tail(buf))
  <2>1. asked \in Programs \X A!Argvs
    BY <1>2 DEF ArgumentsInv, A!Nothing
  <2>2. argv \in A!Argvs
    BY <2>1
  <2>3. argv \in Seq(Seq(Chars)) /\ Len(argv) \in Nat /\ Len(argv) <= MaxArgs /\ MaxArgs \in Nat
    BY <2>2, ArgvType, SupportAssumption
  <2>4. Len(buf) = A!argvlen(argv) + 1 /\ N = Len(argv) /\ A!argvunpack(Len(argv), Tail(buf)) = argv
    BY <2>1, BufferHas
  <2>5. info = IF Len(buf) > PROCINFO_MAX_ARGS_SIZE
               THEN [ret |-> -1, prog |-> A!Nothing, argv |-> << >>]
               ELSE [ret |-> N, prog |-> A!Nothing,
                     argv |-> A!argvunpack(IF MaxArgs > N THEN N ELSE MaxArgs, Tail(buf))]
    BY DEF A!ParseProcInfo
  <2> HIDE DEF argv, buf, info, N
  <2>6. (IF MaxArgs > N THEN N ELSE MaxArgs) = Len(argv)
    BY <2>3, <2>4
  <2>7. info = IF Len(buf) > PROCINFO_MAX_ARGS_SIZE
               THEN [ret |-> -1, prog |-> A!Nothing, argv |-> << >>]
               ELSE [ret |-> Len(argv), prog |-> A!Nothing, argv |-> argv]
    BY <2>4, <2>5, <2>6
  <2>8. /\ info.ret = IF Len(buf) > PROCINFO_MAX_ARGS_SIZE THEN -1 ELSE Len(argv)
        /\ info.ret # -1 => info.argv = argv
    BY <2>7
  <2> QED BY <2>4, <2>8 DEF argv, buf, info, Buffer
<1> QED BY <1>1, <1>2 DEF ArgumentsArrive, A!ArgumentsArrive

(* A program is called with the arguments that Execute was given, although *)
(* its caller may overwrite the buffer: argvpack, argscount and argvunpack *)
(* of util.h undo each other and argvlen is the size of the buffer, for    *)
(* any number of strings of any length.                                    *)
THEOREM ArgumentsDoArrive == SupportSpec => []ArgumentsArrive
<1>1. SupportInit => ArgumentsInv
  BY InitArguments DEF SupportInit
<1>2. ArgumentsInv /\ [SupportNext]_allVars => ArgumentsInv'
  <2> SUFFICES ASSUME ArgumentsInv, [SupportNext]_allVars PROVE ArgumentsInv'
    OBVIOUS
  <2>1. [A!Next]_A!vars
    BY DEF SupportNext, allVars, argVars, A!vars
  <2> QED BY <2>1, NextArguments
<1> QED BY <1>1, <1>2, ArgumentsFollow, PTL DEF SupportSpec

(***************************************************************************)
(* The rings of util.h.  The invariant says that the next pointers string  *)
(* some lists, one for each head, and that the prev pointers are their     *)
(* inverse.  Seen along the next pointers, the ring of a head l is l and   *)
(* the items of a sequence s, and back to l: Stop gives the node after i   *)
(* steps.                                                                  *)
(***************************************************************************)
Heaps == [next : [Nodes -> Nodes], prev : [Nodes -> Nodes], key : [Nodes -> Keys]]

Paired(h) == \A n \in Nodes : h.prev[h.next[n]] = n /\ h.next[h.prev[n]] = n

Stop(l, s, i) == IF i = 0 \/ i = Len(s) + 1 THEN l ELSE s[i]

Chain(nx, l, s) == \A i \in 0 .. Len(s) : nx[Stop(l, s, i)] = Stop(l, s, i + 1)

(* No item is in two lists, or twice in one.                               *)
Apart(f) == \A l, m \in Heads : \A i \in 1 .. Len(f[l]), k \in 1 .. Len(f[m]) :
                f[l][i] = f[m][k] => l = m /\ i = k

(* The pointers nx string the lists f.                                     *)
Strung(nx, f) ==
    /\ nx \in [Nodes -> Nodes]
    /\ f \in [Heads -> Seq(Items)]
    /\ Apart(f)
    /\ \A l \in Heads : Chain(nx, l, f[l])

Swap(nx, a, b) == [nx EXCEPT ![a] = nx[b], ![b] = nx[a]]

Links(h, f) == h \in Heaps /\ Paired(h) /\ Strung(h.next, f)

(* Some lists are strung: a ring without a head, as rlist_pop_back would   *)
(* leave one behind, is in none of them.                                   *)
RingsInv == \E f \in [Heads -> Seq(Items)] : Links(heap, f)

(* A splice exchanges two next pointers, and the prev pointers follow.     *)
LEMMA Spliced ==
    ASSUME NEW h \in Heaps, Paired(h), NEW a \in Nodes, NEW b \in Nodes
    PROVE  /\ rl_splice(h, a, b) \in Heaps
           /\ Paired(rl_splice(h, a, b))
           /\ rl_splice(h, a, b).next = Swap(h.next, a, b)
           /\ rl_splice(h, a, b).key = h.key
<1> DEFINE nx == h.next
           pv == h.prev
           g == rl_splice(h, a, b)
           gp == [pv EXCEPT ![nx[a]] = pv[nx[b]], ![nx[b]] = pv[nx[a]]]
           gn == Swap(nx, a, b)
<1>1. nx \in [Nodes -> Nodes] /\ pv \in [Nodes -> Nodes] /\ h.key \in [Nodes -> Keys]
  BY DEF Heaps
<1>2. \A n \in Nodes : pv[nx[n]] = n /\ nx[pv[n]] = n
  BY DEF Paired
<1>3. g = [h EXCEPT !.prev = gp, !.next = gn]
  BY <1>1 DEF rl_splice, Swap, Heaps
<1>4. g = [next |-> gn, prev |-> gp, key |-> h.key]
  BY <1>3 DEF Heaps
<1> HIDE DEF g, nx, pv
<1>5. gn \in [Nodes -> Nodes] /\ gp \in [Nodes -> Nodes]
  BY <1>1 DEF Swap
<1>6. ASSUME NEW n \in Nodes PROVE gp[gn[n]] = n /\ gn[gp[n]] = n
  <2>1. /\ gn[n] = IF n = b THEN nx[a] ELSE IF n = a THEN nx[b] ELSE nx[n]
        /\ \A x \in Nodes : gn[x] = IF x = b THEN nx[a] ELSE IF x = a THEN nx[b] ELSE nx[x]
    BY <1>1 DEF Swap
  <2>2. \A x \in Nodes : gp[x] = IF x = nx[b] THEN a ELSE IF x = nx[a] THEN b ELSE pv[x]
    BY <1>1, <1>2
  <2>3. nx[n] \in Nodes /\ nx[a] \in Nodes /\ nx[b] \in Nodes /\ pv[n] \in Nodes
    BY <1>1
  <2>4. \A x, y \in Nodes : nx[x] = nx[y] => x = y
    BY <1>2, Zenon
  <2>5. gp[gn[n]] = n
    <3> HIDE DEF gn, gp
    <3> QED BY <1>2, <2>1, <2>2, <2>3, <2>4
  <2>6. gn[gp[n]] = n
    <3> HIDE DEF gn, gp
    <3> QED BY <1>2, <2>1, <2>2, <2>3, <2>4
  <2> QED BY <2>5, <2>6
<1>7. g \in Heaps
  BY <1>1, <1>4, <1>5 DEF Heaps
<1>8. g.next = gn /\ g.prev = gp /\ g.key = h.key
  BY <1>4
<1> QED BY <1>6, <1>7, <1>8 DEF Paired, g, nx

LEMMA SwapIs ==
    ASSUME NEW nx \in [Nodes -> Nodes], NEW a \in Nodes, NEW b \in Nodes
    PROVE  /\ Swap(nx, a, b) \in [Nodes -> Nodes]
           /\ Swap(nx, a, b)[a] = nx[b]
           /\ Swap(nx, a, b)[b] = nx[a]
           /\ \A x \in Nodes \ {a, b} : Swap(nx, a, b)[x] = nx[x]
           /\ Swap(nx, a, b) = Swap(nx, b, a)
<1>1. Swap(nx, a, b) \in [Nodes -> Nodes] /\ Swap(nx, b, a) \in [Nodes -> Nodes]
  BY DEF Swap
<1>2. \A x \in Nodes : Swap(nx, a, b)[x] = IF x = b THEN nx[a] ELSE IF x = a THEN nx[b] ELSE nx[x]
  BY DEF Swap
<1>3. \A x \in Nodes : Swap(nx, b, a)[x] = IF x = a THEN nx[b] ELSE IF x = b THEN nx[a] ELSE nx[x]
  BY DEF Swap
<1>4. \A x \in Nodes : Swap(nx, a, b)[x] = Swap(nx, b, a)[x]
  BY <1>2, <1>3
<1>5. Swap(nx, a, b) = Swap(nx, b, a)
  BY <1>1, <1>4
<1> QED BY <1>1, <1>2, <1>5

LEMMA StopType ==
    ASSUME NEW f \in [Heads -> Seq(Items)], NEW l \in Heads
    PROVE  /\ f[l] \in Seq(Items) /\ Len(f[l]) \in Nat
           /\ \A i \in 1 .. Len(f[l]) : f[l][i] \in Items
           /\ \A i \in 1 .. Len(f[l]) : Stop(l, f[l], i) = f[l][i]
           /\ Stop(l, f[l], 0) = l /\ Stop(l, f[l], Len(f[l]) + 1) = l
           /\ \A i \in 0 .. Len(f[l]) + 1 : Stop(l, f[l], i) \in Nodes
<1>1. f[l] \in Seq(Items) /\ Len(f[l]) \in Nat
  OBVIOUS
<1>2. \A i \in 1 .. Len(f[l]) : f[l][i] \in Items
  BY <1>1
<1>3. \A i \in 1 .. Len(f[l]) : Stop(l, f[l], i) = f[l][i]
  BY <1>1 DEF Stop
<1>4. Stop(l, f[l], 0) = l /\ Stop(l, f[l], Len(f[l]) + 1) = l
  BY DEF Stop
<1>5. \A i \in 0 .. Len(f[l]) + 1 : i \in 1 .. Len(f[l]) \/ i = 0 \/ i = Len(f[l]) + 1
  BY <1>1
<1> QED BY <1>1, <1>2, <1>3, <1>4, <1>5 DEF Nodes

(* A node is at one place of one ring.                                     *)
LEMMA StopsDiffer ==
    ASSUME NEW f \in [Heads -> Seq(Items)], Apart(f), NEW l \in Heads, NEW m \in Heads,
           NEW i \in 0 .. Len(f[l]), NEW k \in 0 .. Len(f[m]),
           Stop(l, f[l], i) = Stop(m, f[m], k)
    PROVE  l = m /\ i = k
<1>1. Heads \cap Items = {}
  BY NodesAssumption
<1>2. /\ i = 0 \/ i \in 1 .. Len(f[l])
      /\ k = 0 \/ k \in 1 .. Len(f[m])
  BY StopType
<1>3. CASE i = 0 /\ k = 0
  BY <1>3, StopType
<1>4. CASE i = 0 /\ k \in 1 .. Len(f[m])
  <2>1. l = f[m][k] /\ f[m][k] \in Items
    BY <1>4, StopType
  <2> QED BY <1>1, <2>1
<1>5. CASE i \in 1 .. Len(f[l]) /\ k = 0
  <2>1. m = f[l][i] /\ f[l][i] \in Items
    BY <1>5, StopType
  <2> QED BY <1>1, <2>1
<1>6. CASE i \in 1 .. Len(f[l]) /\ k \in 1 .. Len(f[m])
  <2>1. f[l][i] = f[m][k]
    BY <1>6, StopType
  <2> QED BY <1>6, <2>1 DEF Apart
<1> QED BY <1>2, <1>3, <1>4, <1>5, <1>6

(* An item that is alone is in no list.                                    *)
LEMMA AloneIsLoose ==
    ASSUME NEW nx, NEW f, Strung(nx, f), NEW n \in Items, nx[n] = n,
           NEW l \in Heads, NEW i \in 0 .. Len(f[l])
    PROVE  Stop(l, f[l], i) # n
<1> SUFFICES ASSUME Stop(l, f[l], i) = n PROVE FALSE
  OBVIOUS
<1>1. f \in [Heads -> Seq(Items)] /\ Apart(f) /\ Chain(nx, l, f[l])
  BY DEF Strung
<1>2. Len(f[l]) \in Nat /\ n \notin Heads
  BY <1>1, StopType, NodesAssumption
<1>3. Stop(l, f[l], i + 1) = n
  BY <1>1 DEF Chain
<1>4. i + 1 # Len(f[l]) + 1
  BY <1>1, <1>2, <1>3, StopType
<1>5. i + 1 \in 0 .. Len(f[l])
  BY <1>2, <1>4
<1>6. i + 1 = i
  BY <1>1, <1>3, <1>5, StopsDiffer
<1> QED BY <1>2, <1>6

(* A splice of nodes that are in other rings leaves a ring as it was.      *)
LEMMA ChainStays ==
    ASSUME NEW nx, NEW f, Strung(nx, f), NEW a \in Nodes, NEW b \in Nodes, NEW m \in Heads,
           \A i \in 0 .. Len(f[m]) : Stop(m, f[m], i) # a /\ Stop(m, f[m], i) # b
    PROVE  Chain(Swap(nx, a, b), m, f[m])
<1> SUFFICES ASSUME NEW i \in 0 .. Len(f[m])
             PROVE  Swap(nx, a, b)[Stop(m, f[m], i)] = Stop(m, f[m], i + 1)
  BY DEF Chain
<1>1. nx \in [Nodes -> Nodes] /\ f \in [Heads -> Seq(Items)] /\ Chain(nx, m, f[m])
  BY DEF Strung
<1>2. Len(f[m]) \in Nat
  BY <1>1, StopType
<1>3. i \in 0 .. Len(f[m]) + 1
  BY <1>2
<1>4. Stop(m, f[m], i) \in Nodes \ {a, b}
  BY <1>1, <1>3, StopType
<1>5. nx[Stop(m, f[m], i)] = Stop(m, f[m], i + 1)
  BY <1>1 DEF Chain
<1> QED BY <1>1, <1>4, <1>5, SwapIs

(* Nodes outside of the lists are spliced without a trace in the lists.    *)
LEMMA OrphansKeep ==
    ASSUME NEW nx, NEW f, Strung(nx, f), NEW a \in Nodes, NEW b \in Nodes,
           \A m \in Heads : \A i \in 0 .. Len(f[m]) : Stop(m, f[m], i) # a /\ Stop(m, f[m], i) # b
    PROVE  Strung(Swap(nx, a, b), f)
<1>1. \A m \in Heads : Chain(Swap(nx, a, b), m, f[m])
  BY ChainStays
<1>2. Swap(nx, a, b) \in [Nodes -> Nodes]
  BY SwapIs DEF Strung
<1> QED BY <1>1, <1>2 DEF Strung

LEMMA ApartWith ==
    ASSUME NEW f \in [Heads -> Seq(Items)], Apart(f), NEW l \in Heads, NEW r \in Seq(Items),
           \A i, k \in 1 .. Len(r) : r[i] = r[k] => i = k,
           \A i \in 1 .. Len(r) : \A m \in Heads \ {l} : \A k \in 1 .. Len(f[m]) : r[i] # f[m][k]
    PROVE  /\ [f EXCEPT ![l] = r] \in [Heads -> Seq(Items)]
           /\ Apart([f EXCEPT ![l] = r])
<1> DEFINE g == [f EXCEPT ![l] = r]
<1>1. g \in [Heads -> Seq(Items)] /\ g[l] = r /\ \A m \in Heads \ {l} : g[m] = f[m]
  OBVIOUS
<1> HIDE DEF g
<1>2. ASSUME NEW x \in Heads, NEW y \in Heads, NEW i \in 1 .. Len(g[x]), NEW k \in 1 .. Len(g[y]),
             g[x][i] = g[y][k]
      PROVE  x = y /\ i = k
  <2>1. CASE x = l /\ y = l
    BY <1>1, <1>2, <2>1
  <2>2. CASE x = l /\ y # l
    <3>1. g[x] = r /\ g[y] = f[y] /\ y \in Heads \ {l}
      BY <1>1, <2>2
    <3> QED BY <1>2, <3>1
  <2>3. CASE x # l /\ y = l
    <3>1. g[y] = r /\ g[x] = f[x] /\ x \in Heads \ {l}
      BY <1>1, <2>3
    <3> QED BY <1>2, <3>1
  <2>4. CASE x # l /\ y # l
    <3>1. g[y] = f[y] /\ g[x] = f[x]
      BY <1>1, <2>4
    <3> QED BY <1>2, <3>1 DEF Apart
  <2> QED BY <2>1, <2>2, <2>3, <2>4
<1>3. Apart(g)
  BY <1>2 DEF Apart
<1> QED BY <1>1, <1>3 DEF g

LEMMA StopInsert ==
    ASSUME NEW f \in [Heads -> Seq(Items)], NEW l \in Heads, NEW k \in 0 .. Len(f[l]), NEW n \in Items,
           NEW r, r = InsertAt(f[l], k + 1, n)
    PROVE  /\ r \in Seq(Items) /\ Len(r) = Len(f[l]) + 1
           /\ \A i \in 0 .. Len(f[l]) + 2 :
                Stop(l, r, i) = IF i <= k THEN Stop(l, f[l], i)
                                ELSE IF i = k + 1 THEN n ELSE Stop(l, f[l], i - 1)
<1> DEFINE s == f[l]
<1>1. s \in Seq(Items) /\ Len(s) \in Nat /\ k + 1 \in 1 .. Len(s) + 1
  BY StopType
<1>0. r = InsertAt(s, k + 1, n)
  OBVIOUS
<1> HIDE DEF s
<1>2. /\ r \in Seq(Items) /\ Len(r) = Len(s) + 1
      /\ \A i \in 1 .. Len(s) + 1 : r[i] = IF i < k + 1 THEN s[i] ELSE IF i = k + 1 THEN n ELSE s[i - 1]
  <2> DEFINE c == k + 1
  <2>1. c \in 1 .. Len(s) + 1
    BY <1>1
  <2> HIDE DEF c
  <2>2. /\ InsertAt(s, c, n) \in Seq(Items) /\ Len(InsertAt(s, c, n)) = Len(s) + 1
        /\ \A i \in 1 .. Len(s) + 1 : InsertAt(s, c, n)[i] = IF i < c THEN s[i] ELSE IF i = c THEN n ELSE s[i - 1]
    BY <1>1, <2>1, InsertAtProperties
  <2> QED BY <1>0, <2>2 DEF c
<1>3. ASSUME NEW i \in 0 .. Len(s) + 2
      PROVE  Stop(l, r, i) = IF i <= k THEN Stop(l, s, i)
                             ELSE IF i = k + 1 THEN n ELSE Stop(l, s, i - 1)
  BY <1>1, <1>2 DEF Stop, s
<1> QED BY <1>2, <1>3 DEF s

LEMMA StopRemove ==
    ASSUME NEW f \in [Heads -> Seq(Items)], NEW l \in Heads, NEW k \in 1 .. Len(f[l]),
           NEW r, r = RemoveAt(f[l], k)
    PROVE  /\ r \in Seq(Items) /\ Len(r) = Len(f[l]) - 1
           /\ \A i \in 0 .. Len(f[l]) : Stop(l, r, i) = IF i < k THEN Stop(l, f[l], i) ELSE Stop(l, f[l], i + 1)
<1> DEFINE s == f[l]
<1>1. s \in Seq(Items) /\ Len(s) \in Nat /\ k \in 1 .. Len(s)
  BY StopType
<1>2. /\ r \in Seq(Items) /\ Len(r) = Len(s) - 1
      /\ \A i \in 1 .. Len(s) - 1 : r[i] = IF i < k THEN s[i] ELSE s[i + 1]
  BY <1>1, RemoveAtProperties
<1> HIDE DEF s
<1>3. ASSUME NEW i \in 0 .. Len(s)
      PROVE  Stop(l, r, i) = IF i < k THEN Stop(l, s, i) ELSE Stop(l, s, i + 1)
  <2>1. i = 0 \/ i = Len(s) \/ i \in 1 .. Len(s) - 1
    BY <1>1
  <2>2. CASE i = 0
    BY <1>1, <2>2 DEF Stop
  <2>3. CASE i = Len(s)
    <3>1. Len(r) + 1 = i /\ ~ (i < k)
      BY <1>1, <1>2, <2>3
    <3> QED BY <2>3, <3>1 DEF Stop
  <2>4. CASE i \in 1 .. Len(s) - 1
    <3>1. i # 0 /\ i # Len(r) + 1 /\ i # Len(s) + 1 /\ i + 1 # 0 /\ i + 1 # Len(s) + 1
      BY <1>1, <1>2, <2>4
    <3> QED BY <1>2, <2>4, <3>1 DEF Stop
  <2> QED BY <2>1, <2>2, <2>3, <2>4
<1> QED BY <1>2, <1>3 DEF s

(* An item that is alone is spliced behind a place of a list.              *)
LEMMA InsertKeeps ==
    ASSUME NEW nx, NEW f, Strung(nx, f), NEW l \in Heads, NEW k \in 0 .. Len(f[l]),
           NEW n \in Items, nx[n] = n
    PROVE  Strung(Swap(nx, Stop(l, f[l], k), n), [f EXCEPT ![l] = InsertAt(f[l], k + 1, n)])
<1> DEFINE s == f[l]
           a == Stop(l, s, k)
           r == InsertAt(s, k + 1, n)
           g == [f EXCEPT ![l] = r]
           sw == Swap(nx, a, n)
<1>1. /\ nx \in [Nodes -> Nodes] /\ f \in [Heads -> Seq(Items)] /\ Apart(f)
      /\ \A m \in Heads : Chain(nx, m, f[m])
  BY DEF Strung
<1>2. Len(s) \in Nat /\ k \in 0 .. Len(s) + 1 /\ n \in Nodes
  BY <1>1, StopType DEF Nodes
<1>3. a \in Nodes
  BY <1>1, <1>2, StopType
<1>4. /\ r \in Seq(Items) /\ Len(r) = Len(s) + 1
      /\ \A i \in 0 .. Len(s) + 2 :
           Stop(l, r, i) = IF i <= k THEN Stop(l, s, i) ELSE IF i = k + 1 THEN n ELSE Stop(l, s, i - 1)
  BY <1>1, StopInsert
<1>5. /\ sw \in [Nodes -> Nodes] /\ sw[a] = nx[n] /\ sw[n] = nx[a]
      /\ \A x \in Nodes \ {a, n} : sw[x] = nx[x]
  BY <1>1, <1>2, <1>3, SwapIs
<1>6. \A m \in Heads : \A i \in 0 .. Len(f[m]) : Stop(m, f[m], i) # n
  BY AloneIsLoose
<1>7. \A m \in Heads : \A i \in 0 .. Len(f[m]) : Stop(m, f[m], i) = a => m = l /\ i = k
  BY <1>1, StopsDiffer
<1>8. ASSUME NEW i \in 0 .. Len(s), i # k
      PROVE  sw[Stop(l, s, i)] = Stop(l, s, i + 1)
  <2>1. Stop(l, s, i) # n /\ Stop(l, s, i) # a /\ i \in 0 .. Len(s) + 1
    BY <1>2, <1>6, <1>7, <1>8
  <2>2. Stop(l, s, i) \in Nodes
    BY <1>1, <2>1, StopType
  <2>3. nx[Stop(l, s, i)] = Stop(l, s, i + 1)
    BY <1>1 DEF Chain
  <2> QED BY <1>5, <2>1, <2>2, <2>3
<1>9. nx[a] = Stop(l, s, k + 1)
  BY <1>1 DEF Chain
<1> HIDE DEF a, r, sw
<1>10. ASSUME NEW i \in 0 .. Len(r)
       PROVE  sw[Stop(l, r, i)] = Stop(l, r, i + 1)
  <2>1. i \in 0 .. Len(s) + 2 /\ i + 1 \in 0 .. Len(s) + 2 /\ i <= Len(s) + 1
    BY <1>2, <1>4
  <2>2. CASE i < k
    <3>1. Stop(l, r, i) = Stop(l, s, i) /\ Stop(l, r, i + 1) = Stop(l, s, i + 1)
      BY <1>2, <1>4, <2>1, <2>2
    <3>2. i \in 0 .. Len(s)
      BY <1>2, <2>1, <2>2
    <3> QED BY <1>8, <2>2, <3>1, <3>2
  <2>3. CASE i = k
    <3>1. Stop(l, r, i) = Stop(l, s, i) /\ Stop(l, r, i + 1) = n
      BY <1>2, <1>4, <2>1, <2>3
    <3> QED BY <1>5, <2>3, <3>1 DEF a
  <2>4. CASE i = k + 1
    <3>1. Stop(l, r, i) = n /\ Stop(l, r, i + 1) = Stop(l, s, i)
      BY <1>2, <1>4, <2>1, <2>4
    <3> QED BY <1>5, <1>9, <2>4, <3>1
  <2>5. CASE i > k + 1
    <3>1. Stop(l, r, i) = Stop(l, s, i - 1) /\ Stop(l, r, i + 1) = Stop(l, s, i)
      BY <1>2, <1>4, <2>1, <2>5
    <3>2. i - 1 \in 0 .. Len(s) /\ i - 1 # k /\ i - 1 + 1 = i
      BY <1>2, <2>1, <2>5
    <3> QED BY <1>8, <3>1, <3>2
  <2> QED BY <1>2, <2>1, <2>2, <2>3, <2>4, <2>5
<1>11. Chain(sw, l, r)
  BY <1>10 DEF Chain
<1>12. \A m \in Heads \ {l} : Chain(sw, m, f[m])
  <2> TAKE m \in Heads \ {l}
  <2>1. \A i \in 0 .. Len(f[m]) : Stop(m, f[m], i) # a /\ Stop(m, f[m], i) # n
    BY <1>6, <1>7
  <2> QED BY <1>2, <1>3, <2>1, ChainStays DEF sw
<1>13. \A i \in 1 .. Len(r) : r[i] = Stop(l, r, i) /\ i \in 0 .. Len(s) + 2
  BY <1>2, <1>4 DEF Stop
<1>14. ASSUME NEW i \in 1 .. Len(r)
       PROVE  \/ i = k + 1 /\ r[i] = n
              \/ i <= k /\ i \in 1 .. Len(s) /\ r[i] = s[i]
              \/ i > k + 1 /\ i - 1 \in 1 .. Len(s) /\ r[i] = s[i - 1]
  <2>1. \A x \in 1 .. Len(s) : Stop(l, s, x) = s[x]
    BY <1>1, StopType
  <2>2. i \in 1 .. Len(s) + 1
    BY <1>4
  <2>3. CASE i = k + 1
    BY <1>2, <1>4, <1>13, <2>3
  <2>4. CASE i <= k
    <3>1. i \in 1 .. Len(s) /\ r[i] = Stop(l, s, i)
      BY <1>2, <1>4, <1>13, <2>2, <2>4
    <3> QED BY <2>1, <2>4, <3>1
  <2>5. CASE i > k + 1
    <3>1. i - 1 \in 1 .. Len(s) /\ r[i] = Stop(l, s, i - 1)
      BY <1>2, <1>4, <1>13, <2>2, <2>5
    <3> QED BY <2>1, <2>5, <3>1
  <2> QED BY <1>2, <2>2, <2>3, <2>4, <2>5
<1>15. \A m \in Heads : \A i \in 1 .. Len(f[m]) : f[m][i] # n
  <2> TAKE m \in Heads
  <2> TAKE i \in 1 .. Len(f[m])
  <2>1. Stop(m, f[m], i) = f[m][i]
    BY <1>1, StopType
  <2>2. i \in 0 .. Len(f[m])
    OBVIOUS
  <2> QED BY <1>6, <2>1, <2>2
<1>16. \A x, y \in 1 .. Len(s) : s[x] = s[y] => x = y
  BY <1>1 DEF Apart
<1>17. \A x \in 1 .. Len(s) : s[x] # n
  BY <1>15
<1>18. \A m \in Heads \ {l} : \A x \in 1 .. Len(s), y \in 1 .. Len(f[m]) : s[x] # f[m][y]
  BY <1>1 DEF Apart
<1> HIDE DEF s
<1>19. ASSUME NEW x \in 1 .. Len(r), NEW y \in 1 .. Len(r), r[x] = r[y] PROVE x = y
  <2>1. x \in Int /\ y \in Int /\ k \in Int
    BY <1>2
  <2> QED BY <1>14, <1>16, <1>17, <1>19, <2>1
<1>20. ASSUME NEW x \in 1 .. Len(r), NEW m \in Heads \ {l}, NEW y \in 1 .. Len(f[m])
       PROVE  r[x] # f[m][y]
  BY <1>14, <1>15, <1>18
<1>21. g \in [Heads -> Seq(Items)] /\ Apart(g)
  BY <1>1, <1>4, <1>19, <1>20, ApartWith
<1>22. \A m \in Heads : Chain(sw, m, g[m])
  BY <1>1, <1>11, <1>12
<1>23. Strung(sw, g)
  BY <1>5, <1>21, <1>22 DEF Strung
<1> QED BY <1>23 DEF sw, s, a, r

(* An item of a list is spliced with the node before it: it is alone then. *)
LEMMA RemoveKeeps ==
    ASSUME NEW nx, NEW f, Strung(nx, f), NEW l \in Heads, NEW k \in 1 .. Len(f[l])
    PROVE  /\ Strung(Swap(nx, f[l][k], Stop(l, f[l], k - 1)), [f EXCEPT ![l] = RemoveAt(f[l], k)])
           /\ Swap(nx, f[l][k], Stop(l, f[l], k - 1))[f[l][k]] = f[l][k]
<1> DEFINE s == f[l]
           n == s[k]
           a == Stop(l, s, k - 1)
           r == RemoveAt(s, k)
           g == [f EXCEPT ![l] = r]
           sw == Swap(nx, n, a)
<1>1. /\ nx \in [Nodes -> Nodes] /\ f \in [Heads -> Seq(Items)] /\ Apart(f)
      /\ \A m \in Heads : Chain(nx, m, f[m])
  BY DEF Strung
<1>2. Len(s) \in Nat /\ k - 1 \in 0 .. Len(s) + 1 /\ k - 1 \in 0 .. Len(s) /\ k \in 0 .. Len(s) /\ k - 1 + 1 = k
  BY <1>1, StopType
<1>3. a \in Nodes /\ n \in Items /\ n \in Nodes /\ n = Stop(l, s, k)
  BY <1>1, <1>2, StopType DEF Nodes
<1>4. /\ r \in Seq(Items) /\ Len(r) = Len(s) - 1
      /\ \A i \in 0 .. Len(s) : Stop(l, r, i) = IF i < k THEN Stop(l, s, i) ELSE Stop(l, s, i + 1)
  BY <1>1, StopRemove
<1>5. /\ sw \in [Nodes -> Nodes] /\ sw[n] = nx[a] /\ sw[a] = nx[n]
      /\ \A x \in Nodes \ {a, n} : sw[x] = nx[x]
  BY <1>1, <1>3, SwapIs
<1>6. \A m \in Heads : \A i \in 0 .. Len(f[m]) : Stop(m, f[m], i) = n => m = l /\ i = k
  BY <1>1, <1>2, <1>3, StopsDiffer
<1>7. \A m \in Heads : \A i \in 0 .. Len(f[m]) : Stop(m, f[m], i) = a => m = l /\ i = k - 1
  BY <1>1, <1>2, StopsDiffer
<1>8. ASSUME NEW i \in 0 .. Len(s), i # k, i # k - 1
      PROVE  sw[Stop(l, s, i)] = Stop(l, s, i + 1)
  <2>1. Stop(l, s, i) # n /\ Stop(l, s, i) # a /\ i \in 0 .. Len(s) + 1
    BY <1>2, <1>6, <1>7, <1>8
  <2>2. Stop(l, s, i) \in Nodes
    BY <1>1, <2>1, StopType
  <2>3. nx[Stop(l, s, i)] = Stop(l, s, i + 1)
    BY <1>1 DEF Chain
  <2> QED BY <1>5, <2>1, <2>2, <2>3
<1>9. nx[a] = n /\ nx[n] = Stop(l, s, k + 1)
  BY <1>1, <1>2, <1>3 DEF Chain
<1> HIDE DEF a, r, sw, n
<1>10. ASSUME NEW i \in 0 .. Len(r)
       PROVE  sw[Stop(l, r, i)] = Stop(l, r, i + 1)
  <2>1. i \in 0 .. Len(s) /\ i + 1 \in 0 .. Len(s)
    BY <1>2, <1>4
  <2>2. CASE i < k - 1
    <3>1. Stop(l, r, i) = Stop(l, s, i) /\ Stop(l, r, i + 1) = Stop(l, s, i + 1)
      BY <1>2, <1>4, <2>1, <2>2
    <3>2. i # k /\ i # k - 1
      BY <1>2, <2>1, <2>2
    <3> QED BY <1>8, <2>1, <3>1, <3>2
  <2>3. CASE i = k - 1
    <3>1. Stop(l, r, i) = Stop(l, s, k - 1) /\ Stop(l, r, i + 1) = Stop(l, s, k + 1)
      BY <1>2, <1>4, <2>1, <2>3
    <3> QED BY <1>5, <1>9, <3>1 DEF a
  <2>4. CASE i > k - 1
    <3>1. Stop(l, r, i) = Stop(l, s, i + 1) /\ Stop(l, r, i + 1) = Stop(l, s, i + 1 + 1)
      BY <1>2, <1>4, <2>1, <2>4
    <3>2. i + 1 # k /\ i + 1 # k - 1
      BY <1>2, <2>1, <2>4
    <3> QED BY <1>8, <2>1, <3>1, <3>2
  <2> QED BY <1>2, <2>1, <2>2, <2>3, <2>4
<1>11. Chain(sw, l, r)
  BY <1>10 DEF Chain
<1>12. \A m \in Heads \ {l} : Chain(sw, m, f[m])
  <2> TAKE m \in Heads \ {l}
  <2>1. \A i \in 0 .. Len(f[m]) : Stop(m, f[m], i) # a /\ Stop(m, f[m], i) # n
    BY <1>6, <1>7
  <2> QED BY <1>3, <2>1, ChainStays DEF sw
<1>13. ASSUME NEW i \in 1 .. Len(r)
       PROVE  \/ i < k /\ i \in 1 .. Len(s) /\ r[i] = s[i]
              \/ i >= k /\ i + 1 \in 1 .. Len(s) /\ r[i] = s[i + 1]
  <2>1. \A x \in 1 .. Len(s) : Stop(l, s, x) = s[x]
    BY <1>1, StopType
  <2>2. r[i] = Stop(l, r, i) /\ i \in 0 .. Len(s) /\ i \in 1 .. Len(s) /\ i + 1 \in 1 .. Len(s)
    BY <1>2, <1>4 DEF Stop
  <2>3. CASE i < k
    BY <1>4, <2>1, <2>2, <2>3
  <2>4. CASE i >= k
    BY <1>2, <1>4, <2>1, <2>2, <2>4
  <2> QED BY <1>2, <2>2, <2>3, <2>4
<1>16. \A x, y \in 1 .. Len(s) : s[x] = s[y] => x = y
  BY <1>1 DEF Apart
<1>18. \A m \in Heads \ {l} : \A x \in 1 .. Len(s), y \in 1 .. Len(f[m]) : s[x] # f[m][y]
  BY <1>1 DEF Apart
<1> HIDE DEF s
<1>19. ASSUME NEW x \in 1 .. Len(r), NEW y \in 1 .. Len(r), r[x] = r[y] PROVE x = y
  <2>1. x \in Int /\ y \in Int /\ k \in Int
    BY <1>2
  <2> QED BY <1>13, <1>16, <1>19, <2>1
<1>20. ASSUME NEW x \in 1 .. Len(r), NEW m \in Heads \ {l}, NEW y \in 1 .. Len(f[m])
       PROVE  r[x] # f[m][y]
  BY <1>13, <1>18
<1>21. g \in [Heads -> Seq(Items)] /\ Apart(g)
  BY <1>1, <1>4, <1>19, <1>20, ApartWith
<1>22. \A m \in Heads : Chain(sw, m, g[m])
  BY <1>1, <1>11, <1>12
<1>23. Strung(sw, g)
  BY <1>5, <1>21, <1>22 DEF Strung
<1> QED BY <1>5, <1>9, <1>23 DEF sw, s, a, r, n

(* The rounds of the loops of util.h that go along a ring.                 *)
LEMMA WalkDef ==
    ASSUME NEW h \in Heaps, NEW p \in Nodes
    PROVE  /\ Cardinality(Nodes) \in Nat
           /\ walk(h, p) \in [1 .. Cardinality(Nodes) -> Nodes]
           /\ \A i \in 1 .. Cardinality(Nodes) :
                walk(h, p)[i] = h.next[IF i = 1 THEN p ELSE walk(h, p)[i - 1]]
<1> DEFINE n == Cardinality(Nodes)
           nx == h.next
           step == [i \in 1 .. n |-> nx]
           at == walk(h, p)
<1>1. n \in Nat /\ nx \in [Nodes -> Nodes]
  BY NodesAssumption, FS_Union, FS_CardinalityType DEF Nodes, Heaps
<1>2. step \in [1 .. n -> [Nodes -> Nodes]] /\ \A i \in 1 .. n : step[i] = nx
  BY <1>1
<1> HIDE DEF n, step
<1>3. PICK f \in [0 .. n -> Nodes] : Rounds(f, p, n, step)
  BY <1>1, <1>2, LoopExists
<1>4. f[0] = p /\ \A i \in 1 .. n : f[i] = nx[f[i - 1]]
  BY <1>2, <1>3 DEF Rounds
<1> DEFINE g == [i \in 1 .. n |-> f[i]]
<1>5. ASSUME NEW i \in 1 .. n PROVE g[i] = nx[IF i = 1 THEN p ELSE g[i - 1]]
  <2>1. CASE i = 1
    BY <1>4, <2>1
  <2>2. CASE i # 1
    <3>1. i - 1 \in 1 .. n
      BY <1>1, <2>2
    <3> QED BY <1>4, <2>2, <3>1
  <2> QED BY <2>1, <2>2
<1>6. g = [i \in 1 .. n |-> nx[IF i = 1 THEN p ELSE g[i - 1]]]
  BY <1>5
<1> HIDE DEF g
<1>7. at = [i \in 1 .. n |-> nx[IF i = 1 THEN p ELSE at[i - 1]]]
  BY <1>6 DEF walk, Turns, n
<1> HIDE DEF at, nx
<1>8. \A i \in 1 .. n : at[i] = nx[IF i = 1 THEN p ELSE at[i - 1]]
  BY <1>7
<1>9. \A i \in 0 .. n : i = 0 \/ at[i] \in Nodes
  <2> DEFINE T == {i \in 0 .. n : i = 0 \/ at[i] \in Nodes}
  <2>1. ASSUME NEW i \in 1 .. n, i - 1 \in T PROVE i \in T
    <3>1. at[i] = nx[IF i = 1 THEN p ELSE at[i - 1]]
      BY <1>8
    <3>2. CASE i = 1
      BY <1>1, <3>1, <3>2
    <3>3. CASE i # 1
      <4>1. at[i - 1] \in Nodes
        BY <2>1, <3>3
      <4> QED BY <1>1, <3>1, <3>3, <4>1
    <3> QED BY <3>2, <3>3
  <2>2. 0 \in T
    BY <1>1
  <2> HIDE DEF T
  <2>3. \A i \in 0 .. n : i \in T
    BY <1>1, <2>1, <2>2, EveryRound
  <2> QED BY <2>3 DEF T
<1>10. \A i \in 1 .. n : at[i] \in Nodes
  BY <1>1, <1>9
<1>11. at \in [1 .. n -> Nodes]
  BY <1>7, <1>10
<1> QED BY <1>1, <1>8, <1>11 DEF at, nx, n

(* A list and its head are no more than the nodes.                         *)
LEMMA RingFits ==
    ASSUME NEW f \in [Heads -> Seq(Items)], Apart(f), NEW l \in Heads
    PROVE  /\ Len(f[l]) + 1 \in 1 .. Cardinality(Nodes)
           /\ IsFiniteSet({Stop(l, f[l], i) : i \in 0 .. Len(f[l])})
           /\ Cardinality({Stop(l, f[l], i) : i \in 0 .. Len(f[l])}) = Len(f[l]) + 1
           /\ Len(f[l]) <= Cardinality(Items)
<1> DEFINE n == Len(f[l])
           R == {Stop(l, f[l], i) : i \in 0 .. n}
           e == [i \in 0 .. n |-> Stop(l, f[l], i)]
           g == [i \in 1 .. n |-> f[l][i]]
<1>1. n \in Nat /\ \A i \in 0 .. n + 1 : Stop(l, f[l], i) \in Nodes
  BY StopType
<1>2. \A i, k \in 0 .. n : Stop(l, f[l], i) = Stop(l, f[l], k) => i = k
  BY StopsDiffer
<1>3. IsFiniteSet(Nodes) /\ IsFiniteSet(Items)
  BY NodesAssumption, FS_Union DEF Nodes
<1>4. R \subseteq Nodes
  <2>1. \A i \in 0 .. n : i \in 0 .. n + 1
    BY <1>1
  <2> QED BY <1>1, <2>1
<1>5. e \in Bijection(0 .. n, R)
  <2>1. e \in [0 .. n -> R] /\ \A x \in R : \E i \in 0 .. n : e[i] = x
    OBVIOUS
  <2>2. \A i, k \in 0 .. n : e[i] = e[k] => i = k
    BY <1>2
  <2> HIDE DEF e, R, n
  <2> QED BY <2>1, <2>2, Zenon DEF Bijection, Injection, Surjection, IsInjective
<1>6. IsFiniteSet(0 .. n) /\ Cardinality(0 .. n) = n + 1
  <2> HIDE DEF n
  <2>1. 0 \in Int /\ n \in Int /\ ~ (0 > n) /\ n - 0 + 1 = n + 1
    BY <1>1
  <2> QED BY <2>1, FS_Interval
<1>7. ExistsBijection(0 .. n, R)
  BY <1>5 DEF ExistsBijection
<1> HIDE DEF R, e, n
<1>8. IsFiniteSet(R) /\ Cardinality(R) = n + 1
  BY <1>6, <1>7, FS_Bijection
<1>9. Cardinality(R) <= Cardinality(Nodes) /\ Cardinality(Nodes) \in Nat
  BY <1>3, <1>4, FS_Subset, FS_CardinalityType
<1>10. n + 1 \in 1 .. Cardinality(Nodes)
  BY <1>1, <1>8, <1>9
<1>11. n <= Cardinality(Items)
  <2>1. g \in Injection(1 .. n, Items)
    <3>1. g \in [1 .. n -> Items]
      BY StopType DEF n
    <3>2. \A i, k \in 1 .. n : g[i] = g[k] => i = k
      BY DEF Apart, n
    <3> HIDE DEF g
    <3> QED BY <3>1, <3>2, Zenon DEF Injection, IsInjective
  <2>2. Cardinality(1 .. n) = n
    <3>1. 1 \in Int /\ n \in Int /\ n - 1 + 1 = n /\ (1 > n => n = 0)
      BY <1>1
    <3> QED BY <3>1, FS_Interval
  <2> HIDE DEF g
  <2>3. Cardinality(1 .. n) <= Cardinality(Items)
    BY <1>3, <2>1, FS_Injection
  <2> QED BY <2>2, <2>3
<1> QED BY <1>8, <1>10, <1>11 DEF R, n

(* The walk from a head stops at each node of the ring, in the order of    *)
(* the list, and leaves the ring no more.                                  *)
LEMMA WalkIs ==
    ASSUME NEW h, NEW f, Links(h, f), NEW l \in Heads
    PROVE  /\ \A i \in 1 .. Len(f[l]) + 1 : walk(h, l)[i] = Stop(l, f[l], i)
           /\ \A i \in 1 .. Cardinality(Nodes) : \E k \in 0 .. Len(f[l]) : walk(h, l)[i] = Stop(l, f[l], k)
<1> DEFINE n == Len(f[l])
           at == walk(h, l)
           N == Cardinality(Nodes)
           S(i) == Stop(l, f[l], i)
<1>1. /\ h \in Heaps /\ f \in [Heads -> Seq(Items)] /\ Apart(f)
      /\ \A i \in 0 .. n : h.next[S(i)] = S(i + 1)
  BY DEF Links, Strung, Chain
<1>2. n \in Nat /\ l \in Nodes /\ S(0) = l /\ S(n + 1) = l
  BY <1>1, StopType DEF Nodes
<1>3. N \in Nat /\ at \in [1 .. N -> Nodes] /\ \A i \in 1 .. N : at[i] = h.next[IF i = 1 THEN l ELSE at[i - 1]]
  BY <1>1, <1>2, WalkDef
<1>4. n + 1 \in 1 .. N
  BY <1>1, RingFits
<1> HIDE DEF n, at, N, S
<1>5. \A i \in 0 .. n + 1 : i = 0 \/ at[i] = S(i)
  <2> DEFINE T == {i \in 0 .. n + 1 : i = 0 \/ at[i] = S(i)}
  <2>1. ASSUME NEW i \in 1 .. n + 1, i - 1 \in T PROVE i \in T
    <3>1. i \in 1 .. N /\ i - 1 \in 0 .. n /\ i - 1 + 1 = i /\ i \in 0 .. n + 1
      BY <1>2, <1>3, <1>4
    <3>2. at[i] = h.next[IF i = 1 THEN l ELSE at[i - 1]] /\ h.next[S(i - 1)] = S(i)
      BY <1>1, <1>3, <3>1
    <3>3. (IF i = 1 THEN l ELSE at[i - 1]) = S(i - 1)
      BY <1>2, <2>1, <3>1
    <3> QED BY <3>1, <3>2, <3>3
  <2>2. 0 \in T /\ n + 1 \in Nat
    BY <1>2
  <2> HIDE DEF T
  <2>3. \A i \in 0 .. n + 1 : i \in T
    BY <2>1, <2>2, EveryRound
  <2> QED BY <2>3 DEF T
<1>6. \A i \in 0 .. N : i = 0 \/ \E k \in 0 .. n : at[i] = S(k)
  <2> DEFINE T == {i \in 0 .. N : i = 0 \/ \E k \in 0 .. n : at[i] = S(k)}
  <2>1. ASSUME NEW i \in 1 .. N, i - 1 \in T PROVE i \in T
    <3>1. at[i] = h.next[IF i = 1 THEN l ELSE at[i - 1]] /\ i \in 0 .. N
      BY <1>3
    <3>2. PICK k \in 0 .. n : (IF i = 1 THEN l ELSE at[i - 1]) = S(k)
      <4>1. CASE i = 1
        <5>1. 0 \in 0 .. n
          BY <1>2
        <5> QED BY <1>2, <4>1, <5>1
      <4>2. CASE i # 1
        <5>1. i - 1 # 0
          BY <4>2
        <5> QED BY <2>1, <4>2, <5>1
      <4> QED BY <4>1, <4>2
    <3>3. at[i] = S(k + 1)
      BY <1>1, <3>1, <3>2
    <3>4. \E x \in 0 .. n : S(k + 1) = S(x)
      <4>1. CASE k = n
        <5>1. 0 \in 0 .. n /\ S(k + 1) = S(0)
          BY <1>2, <4>1
        <5> QED BY <5>1
      <4>2. CASE k # n
        <5>1. k + 1 \in 0 .. n
          BY <1>2, <4>2
        <5> QED BY <5>1
      <4> QED BY <4>1, <4>2
    <3> QED BY <3>1, <3>3, <3>4
  <2>2. 0 \in T
    BY <1>3
  <2> HIDE DEF T
  <2>3. \A i \in 0 .. N : i \in T
    BY <1>3, <2>1, <2>2, EveryRound
  <2> QED BY <2>3 DEF T
<1>7. \A i \in 1 .. n + 1 : at[i] = S(i)
  BY <1>2, <1>5
<1>8. \A i \in 1 .. N : \E k \in 0 .. n : at[i] = S(k)
  <2>1. \A i \in 1 .. N : i \in 0 .. N /\ i # 0
    BY <1>3
  <2> QED BY <1>6, <2>1
<1> QED BY <1>7, <1>8 DEF n, at, N, S

(* The list that is seen in a heap is the one that is strung.              *)
LEMMA ListOfIs ==
    ASSUME NEW h, NEW f, Links(h, f), NEW l \in Heads
    PROVE  /\ Ring(h, l) = {Stop(l, f[l], i) : i \in 0 .. Len(f[l])}
           /\ ListOf(h, l) = f[l]
<1> DEFINE n == Len(f[l])
           at == walk(h, l)
           N == Cardinality(Nodes)
           R == {Stop(l, f[l], i) : i \in 0 .. n}
<1>1. h \in Heaps /\ f \in [Heads -> Seq(Items)] /\ Apart(f)
  BY DEF Links, Strung
<1>2. /\ n \in Nat /\ l \in Nodes /\ f[l] \in Seq(Items)
      /\ Stop(l, f[l], 0) = l /\ Stop(l, f[l], n + 1) = l
      /\ \A i \in 1 .. n : Stop(l, f[l], i) = f[l][i]
  BY <1>1, StopType DEF Nodes
<1>3. N \in Nat /\ at \in [1 .. N -> Nodes]
  BY <1>1, <1>2, WalkDef
<1>4. n + 1 \in 1 .. N /\ Cardinality(R) = n + 1
  BY <1>1, RingFits
<1>5. /\ \A i \in 1 .. n + 1 : at[i] = Stop(l, f[l], i)
      /\ \A i \in 1 .. N : \E k \in 0 .. n : at[i] = Stop(l, f[l], k)
  BY WalkIs
<1>6. Ring(h, l) = {at[i] : i \in 1 .. N}
  BY DEF Ring, Turns
<1> HIDE DEF n, at, N
<1>7. Ring(h, l) \subseteq R
  BY <1>5, <1>6
<1>8. R \subseteq Ring(h, l)
  <2> SUFFICES ASSUME NEW i \in 0 .. n PROVE \E k \in 1 .. N : at[k] = Stop(l, f[l], i)
    BY <1>6
  <2>1. CASE i = 0
    <3>1. n + 1 \in 1 .. n + 1 /\ n + 1 \in 1 .. N
      BY <1>2, <1>4
    <3>2. at[n + 1] = Stop(l, f[l], n + 1)
      BY <1>5, <3>1
    <3> QED BY <1>2, <2>1, <3>1, <3>2
  <2>2. CASE i # 0
    <3>1. i \in 1 .. n + 1 /\ i \in 1 .. N
      BY <1>2, <1>3, <1>4, <2>2
    <3> QED BY <1>5, <3>1
  <2> QED BY <2>1, <2>2
<1>9. Ring(h, l) = R
  BY <1>7, <1>8
<1> HIDE DEF R
<1>10. ListOf(h, l) = SubSeq(at, 1, n)
  <2>1. Cardinality(Ring(h, l)) - 1 = n
    BY <1>2, <1>4, <1>9
  <2>2. ListOf(h, l) = SubSeq(at, 1, Cardinality(Ring(h, l)) - 1)
    BY DEF ListOf, at
  <2> QED BY <2>1, <2>2
<1>11. at \in Seq(Nodes) /\ Len(at) = N
  BY <1>3
<1>12. SubSeq(at, 1, n) = [i \in 1 .. n |-> at[i]]
  BY <1>2, <1>3, <1>4, <1>11
<1>13. \A i \in 1 .. n : at[i] = f[l][i]
  <2>1. \A i \in 1 .. n : i \in 1 .. n + 1
    BY <1>2
  <2> QED BY <1>2, <1>5, <2>1
<1>14. f[l] = [i \in 1 .. n |-> f[l][i]]
  BY <1>2 DEF n
<1>15. SubSeq(at, 1, n) = f[l]
  BY <1>12, <1>13, <1>14
<1> QED BY <1>9, <1>10, <1>15 DEF R, n

LEMMA PrevIs ==
    ASSUME NEW h, NEW f, Links(h, f), NEW l \in Heads, NEW k \in 0 .. Len(f[l])
    PROVE  /\ h.prev[Stop(l, f[l], k + 1)] = Stop(l, f[l], k)
           /\ h.next[Stop(l, f[l], k)] = Stop(l, f[l], k + 1)
<1>1. f \in [Heads -> Seq(Items)] /\ h.next[Stop(l, f[l], k)] = Stop(l, f[l], k + 1)
  BY DEF Links, Strung, Chain
<1>2. Len(f[l]) \in Nat
  BY <1>1, StopType
<1>3. k \in 0 .. Len(f[l]) + 1
  BY <1>2
<1>4. Stop(l, f[l], k) \in Nodes
  BY <1>1, <1>3, StopType
<1> QED BY <1>1, <1>4 DEF Links, Paired

LEMMA SpliceLinks ==
    ASSUME NEW h, NEW f, NEW g, Links(h, f), NEW a \in Nodes, NEW b \in Nodes, Strung(Swap(h.next, a, b), g)
    PROVE  Links(rl_splice(h, a, b), g)
BY Spliced DEF Links

LEMMA InsertLinks ==
    ASSUME NEW h, NEW f, Links(h, f), NEW l \in Heads, NEW k \in 0 .. Len(f[l]),
           NEW n \in Items, h.next[n] = n
    PROVE  Links(rl_splice(h, Stop(l, f[l], k), n), [f EXCEPT ![l] = InsertAt(f[l], k + 1, n)])
<1>1. f \in [Heads -> Seq(Items)] /\ Strung(h.next, f)
  BY DEF Links, Strung
<1>2. Len(f[l]) \in Nat
  BY <1>1, StopType
<1>3. k \in 0 .. Len(f[l]) + 1
  BY <1>2
<1>4. Stop(l, f[l], k) \in Nodes /\ n \in Nodes
  BY <1>1, <1>3, StopType DEF Nodes
<1>5. Strung(Swap(h.next, Stop(l, f[l], k), n), [f EXCEPT ![l] = InsertAt(f[l], k + 1, n)])
  BY <1>1, InsertKeeps
<1> QED BY <1>4, <1>5, SpliceLinks

LEMMA RemoveLinks ==
    ASSUME NEW h, NEW f, Links(h, f), NEW l \in Heads, NEW k \in 1 .. Len(f[l])
    PROVE  /\ Links(rlist_remove(h, f[l][k]), [f EXCEPT ![l] = RemoveAt(f[l], k)])
           /\ rlist_remove(h, f[l][k]).next[f[l][k]] = f[l][k]
           /\ rlist_remove(h, f[l][k]) = rl_splice(h, f[l][k], Stop(l, f[l], k - 1))
<1> DEFINE n == f[l][k]
           a == Stop(l, f[l], k - 1)
<1>1. f \in [Heads -> Seq(Items)] /\ Strung(h.next, f) /\ h \in Heaps /\ Paired(h)
  BY DEF Links, Strung
<1>2. Len(f[l]) \in Nat /\ n \in Nodes /\ Stop(l, f[l], k) = n
  BY <1>1, StopType DEF Nodes
<1>3. k - 1 \in 0 .. Len(f[l]) + 1 /\ k - 1 \in 0 .. Len(f[l]) /\ k - 1 + 1 = k
  BY <1>2
<1>4. a \in Nodes
  BY <1>1, <1>3, StopType
<1>5. h.prev[n] = a
  BY <1>2, <1>3, PrevIs
<1>6. Strung(Swap(h.next, n, a), [f EXCEPT ![l] = RemoveAt(f[l], k)]) /\ Swap(h.next, n, a)[n] = n
  <2> DEFINE nx == h.next
  <2>1. Strung(nx, f)
    BY <1>1
  <2> HIDE DEF nx
  <2>2. Strung(Swap(nx, n, a), [f EXCEPT ![l] = RemoveAt(f[l], k)]) /\ Swap(nx, n, a)[n] = n
    BY <2>1, RemoveKeeps
  <2> QED BY <2>2 DEF nx
<1>7. rlist_remove(h, n) = rl_splice(h, n, a)
  BY <1>5 DEF rlist_remove
<1>8. Links(rl_splice(h, n, a), [f EXCEPT ![l] = RemoveAt(f[l], k)])
  BY <1>2, <1>4, <1>6, SpliceLinks
<1>9. rl_splice(h, n, a).next = Swap(h.next, n, a)
  BY <1>1, <1>2, <1>4, Spliced
<1> QED BY <1>6, <1>7, <1>8, <1>9

LEMMA PushFrontLinks ==
    ASSUME NEW h, NEW f, Links(h, f), NEW l \in Heads, NEW n \in Items, is_rlist_empty(h, n)
    PROVE  Links(rlist_push_front(h, l, n), [f EXCEPT ![l] = InsertAt(f[l], 1, n)])
<1>1. f \in [Heads -> Seq(Items)] /\ h.next[n] = n
  BY DEF Links, Strung, is_rlist_empty
<1>2. Len(f[l]) \in Nat /\ Stop(l, f[l], 0) = l
  BY <1>1, StopType
<1>3. 0 \in 0 .. Len(f[l]) /\ 0 + 1 = 1
  BY <1>2
<1>4. Links(rl_splice(h, Stop(l, f[l], 0), n), [f EXCEPT ![l] = InsertAt(f[l], 0 + 1, n)])
  BY <1>1, <1>3, InsertLinks
<1> QED BY <1>2, <1>3, <1>4 DEF rlist_push_front

LEMMA PushBackLinks ==
    ASSUME NEW h, NEW f, Links(h, f), NEW l \in Heads, NEW n \in Items, is_rlist_empty(h, n)
    PROVE  Links(rlist_push_back(h, l, n), [f EXCEPT ![l] = InsertAt(f[l], Len(f[l]) + 1, n)])
<1> DEFINE k == Len(f[l])
<1>1. f \in [Heads -> Seq(Items)] /\ h.next[n] = n
  BY DEF Links, Strung, is_rlist_empty
<1>2. k \in Nat /\ Stop(l, f[l], k + 1) = l
  BY <1>1, StopType
<1>3. k \in 0 .. Len(f[l])
  BY <1>2
<1>4. h.prev[l] = Stop(l, f[l], k)
  BY <1>2, <1>3, PrevIs
<1>5. Links(rl_splice(h, Stop(l, f[l], k), n), [f EXCEPT ![l] = InsertAt(f[l], k + 1, n)])
  BY <1>1, <1>3, InsertLinks
<1> QED BY <1>4, <1>5 DEF rlist_push_back

LEMMA SpliceBeforeLinks ==
    ASSUME NEW h, NEW f, Links(h, f), NEW l \in Heads, NEW k \in 1 .. Len(f[l]),
           NEW n \in Items, is_rlist_empty(h, n)
    PROVE  Links(rl_splice(h, h.prev[f[l][k]], n), [f EXCEPT ![l] = InsertAt(f[l], k, n)])
<1>1. f \in [Heads -> Seq(Items)] /\ h.next[n] = n
  BY DEF Links, Strung, is_rlist_empty
<1>2. Len(f[l]) \in Nat /\ Stop(l, f[l], k) = f[l][k]
  BY <1>1, StopType
<1>3. k - 1 \in 0 .. Len(f[l]) /\ k - 1 + 1 = k
  BY <1>2
<1>4. h.prev[f[l][k]] = Stop(l, f[l], k - 1)
  BY <1>2, <1>3, PrevIs
<1>5. Links(rl_splice(h, Stop(l, f[l], k - 1), n), [f EXCEPT ![l] = InsertAt(f[l], k - 1 + 1, n)])
  BY <1>1, <1>3, InsertLinks
<1> QED BY <1>3, <1>4, <1>5

LEMMA PopFrontLinks ==
    ASSUME NEW h, NEW f, Links(h, f), NEW l \in Heads, ~ is_rlist_empty(h, l)
    PROVE  /\ 1 \in 1 .. Len(f[l])
           /\ Links(rlist_pop_front(h, l), [f EXCEPT ![l] = RemoveAt(f[l], 1)])
<1>1. f \in [Heads -> Seq(Items)] /\ Strung(h.next, f) /\ h.next \in [Nodes -> Nodes] /\ h.next[l] # l
  BY DEF Links, Strung, is_rlist_empty
<1>2. /\ Len(f[l]) \in Nat /\ Stop(l, f[l], 0) = l /\ Stop(l, f[l], Len(f[l]) + 1) = l
      /\ \A i \in 1 .. Len(f[l]) : Stop(l, f[l], i) = f[l][i] /\ f[l][i] \in Items
  BY <1>1, StopType
<1>3. 0 \in 0 .. Len(f[l]) /\ 0 + 1 = 1 /\ 1 - 1 = 0
  BY <1>2
<1>4. h.next[l] = Stop(l, f[l], 1)
  BY <1>2, <1>3, PrevIs
<1>5. 1 \in 1 .. Len(f[l])
  <2>1. Len(f[l]) # 0
    BY <1>1, <1>2, <1>4
  <2> QED BY <1>2, <2>1
<1>6. h.next[l] = f[l][1] /\ f[l][1] \in Nodes /\ l \in Nodes
  BY <1>2, <1>4, <1>5 DEF Nodes
<1>7. Strung(Swap(h.next, f[l][1], l), [f EXCEPT ![l] = RemoveAt(f[l], 1)])
  BY <1>1, <1>2, <1>3, <1>5, RemoveKeeps
<1>8. Swap(h.next, f[l][1], l) = Swap(h.next, l, f[l][1])
  BY <1>1, <1>6, SwapIs
<1>9. Links(rl_splice(h, l, f[l][1]), [f EXCEPT ![l] = RemoveAt(f[l], 1)])
  BY <1>6, <1>7, <1>8, SpliceLinks
<1> QED BY <1>5, <1>6, <1>9 DEF rlist_pop_front

(* The head is spliced with the last item: it is alone then, and the items *)
(* are a ring without a head.                                              *)
LEMMA PopBackLinks ==
    ASSUME NEW h, NEW f, Links(h, f), NEW l \in Heads
    PROVE  Links(rlist_pop_back(h, l), [f EXCEPT ![l] = << >>])
<1> DEFINE nx == h.next
           k == Len(f[l])
           a == Stop(l, f[l], k)
           sw == Swap(nx, l, a)
           r == << >>
           g == [f EXCEPT ![l] = r]
<1>1. /\ nx \in [Nodes -> Nodes] /\ f \in [Heads -> Seq(Items)] /\ Apart(f) /\ Strung(nx, f)
      /\ \A m \in Heads : Chain(nx, m, f[m])
  BY DEF Links, Strung
<1>2. k \in Nat /\ Stop(l, f[l], k + 1) = l /\ Stop(l, f[l], 0) = l /\ l \in Nodes
  BY <1>1, StopType DEF Nodes
<1>3. k \in 0 .. Len(f[l]) /\ k \in 0 .. Len(f[l]) + 1 /\ 0 \in 0 .. Len(f[l])
  BY <1>2
<1>4. a \in Nodes /\ h.prev[l] = a /\ nx[a] = l
  BY <1>1, <1>2, <1>3, PrevIs, StopType
<1>5. sw \in [Nodes -> Nodes] /\ sw[l] = l
  BY <1>1, <1>2, <1>4, SwapIs
<1>6. \A m \in Heads \ {l} : Chain(sw, m, f[m])
  <2> TAKE m \in Heads \ {l}
  <2>1. \A i \in 0 .. Len(f[m]) : Stop(m, f[m], i) # l /\ Stop(m, f[m], i) # a
    BY <1>1, <1>2, <1>3, StopsDiffer
  <2> QED BY <1>1, <1>2, <1>4, <2>1, ChainStays
<1>7. r \in Seq(Items) /\ Len(r) = 0 /\ \A i \in 1 .. Len(r) : FALSE
  OBVIOUS
<1> HIDE DEF sw, r
<1>8. Chain(sw, l, r)
  <2>1. \A i \in 0 .. Len(r) : i = 0
    BY <1>7
  <2>2. Stop(l, r, 0) = l /\ Stop(l, r, 0 + 1) = l
    BY <1>7 DEF Stop
  <2> QED BY <1>5, <2>1, <2>2 DEF Chain
<1>9. g \in [Heads -> Seq(Items)] /\ Apart(g)
  BY <1>1, <1>7, ApartWith
<1>10. \A m \in Heads : Chain(sw, m, g[m])
  BY <1>1, <1>6, <1>8
<1>11. Strung(sw, g)
  BY <1>5, <1>9, <1>10 DEF Strung
<1>12. Links(rl_splice(h, l, a), g)
  BY <1>2, <1>4, <1>11, SpliceLinks DEF sw
<1> QED BY <1>4, <1>12 DEF rlist_pop_back, r

Orphan(f, n) == \A m \in Heads : \A i \in 0 .. Len(f[m]) : Stop(m, f[m], i) # n

(* The neighbours of a node that is in no list are in no list.             *)
LEMMA OrphanPrev ==
    ASSUME NEW h, NEW f, Links(h, f), NEW n \in Items, Orphan(f, n)
    PROVE  h.prev[n] \in Nodes /\ Orphan(f, h.prev[n])
<1>1. h.prev \in [Nodes -> Nodes] /\ n \in Nodes /\ h.next[h.prev[n]] = n /\ f \in [Heads -> Seq(Items)]
  BY DEF Links, Heaps, Paired, Nodes, Strung
<1>2. ASSUME NEW m \in Heads, NEW i \in 0 .. Len(f[m]), Stop(m, f[m], i) = h.prev[n]
      PROVE  FALSE
  <2>1. n = Stop(m, f[m], i + 1)
    BY <1>1, <1>2, PrevIs
  <2>2. Len(f[m]) \in Nat /\ Stop(m, f[m], Len(f[m]) + 1) = m /\ n # m
    BY <1>1, StopType, NodesAssumption
  <2>3. i + 1 \in 0 .. Len(f[m])
    BY <2>1, <2>2
  <2> QED BY <2>1, <2>3 DEF Orphan
<1> QED BY <1>1, <1>2 DEF Orphan

LEMMA OrphanLinks ==
    ASSUME NEW h, NEW f, Links(h, f), NEW a \in Nodes, NEW b \in Nodes, Orphan(f, a), Orphan(f, b)
    PROVE  Links(rl_splice(h, a, b), f)
<1>1. Strung(Swap(h.next, a, b), f)
  BY OrphansKeep DEF Links, Orphan
<1> QED BY <1>1, SpliceLinks

(* z is x with the whole of y put behind its place k.                      *)
Grafted(x, y, k, z) ==
    /\ z \in Seq(Items) /\ Len(z) = Len(x) + Len(y)
    /\ \A i \in 1 .. Len(z) : z[i] = IF i <= k THEN x[i] ELSE IF i <= k + Len(y) THEN y[i - k] ELSE x[i - Len(y)]

(* A list is spliced into another one, and its head is taken out of it.    *)
LEMMA GraftKeeps ==
    ASSUME NEW nx, NEW f, Strung(nx, f), NEW dest \in Heads, NEW src \in Heads, dest # src,
           NEW k \in 0 .. Len(f[dest]), NEW z, Grafted(f[dest], f[src], k, z), Len(f[src]) # 0,
           NEW ny \in [Nodes -> Nodes], ny[src] = src,
           ny[Stop(dest, f[dest], k)] = nx[src],
           ny[Stop(src, f[src], Len(f[src]))] = nx[Stop(dest, f[dest], k)],
           \A n \in Nodes \ {src, Stop(dest, f[dest], k), Stop(src, f[src], Len(f[src]))} : ny[n] = nx[n]
    PROVE  Strung(ny, [f EXCEPT ![dest] = z, ![src] = << >>])
<1> DEFINE x == f[dest]
           y == f[src]
           a == Stop(dest, x, k)
           b == Stop(src, y, Len(y))
           e == << >>
           fe == [f EXCEPT ![src] = e]
           g == [fe EXCEPT ![dest] = z]
<1>1. /\ nx \in [Nodes -> Nodes] /\ f \in [Heads -> Seq(Items)] /\ Apart(f)
      /\ \A m \in Heads : Chain(nx, m, f[m])
  BY DEF Strung
<1>2. /\ Len(x) \in Nat /\ Len(y) \in Nat /\ k \in 0 .. Len(x) /\ Len(y) # 0
      /\ \A i \in 1 .. Len(x) : Stop(dest, x, i) = x[i]
      /\ \A i \in 1 .. Len(y) : Stop(src, y, i) = y[i]
      /\ Stop(dest, x, 0) = dest /\ Stop(dest, x, Len(x) + 1) = dest
      /\ Stop(src, y, 0) = src /\ Stop(src, y, Len(y) + 1) = src
  BY <1>1, StopType
<1>3. /\ \A i \in 0 .. Len(x) + 1 : Stop(dest, x, i) \in Nodes
      /\ \A i \in 0 .. Len(y) + 1 : Stop(src, y, i) \in Nodes
  BY <1>1, StopType
<1>4. /\ \A i \in 0 .. Len(x) : nx[Stop(dest, x, i)] = Stop(dest, x, i + 1)
      /\ \A i \in 0 .. Len(y) : nx[Stop(src, y, i)] = Stop(src, y, i + 1)
  BY <1>1 DEF Chain
<1>5. /\ z \in Seq(Items) /\ Len(z) = Len(x) + Len(y)
      /\ \A i \in 1 .. Len(z) : z[i] = IF i <= k THEN x[i] ELSE IF i <= k + Len(y) THEN y[i - k] ELSE x[i - Len(y)]
  BY DEF Grafted
<1>6. \A m \in Heads : \A i \in 0 .. Len(f[m]) : Stop(m, f[m], i) = a => m = dest /\ i = k
  BY <1>1, StopsDiffer
<1>7. \A m \in Heads : \A i \in 0 .. Len(f[m]) :
        /\ Stop(m, f[m], i) = b => m = src /\ i = Len(y)
        /\ Stop(m, f[m], i) = src => m = src /\ i = 0
  <2>1. Len(y) \in 0 .. Len(f[src]) /\ 0 \in 0 .. Len(f[src])
    BY <1>2
  <2> QED BY <1>1, <1>2, <2>1, StopsDiffer
<1>8. ASSUME NEW i \in 0 .. Len(x), i # k PROVE ny[Stop(dest, x, i)] = Stop(dest, x, i + 1)
  <2>1. Stop(dest, x, i) # a /\ Stop(dest, x, i) # b /\ Stop(dest, x, i) # src
    BY <1>6, <1>7, <1>8
  <2>2. i \in 0 .. Len(x) + 1
    BY <1>2
  <2> QED BY <1>3, <1>4, <2>1, <2>2
<1>9. ASSUME NEW i \in 1 .. Len(y), i # Len(y) PROVE ny[Stop(src, y, i)] = Stop(src, y, i + 1)
  <2>1. i \in 0 .. Len(y) + 1 /\ i \in 0 .. Len(y) /\ i # 0
    BY <1>2
  <2>2. Stop(src, y, i) # a /\ Stop(src, y, i) # b /\ Stop(src, y, i) # src
    BY <1>6, <1>7, <1>9, <2>1
  <2> QED BY <1>3, <1>4, <2>1, <2>2
<1>10. /\ ny[a] = Stop(src, y, 1)
       /\ ny[b] = Stop(dest, x, k + 1)
  <2>1. nx[src] = Stop(src, y, 1)
    <3>1. 0 \in 0 .. Len(y) /\ 0 + 1 = 1
      BY <1>2
    <3> QED BY <1>2, <1>4, <3>1
  <2> QED BY <1>4, <2>1
<1> HIDE DEF x, y
<1>11. ASSUME NEW i \in 0 .. Len(z) + 1
       PROVE  Stop(dest, z, i) = IF i <= k THEN Stop(dest, x, i)
                                 ELSE IF i <= k + Len(y) THEN Stop(src, y, i - k) ELSE Stop(dest, x, i - Len(y))
  <2>1. CASE i = 0
    BY <1>2, <2>1 DEF Stop
  <2>2. CASE i = Len(z) + 1
    <3>1. Stop(dest, z, i) = dest
      BY <2>2 DEF Stop
    <3>2. ~ (i <= k) /\ ~ (i <= k + Len(y)) /\ i - Len(y) = Len(x) + 1
      BY <1>2, <1>5, <2>2
    <3> QED BY <1>2, <3>1, <3>2
  <2>3. CASE i \in 1 .. Len(z)
    <3>1. Stop(dest, z, i) = z[i]
      BY <1>2, <1>5, <2>3 DEF Stop
    <3>2. /\ i <= k => i \in 1 .. Len(x)
          /\ ~ (i <= k) /\ i <= k + Len(y) => i - k \in 1 .. Len(y)
          /\ ~ (i <= k) /\ ~ (i <= k + Len(y)) => i - Len(y) \in 1 .. Len(x)
      BY <1>2, <1>5, <2>3
    <3>3. CASE i <= k
      BY <1>2, <1>5, <2>3, <3>1, <3>2, <3>3
    <3>4. CASE ~ (i <= k) /\ i <= k + Len(y)
      BY <1>2, <1>5, <2>3, <3>1, <3>2, <3>4
    <3>5. CASE ~ (i <= k) /\ ~ (i <= k + Len(y))
      BY <1>2, <1>5, <2>3, <3>1, <3>2, <3>5
    <3> QED BY <3>3, <3>4, <3>5
  <2>4. Len(z) \in Nat
    BY <1>2, <1>5
  <2>5. i = 0 \/ i = Len(z) + 1 \/ i \in 1 .. Len(z)
    BY <2>4
  <2> QED BY <2>1, <2>2, <2>3, <2>5
<1> HIDE DEF a, b
<1>12. ASSUME NEW i \in 0 .. Len(z) PROVE ny[Stop(dest, z, i)] = Stop(dest, z, i + 1)
  <2> DEFINE p == Stop(dest, z, i)
             q == Stop(dest, z, i + 1)
  <2>1. i \in 0 .. Len(z) + 1 /\ i + 1 \in 0 .. Len(z) + 1 /\ i <= Len(x) + Len(y)
    BY <1>2, <1>5
  <2>2. CASE i < k
    <3>1. i <= k /\ i + 1 <= k /\ i \in 0 .. Len(x) /\ i # k
      BY <1>2, <2>1, <2>2
    <3>2. p = Stop(dest, x, i) /\ q = Stop(dest, x, i + 1)
      BY <1>11, <2>1, <3>1
    <3> QED BY <1>8, <3>1, <3>2
  <2>3. CASE i = k
    <3>1. i <= k /\ ~ (i + 1 <= k) /\ i + 1 <= k + Len(y) /\ i + 1 - k = 1
      BY <1>2, <2>1, <2>3
    <3>2. p = Stop(dest, x, i) /\ q = Stop(src, y, 1)
      BY <1>11, <2>1, <3>1
    <3> QED BY <1>10, <2>3, <3>2 DEF a
  <2>4. CASE k < i /\ i < k + Len(y)
    <3>1. /\ ~ (i <= k) /\ ~ (i + 1 <= k) /\ i <= k + Len(y) /\ i + 1 <= k + Len(y)
          /\ i - k \in 1 .. Len(y) /\ i - k # Len(y) /\ i + 1 - k = i - k + 1
      BY <1>2, <2>1, <2>4
    <3>2. p = Stop(src, y, i - k) /\ q = Stop(src, y, i - k + 1)
      BY <1>11, <2>1, <3>1
    <3> QED BY <1>9, <3>1, <3>2
  <2>5. CASE i = k + Len(y)
    <3>1. /\ ~ (i <= k) /\ ~ (i + 1 <= k) /\ i <= k + Len(y) /\ ~ (i + 1 <= k + Len(y))
          /\ i - k = Len(y) /\ i + 1 - Len(y) = k + 1
      BY <1>2, <2>1, <2>5
    <3>2. p = Stop(src, y, Len(y)) /\ q = Stop(dest, x, k + 1)
      BY <1>11, <2>1, <3>1
    <3> QED BY <1>10, <3>2 DEF b
  <2>6. CASE i > k + Len(y)
    <3>1. /\ ~ (i <= k) /\ ~ (i + 1 <= k) /\ ~ (i <= k + Len(y)) /\ ~ (i + 1 <= k + Len(y))
          /\ i - Len(y) \in 0 .. Len(x) /\ i - Len(y) # k /\ i + 1 - Len(y) = i - Len(y) + 1
      BY <1>2, <2>1, <2>6
    <3>2. p = Stop(dest, x, i - Len(y)) /\ q = Stop(dest, x, i - Len(y) + 1)
      BY <1>11, <2>1, <3>1
    <3> QED BY <1>8, <3>1, <3>2
  <2>7. i \in Int /\ k \in Int /\ Len(y) \in Int
    BY <1>2, <2>1
  <2>8. i < k \/ i = k \/ (k < i /\ i < k + Len(y)) \/ i = k + Len(y) \/ i > k + Len(y)
    BY <2>7
  <2> QED BY <2>2, <2>3, <2>4, <2>5, <2>6, <2>8
<1>13. Chain(ny, dest, z)
  BY <1>12 DEF Chain
<1>14. e \in Seq(Items) /\ Len(e) = 0 /\ \A i \in 1 .. Len(e) : FALSE
  OBVIOUS
<1> HIDE DEF e
<1>15. Chain(ny, src, e)
  <2>1. \A i \in 0 .. Len(e) : i = 0
    BY <1>14
  <2>2. Stop(src, e, 0) = src /\ Stop(src, e, 0 + 1) = src
    BY <1>14 DEF Stop
  <2> QED BY <2>1, <2>2 DEF Chain
<1>16. ASSUME NEW m \in Heads \ {dest, src} PROVE Chain(ny, m, f[m])
  <2> SUFFICES ASSUME NEW i \in 0 .. Len(f[m])
               PROVE  ny[Stop(m, f[m], i)] = Stop(m, f[m], i + 1)
    BY DEF Chain
  <2>1. Stop(m, f[m], i) # a /\ Stop(m, f[m], i) # b /\ Stop(m, f[m], i) # src
    BY <1>6, <1>7
  <2>2. Len(f[m]) \in Nat
    BY <1>1, StopType
  <2>3. i \in 0 .. Len(f[m]) + 1
    BY <2>2
  <2>4. Stop(m, f[m], i) \in Nodes
    BY <1>1, <2>3, StopType
  <2>5. nx[Stop(m, f[m], i)] = Stop(m, f[m], i + 1)
    BY <1>1 DEF Chain
  <2> QED BY <2>1, <2>4, <2>5 DEF a, b, x, y
<1>17. fe \in [Heads -> Seq(Items)] /\ Apart(fe)
  BY <1>1, <1>14, ApartWith
<1>18. fe[src] = e /\ fe[dest] = x /\ \A m \in Heads \ {src} : fe[m] = f[m]
  BY <1>1 DEF x
<1>19. ASSUME NEW i \in 1 .. Len(z)
       PROVE  \/ i <= k /\ i \in 1 .. Len(x) /\ z[i] = x[i]
              \/ i > k /\ i <= k + Len(y) /\ i - k \in 1 .. Len(y) /\ z[i] = y[i - k]
              \/ i > k + Len(y) /\ i - Len(y) \in 1 .. Len(x) /\ z[i] = x[i - Len(y)]
  <2>1. CASE i <= k
    <3>1. i \in 1 .. Len(x)
      BY <1>2, <2>1
    <3> QED BY <1>5, <2>1, <3>1
  <2>2. CASE i > k /\ i <= k + Len(y)
    <3>1. i - k \in 1 .. Len(y) /\ ~ (i <= k)
      BY <1>2, <2>2
    <3> QED BY <1>5, <2>2, <3>1
  <2>3. CASE i > k /\ i > k + Len(y)
    <3>1. i - Len(y) \in 1 .. Len(x) /\ ~ (i <= k) /\ ~ (i <= k + Len(y))
      BY <1>2, <1>5, <2>3
    <3> QED BY <1>5, <2>3, <3>1
  <2> QED BY <1>2, <2>1, <2>2, <2>3
<1>20. /\ \A u, v \in 1 .. Len(x) : x[u] = x[v] => u = v
       /\ \A u, v \in 1 .. Len(y) : y[u] = y[v] => u = v
       /\ \A u \in 1 .. Len(x), v \in 1 .. Len(y) : x[u] # y[v]
  BY <1>1 DEF Apart, x, y
<1>21. \A m \in Heads \ {dest} : \A v \in 1 .. Len(fe[m]) :
         /\ \A u \in 1 .. Len(x) : x[u] # fe[m][v]
         /\ \A u \in 1 .. Len(y) : y[u] # fe[m][v]
  <2> SUFFICES ASSUME NEW m \in Heads \ {dest}, NEW v \in 1 .. Len(fe[m])
               PROVE  /\ \A u \in 1 .. Len(x) : x[u] # fe[m][v]
                      /\ \A u \in 1 .. Len(y) : y[u] # fe[m][v]
    OBVIOUS
  <2>1. m # src /\ fe[m] = f[m]
    BY <1>14, <1>18
  <2> HIDE DEF fe
  <2>2. v \in 1 .. Len(f[m])
    BY <2>1
  <2>3. /\ \A u \in 1 .. Len(x) : x[u] # f[m][v]
        /\ \A u \in 1 .. Len(y) : y[u] # f[m][v]
    BY <1>1, <2>1, <2>2 DEF Apart, x, y
  <2> QED BY <2>1, <2>3
<1> HIDE DEF fe
<1>22. ASSUME NEW u \in 1 .. Len(z), NEW v \in 1 .. Len(z), z[u] = z[v] PROVE u = v
  <2>1. u \in Int /\ v \in Int /\ k \in Int /\ Len(y) \in Nat
    BY <1>2
  <2> DEFINE A1(i) == i <= k /\ i \in 1 .. Len(x) /\ z[i] = x[i]
             A2(i) == i > k /\ i <= k + Len(y) /\ i - k \in 1 .. Len(y) /\ z[i] = y[i - k]
             A3(i) == i > k + Len(y) /\ i - Len(y) \in 1 .. Len(x) /\ z[i] = x[i - Len(y)]
  <2>2. (A1(u) \/ A2(u) \/ A3(u)) /\ (A1(v) \/ A2(v) \/ A3(v))
    BY <1>19
  <2>3. CASE A1(u) /\ A1(v)
    BY <1>20, <1>22, <2>3
  <2>4. CASE A1(u) /\ A3(v)
    <3>1. u = v - Len(y)
      BY <1>20, <1>22, <2>4
    <3> QED BY <2>1, <2>4, <3>1
  <2>5. CASE A3(u) /\ A1(v)
    <3>1. v = u - Len(y)
      BY <1>20, <1>22, <2>5
    <3> QED BY <2>1, <2>5, <3>1
  <2>6. CASE A3(u) /\ A3(v)
    <3>1. v - Len(y) = u - Len(y)
      BY <1>20, <1>22, <2>6
    <3> QED BY <2>1, <3>1
  <2>7. CASE A2(u) /\ A2(v)
    <3>1. v - k = u - k
      BY <1>20, <1>22, <2>7
    <3> QED BY <2>1, <3>1
  <2>8. CASE A2(u) /\ ~ A2(v)
    <3>1. \E w \in 1 .. Len(x) : z[v] = x[w]
      BY <2>2, <2>8
    <3> QED BY <1>20, <1>22, <2>8, <3>1
  <2>9. CASE ~ A2(u) /\ A2(v)
    <3>1. \E w \in 1 .. Len(x) : z[u] = x[w]
      BY <2>2, <2>9
    <3> QED BY <1>20, <1>22, <2>9, <3>1
  <2> HIDE DEF A1, A2, A3
  <2> QED BY <2>2, <2>3, <2>4, <2>5, <2>6, <2>7, <2>8, <2>9
<1>23. ASSUME NEW u \in 1 .. Len(z), NEW m \in Heads \ {dest}, NEW v \in 1 .. Len(fe[m])
       PROVE  z[u] # fe[m][v]
  <2>1. (\E w \in 1 .. Len(x) : z[u] = x[w]) \/ (\E w \in 1 .. Len(y) : z[u] = y[w])
    BY <1>19
  <2> QED BY <1>21, <2>1
<1>24. g \in [Heads -> Seq(Items)] /\ Apart(g)
  BY <1>5, <1>17, <1>22, <1>23, ApartWith
<1>25. g[dest] = z /\ g[src] = e /\ \A m \in Heads \ {dest, src} : g[m] = f[m]
  BY <1>17, <1>18
<1>26. \A m \in Heads : Chain(ny, m, g[m])
  BY <1>13, <1>15, <1>16, <1>25
<1> HIDE DEF g
<1>27. Strung(ny, g)
  BY <1>24, <1>26 DEF Strung
<1>28. g = [f EXCEPT ![dest] = z, ![src] = << >>]
  BY <1>1 DEF g, fe, e
<1> QED BY <1>27, <1>28

(* The head of a list that was spliced into another one is removed.        *)
LEMMA GraftLinks ==
    ASSUME NEW h, NEW f, Links(h, f), NEW dest \in Heads, NEW src \in Heads, dest # src,
           NEW k \in 0 .. Len(f[dest]), NEW z, Grafted(f[dest], f[src], k, z)
    PROVE  Links(rlist_remove(rl_splice(h, Stop(dest, f[dest], k), src), src),
                 [f EXCEPT ![dest] = z, ![src] = << >>])
<1> DEFINE nx == h.next
           x == f[dest]
           y == f[src]
           a == Stop(dest, x, k)
           b == Stop(src, y, Len(y))
           h1 == rl_splice(h, a, src)
           n1 == Swap(nx, a, src)
           p == h1.prev[src]
           h2 == rl_splice(h1, src, p)
           n2 == Swap(n1, src, p)
           g == [f EXCEPT ![dest] = z, ![src] = << >>]
<1>1. /\ nx \in [Nodes -> Nodes] /\ f \in [Heads -> Seq(Items)] /\ Apart(f)
      /\ h \in Heaps /\ Paired(h) /\ Strung(nx, f)
  BY DEF Links, Strung
<1>2. /\ Len(x) \in Nat /\ Len(y) \in Nat /\ k \in 0 .. Len(x)
      /\ Stop(dest, x, Len(x) + 1) = dest
      /\ Stop(src, y, 0) = src /\ Stop(src, y, Len(y) + 1) = src
  BY <1>1, StopType
<1>3. /\ k \in 0 .. Len(x) + 1 /\ Len(y) \in 0 .. Len(y) + 1 /\ Len(y) \in 0 .. Len(y)
      /\ 0 \in 0 .. Len(y)
  BY <1>2
<1>4. a \in Nodes /\ b \in Nodes /\ src \in Nodes
  BY <1>1, <1>3, StopType DEF Nodes
<1>5. a # src /\ a # b
  <2>1. a = Stop(src, y, 0) => dest = src
    BY <1>1, <1>3, StopsDiffer
  <2>2. a = b => dest = src
    BY <1>1, <1>3, StopsDiffer
  <2> QED BY <1>2, <2>1, <2>2
<1>6. nx[b] = src
  BY <1>2, <1>3, PrevIs
<1>7. h1 \in Heaps /\ Paired(h1) /\ h1.next = n1
  BY <1>1, <1>4, Spliced
<1> HIDE DEF nx, a, b
<1>8. /\ n1 \in [Nodes -> Nodes] /\ n1[a] = nx[src] /\ n1[src] = nx[a]
      /\ \A n \in Nodes \ {a, src} : n1[n] = nx[n]
  BY <1>1, <1>4, SwapIs
<1>9. p \in Nodes /\ n1[p] = src /\ \A u, v \in Nodes : n1[u] = n1[v] => u = v
  <2>1. h1.prev \in [Nodes -> Nodes]
    BY <1>7 DEF Heaps
  <2>2. \A u \in Nodes : h1.prev[n1[u]] = u /\ n1[h1.prev[u]] = u
    BY <1>7 DEF Paired
  <2>3. p \in Nodes /\ n1[p] = src
    BY <1>4, <2>1, <2>2
  <2>4. \A u, v \in Nodes : n1[u] = n1[v] => u = v
    BY <2>2, Zenon
  <2> QED BY <2>3, <2>4
<1> HIDE DEF h1, n1, p
<1>10. h2 \in Heaps /\ Paired(h2) /\ h2.next = n2
  <2>1. rl_splice(h1, src, p).next = Swap(h1.next, src, p) /\ rl_splice(h1, src, p) \in Heaps /\ Paired(rl_splice(h1, src, p))
    BY <1>4, <1>7, <1>9, Spliced
  <2> QED BY <1>7, <2>1
<1>11. /\ n2 \in [Nodes -> Nodes] /\ n2[src] = n1[p] /\ n2[p] = n1[src]
       /\ \A n \in Nodes \ {p, src} : n2[n] = n1[n]
  BY <1>4, <1>8, <1>9, SwapIs
<1> HIDE DEF n2, h2
<1>12. CASE Len(y) = 0
  <2>1. b = src
    BY <1>2, <1>12 DEF b
  <2>2. p = a
    BY <1>4, <1>6, <1>8, <1>9, <2>1
  <2>3. \A n \in Nodes : n2[n] = nx[n]
    BY <1>4, <1>5, <1>6, <1>8, <1>9, <1>11, <2>1, <2>2
  <2>4. n2 = nx
    BY <1>1, <1>11, <2>3
  <2>5. y = << >> /\ z = x
    <3>1. x \in Seq(Items) /\ y \in Seq(Items)
      BY <1>1
    <3>2. y = << >>
      BY <1>12, <3>1
    <3>3. /\ z \in Seq(Items) /\ Len(z) = Len(x) + Len(y)
          /\ \A i \in 1 .. Len(z) : z[i] = IF i <= k THEN x[i] ELSE IF i <= k + Len(y) THEN y[i - k] ELSE x[i - Len(y)]
      BY DEF Grafted
    <3>4. Len(z) = Len(x) /\ \A i \in 1 .. Len(z) : z[i] = x[i]
      <4> HIDE DEF x, y
      <4> QED BY <1>2, <1>12, <3>3
    <3> HIDE DEF x, y
    <3> QED BY <3>1, <3>2, <3>3, <3>4
  <2>6. g = f
    <3>1. g \in [Heads -> Seq(Items)] /\ \A m \in Heads : g[m] = f[m]
      BY <1>1, <2>5
    <3> QED BY <1>1, <3>1
  <2>7. Links(h2, g)
    BY <1>1, <1>10, <2>4, <2>6 DEF Links, nx
  <2> QED BY <2>7 DEF h2, p, h1, rlist_remove, a
<1>13. CASE Len(y) # 0
  <2>1. b # src
    <3>1. b = Stop(src, y, 0) => Len(y) = 0
      BY <1>1, <1>3, StopsDiffer DEF b
    <3> QED BY <1>2, <1>13, <3>1
  <2>2. n1[b] = src
    BY <1>4, <1>5, <1>6, <1>8, <2>1
  <2>3. p = b
    BY <1>4, <1>9, <2>2
  <2>4. /\ n2[src] = src /\ n2[a] = nx[src] /\ n2[b] = nx[a]
        /\ \A n \in Nodes \ {src, a, b} : n2[n] = nx[n]
    BY <1>4, <1>5, <1>8, <1>9, <1>11, <2>3
  <2>5. Strung(n2, g)
    BY <1>1, <1>2, <1>11, <1>13, <2>4, GraftKeeps DEF a, b, x, y
  <2>6. Links(h2, g)
    BY <1>10, <2>5 DEF Links
  <2> QED BY <2>6 DEF h2, p, h1, rlist_remove, a
<1> QED BY <1>12, <1>13

LEMMA AppendLinks ==
    ASSUME NEW h, NEW f, Links(h, f), NEW dest \in Heads, NEW src \in Heads, dest # src
    PROVE  Links(rlist_append(h, dest, src), [f EXCEPT ![dest] = f[dest] \o f[src], ![src] = << >>])
<1> DEFINE x == f[dest]
           y == f[src]
           z == x \o y
           k == Len(x)
<1>1. f \in [Heads -> Seq(Items)]
  BY DEF Links, Strung
<1>2. x \in Seq(Items) /\ y \in Seq(Items) /\ k \in Nat /\ Len(y) \in Nat /\ Stop(dest, x, k + 1) = dest
  BY <1>1, StopType
<1>3. z \in Seq(Items) /\ Len(z) = k + Len(y) /\ \A i \in 1 .. Len(z) : z[i] = IF i <= k THEN x[i] ELSE y[i - k]
  <2> HIDE DEF x, y
  <2> QED BY <1>2
<1>4. k \in 0 .. Len(x)
  BY <1>2
<1>5. h.prev[dest] = Stop(dest, x, k)
  BY <1>2, <1>4, PrevIs
<1> HIDE DEF z, k
<1>6. Grafted(x, y, k, z)
  <2> HIDE DEF x, y
  <2>1. \A i \in 1 .. Len(z) : i <= k + Len(y)
    BY <1>2, <1>3
  <2> QED BY <1>3, <2>1 DEF Grafted, k
<1>7. Links(rlist_remove(rl_splice(h, Stop(dest, x, k), src), src), [f EXCEPT ![dest] = z, ![src] = << >>])
  BY <1>4, <1>6, GraftLinks
<1> QED BY <1>5, <1>7 DEF rlist_append, rlist_push_back, z

LEMMA PrependLinks ==
    ASSUME NEW h, NEW f, Links(h, f), NEW dest \in Heads, NEW src \in Heads, dest # src
    PROVE  Links(rlist_prepend(h, dest, src), [f EXCEPT ![dest] = f[src] \o f[dest], ![src] = << >>])
<1> DEFINE x == f[dest]
           y == f[src]
           z == y \o x
<1>1. f \in [Heads -> Seq(Items)]
  BY DEF Links, Strung
<1>2. x \in Seq(Items) /\ y \in Seq(Items) /\ Len(x) \in Nat /\ Len(y) \in Nat /\ Stop(dest, x, 0) = dest
  BY <1>1, StopType
<1>3. z \in Seq(Items) /\ Len(z) = Len(y) + Len(x)
      /\ \A i \in 1 .. Len(z) : z[i] = IF i <= Len(y) THEN y[i] ELSE x[i - Len(y)]
  <2> HIDE DEF x, y
  <2> QED BY <1>2
<1>4. 0 \in 0 .. Len(x)
  BY <1>2
<1> HIDE DEF z
<1>5. Grafted(x, y, 0, z)
  <2> HIDE DEF x, y
  <2>1. \A i \in 1 .. Len(z) : ~ (i <= 0) /\ (i <= 0 + Len(y) <=> i <= Len(y)) /\ i - 0 = i
    BY <1>2, <1>3
  <2>2. Len(z) = Len(x) + Len(y)
    BY <1>2, <1>3
  <2> QED BY <1>3, <2>1, <2>2 DEF Grafted
<1>6. Links(rlist_remove(rl_splice(h, Stop(dest, x, 0), src), src), [f EXCEPT ![dest] = z, ![src] = << >>])
  BY <1>4, <1>5, GraftLinks
<1> QED BY <1>2, <1>6 DEF rlist_prepend, rlist_push_front, z

LEMMA ReverseLinks ==
    ASSUME NEW h, NEW f, Links(h, f), NEW l \in Heads
    PROVE  Links(rlist_reverse(h, l), [f EXCEPT ![l] = Reverse(f[l])])
<1> DEFINE nx == h.next
           pv == h.prev
           s == f[l]
           n == Len(s)
           r == Reverse(s)
           R == Ring(h, l)
           ny == [x \in Nodes |-> IF x \in R THEN pv[x] ELSE nx[x]]
           py == [x \in Nodes |-> IF x \in R THEN nx[x] ELSE pv[x]]
           h1 == rlist_reverse(h, l)
           g == [f EXCEPT ![l] = r]
<1>1. /\ nx \in [Nodes -> Nodes] /\ pv \in [Nodes -> Nodes] /\ h.key \in [Nodes -> Keys]
      /\ f \in [Heads -> Seq(Items)] /\ Apart(f) /\ h \in Heaps
      /\ \A m \in Heads : Chain(nx, m, f[m])
      /\ \A x \in Nodes : pv[nx[x]] = x /\ nx[pv[x]] = x
  BY DEF Links, Strung, Heaps, Paired
<1>2. /\ n \in Nat /\ s \in Seq(Items)
      /\ \A i \in 1 .. n : Stop(l, s, i) = s[i] /\ s[i] \in Items
      /\ Stop(l, s, 0) = l /\ Stop(l, s, n + 1) = l
      /\ \A i \in 0 .. n + 1 : Stop(l, s, i) \in Nodes
  BY <1>1, StopType
<1>3. R = {Stop(l, s, i) : i \in 0 .. n}
  BY ListOfIs
<1>4. h1 = [h EXCEPT !.next = ny, !.prev = py]
  BY DEF rlist_reverse
<1>5. h1 = [next |-> ny, prev |-> py, key |-> h.key]
  BY <1>1, <1>4 DEF Heaps
<1> HIDE DEF R, nx, pv, h1
<1>6. ny \in [Nodes -> Nodes] /\ py \in [Nodes -> Nodes]
  BY <1>1
<1>7. \A i \in 0 .. n : nx[Stop(l, s, i)] = Stop(l, s, i + 1) /\ pv[Stop(l, s, i + 1)] = Stop(l, s, i)
  BY PrevIs DEF nx, pv
<1>8. \A x \in R : x \in Nodes /\ nx[x] \in R /\ pv[x] \in R
  <2> SUFFICES ASSUME NEW i \in 0 .. n
               PROVE  /\ Stop(l, s, i) \in Nodes
                      /\ nx[Stop(l, s, i)] \in R
                      /\ pv[Stop(l, s, i)] \in R
    BY <1>3
  <2>1. Stop(l, s, i) \in Nodes
    <3>1. i \in 0 .. n + 1
      BY <1>2
    <3> QED BY <1>2, <3>1
  <2>2. nx[Stop(l, s, i)] \in R
    <3>1. CASE i = n
      <4>1. Stop(l, s, i + 1) = Stop(l, s, 0) /\ 0 \in 0 .. n
        BY <1>2, <3>1
      <4> QED BY <1>3, <1>7, <4>1
    <3>2. CASE i # n
      <4>1. i + 1 \in 0 .. n
        BY <1>2, <3>2
      <4> QED BY <1>3, <1>7, <4>1
    <3> QED BY <3>1, <3>2
  <2>3. pv[Stop(l, s, i)] \in R
    <3>1. CASE i = 0
      <4>1. Stop(l, s, i) = Stop(l, s, n + 1) /\ n \in 0 .. n
        BY <1>2, <3>1
      <4> QED BY <1>3, <1>7, <4>1
    <3>2. CASE i # 0
      <4>1. i - 1 \in 0 .. n /\ i - 1 + 1 = i
        BY <1>2, <3>2
      <4>2. pv[Stop(l, s, i)] = Stop(l, s, i - 1)
        BY <1>7, <4>1
      <4> QED BY <1>3, <4>1, <4>2
    <3> QED BY <3>1, <3>2
  <2> QED BY <2>1, <2>2, <2>3
<1>9. \A x \in Nodes \ R : nx[x] \in Nodes \ R /\ pv[x] \in Nodes \ R
  BY <1>1, <1>8
<1>10. \A x \in Nodes : /\ ny[x] = IF x \in R THEN pv[x] ELSE nx[x]
                        /\ py[x] = IF x \in R THEN nx[x] ELSE pv[x]
  OBVIOUS
<1> HIDE DEF ny, py
<1>11. \A x \in Nodes : py[ny[x]] = x /\ ny[py[x]] = x
  <2> TAKE x \in Nodes
  <2>1. CASE x \in R
    BY <1>1, <1>8, <1>10, <2>1
  <2>2. CASE x \notin R
    BY <1>1, <1>9, <1>10, <2>2
  <2> QED BY <2>1, <2>2
<1>12. h1 \in Heaps /\ h1.next = ny /\ h1.prev = py
  BY <1>1, <1>5, <1>6 DEF Heaps
<1>13. Paired(h1)
  BY <1>11, <1>12 DEF Paired
<1>14. r = [i \in 1 .. n |-> s[(n - i) + 1]]
  BY DEF Reverse
<1> HIDE DEF r, s, n
<1>15. \A i \in 1 .. n : (n - i) + 1 \in 1 .. n /\ r[i] = s[(n - i) + 1] /\ s[(n - i) + 1] \in Items
  <2>1. \A i \in 1 .. n : (n - i) + 1 \in 1 .. n
    BY <1>2
  <2> QED BY <1>2, <1>14, <2>1
<1>16. r \in Seq(Items) /\ Len(r) = n
  BY <1>2, <1>14, <1>15
<1>17. ASSUME NEW i \in 0 .. n + 1 PROVE Stop(l, r, i) = Stop(l, s, n + 1 - i)
  <2>1. CASE i = 0
    <3>1. n + 1 - i = n + 1
      BY <1>2, <2>1
    <3> QED BY <1>2, <2>1, <3>1 DEF Stop
  <2>2. CASE i = n + 1
    <3>1. n + 1 - i = 0
      BY <1>2, <2>2
    <3> QED BY <1>2, <1>16, <2>2, <3>1 DEF Stop
  <2>3. CASE i \in 1 .. n
    <3>1. Stop(l, r, i) = r[i]
      BY <1>2, <1>16, <2>3 DEF Stop
    <3>2. n + 1 - i = (n - i) + 1
      BY <1>2, <2>3
    <3> QED BY <1>2, <1>15, <2>3, <3>1, <3>2
  <2> QED BY <1>2, <2>1, <2>2, <2>3
<1>18. Chain(ny, l, r)
  <2> SUFFICES ASSUME NEW i \in 0 .. n PROVE ny[Stop(l, r, i)] = Stop(l, r, i + 1)
    BY <1>16 DEF Chain
  <2>1. i \in 0 .. n + 1 /\ i + 1 \in 0 .. n + 1 /\ n - i \in 0 .. n /\ n + 1 - i = n - i + 1 /\ n + 1 - (i + 1) = n - i
    BY <1>2
  <2>2. Stop(l, r, i) = Stop(l, s, n - i + 1) /\ Stop(l, r, i + 1) = Stop(l, s, n - i)
    BY <1>17, <2>1
  <2>3. pv[Stop(l, s, n - i + 1)] = Stop(l, s, n - i) /\ nx[Stop(l, s, n - i)] = Stop(l, s, n - i + 1)
    BY <1>7, <2>1
  <2>4. Stop(l, s, n - i) \in R
    BY <1>3, <2>1
  <2>5. Stop(l, s, n - i + 1) \in R /\ Stop(l, s, n - i + 1) \in Nodes
    BY <1>8, <2>3, <2>4
  <2> QED BY <1>10, <2>2, <2>3, <2>5
<1>19. ASSUME NEW m \in Heads \ {l} PROVE Chain(ny, m, f[m])
  <2> SUFFICES ASSUME NEW i \in 0 .. Len(f[m])
               PROVE  ny[Stop(m, f[m], i)] = Stop(m, f[m], i + 1)
    BY DEF Chain
  <2>1. Stop(m, f[m], i) \notin R
    <3>1. \A k \in 0 .. Len(f[l]) : Stop(m, f[m], i) # Stop(l, f[l], k)
      BY <1>1, StopsDiffer
    <3> QED BY <1>3, <3>1 DEF s, n
  <2>2. Len(f[m]) \in Nat
    BY <1>1, StopType
  <2>3. i \in 0 .. Len(f[m]) + 1
    BY <2>2
  <2>4. Stop(m, f[m], i) \in Nodes
    BY <1>1, <2>3, StopType
  <2>5. nx[Stop(m, f[m], i)] = Stop(m, f[m], i + 1)
    BY <1>1 DEF Chain
  <2> QED BY <1>10, <2>1, <2>4, <2>5
<1>20. ASSUME NEW i \in 1 .. Len(r), NEW k \in 1 .. Len(r), r[i] = r[k] PROVE i = k
  <2>1. \A u, v \in 1 .. n : s[u] = s[v] => u = v
    BY <1>1 DEF Apart, s, n
  <2>4. i \in 1 .. n /\ k \in 1 .. n
    BY <1>16
  <2>5. s[(n - i) + 1] = s[(n - k) + 1] /\ (n - i) + 1 \in 1 .. n /\ (n - k) + 1 \in 1 .. n
    BY <1>15, <1>20, <2>4
  <2>2. (n - i) + 1 = (n - k) + 1
    BY <2>1, <2>5
  <2>3. i \in Int /\ k \in Int /\ n \in Int
    BY <1>2, <1>16
  <2> QED BY <2>2, <2>3
<1>21. ASSUME NEW i \in 1 .. Len(r), NEW m \in Heads \ {l}, NEW k \in 1 .. Len(f[m]) PROVE r[i] # f[m][k]
  <2>1. \A u \in 1 .. n : s[u] # f[m][k]
    BY <1>1 DEF Apart, s, n
  <2> QED BY <1>15, <1>16, <2>1
<1>22. g \in [Heads -> Seq(Items)] /\ Apart(g)
  BY <1>1, <1>16, <1>20, <1>21, ApartWith
<1>23. \A m \in Heads : Chain(ny, m, g[m])
  BY <1>1, <1>18, <1>19
<1>24. Strung(ny, g)
  BY <1>6, <1>22, <1>23 DEF Strung
<1>25. Links(h1, g)
  BY <1>12, <1>13, <1>24 DEF Links
<1> QED BY <1>25 DEF h1, r, s

LEMMA InitLinks ==
    ASSUME NEW h, NEW f, Links(h, f), NEW n \in Items, is_rlist_empty(h, n), NEW k \in Keys
    PROVE  Links(rlnode_init(h, n, k), f)
<1>1. h \in Heaps /\ Paired(h) /\ n \in Nodes /\ h.next[n] = n
  BY DEF Links, is_rlist_empty, Nodes
<1>2. h.prev[n] = n
  BY <1>1 DEF Paired
<1>3. /\ h.next \in [Nodes -> Nodes] /\ h.prev \in [Nodes -> Nodes] /\ h.key \in [Nodes -> Keys]
      /\ h = [next |-> h.next, prev |-> h.prev, key |-> h.key]
  BY <1>1 DEF Heaps
<1>4. [h.next EXCEPT ![n] = n] = h.next /\ [h.prev EXCEPT ![n] = n] = h.prev
  BY <1>1, <1>2, <1>3
<1>5. rlnode_init(h, n, k) = [next |-> [h.next EXCEPT ![n] = n], prev |-> [h.prev EXCEPT ![n] = n],
                              key |-> [h.key EXCEPT ![n] = k]]
  <2> DEFINE nx == [h.next EXCEPT ![n] = n]
             pv == [h.prev EXCEPT ![n] = n]
  <2>1. rlnode_new(h, n) = [h EXCEPT !.next = nx, !.prev = pv]
    BY <1>1, <1>3 DEF rlnode_new, Heaps
  <2>2. rlnode_new(h, n) = [next |-> nx, prev |-> pv, key |-> h.key]
    BY <1>1, <2>1 DEF Heaps
  <2>3. rlnode_init(h, n, k) = [rlnode_new(h, n) EXCEPT !.key[n] = k]
    BY DEF rlnode_init
  <2> HIDE DEF nx, pv
  <2>4. rlnode_init(h, n, k) = [next |-> nx, prev |-> pv, key |-> [h.key EXCEPT ![n] = k]]
    BY <2>2, <2>3
  <2> QED BY <2>4 DEF nx, pv
<1>6. rlnode_init(h, n, k) = [next |-> h.next, prev |-> h.prev, key |-> [h.key EXCEPT ![n] = k]]
  BY <1>4, <1>5
<1> DEFINE g == rlnode_init(h, n, k)
<1> HIDE DEF g
<1>7. g \in Heaps /\ g.next = h.next /\ g.prev = h.prev
  <2>1. [h.key EXCEPT ![n] = k] \in [Nodes -> Keys]
    BY <1>1, <1>3
  <2>2. g = [next |-> h.next, prev |-> h.prev, key |-> [h.key EXCEPT ![n] = k]]
    BY <1>6 DEF g
  <2> QED BY <1>3, <2>1, <2>2 DEF Heaps
<1> QED BY <1>7 DEF Links, Paired, g

LEMMA SpliceType ==
    ASSUME NEW h \in Heaps, NEW a \in Nodes, NEW b \in Nodes
    PROVE  rl_splice(h, a, b) \in Heaps
<1> DEFINE nx == h.next
           pv == h.prev
           gp == [pv EXCEPT ![nx[a]] = pv[nx[b]], ![nx[b]] = pv[nx[a]]]
           gn == Swap(nx, a, b)
<1>1. nx \in [Nodes -> Nodes] /\ pv \in [Nodes -> Nodes] /\ h.key \in [Nodes -> Keys]
  BY DEF Heaps
<1>2. rl_splice(h, a, b) = [h EXCEPT !.prev = gp, !.next = gn]
  BY <1>1 DEF rl_splice, Swap, Heaps
<1>3. rl_splice(h, a, b) = [next |-> gn, prev |-> gp, key |-> h.key]
  BY <1>2 DEF Heaps
<1>4. gn \in [Nodes -> Nodes] /\ gp \in [Nodes -> Nodes]
  BY <1>1 DEF Swap
<1> QED BY <1>1, <1>3, <1>4 DEF Heaps

Looks == [h : Heaps, I : Nodes]

LEMMA RoundType ==
    ASSUME NEW p \in Looks, NEW src \in Heads, NEW dest \in Heads, NEW C
    PROVE  select_round(p, src, dest, C) \in Looks
<1> DEFINE n == p.h.next[p.I]
           a == p.h.prev[n]
           h1 == rl_splice(p.h, n, a)
           b == h1.prev[dest]
           h2 == rl_splice(h1, b, n)
<1>1. p.h \in Heaps /\ p.I \in Nodes /\ dest \in Nodes
  BY DEF Looks, Nodes
<1>2. p.h.next \in [Nodes -> Nodes] /\ p.h.prev \in [Nodes -> Nodes]
  BY <1>1 DEF Heaps
<1>3. n \in Nodes
  BY <1>1, <1>2
<1> HIDE DEF n
<1>4. a \in Nodes
  BY <1>2, <1>3
<1> HIDE DEF a
<1>5. h1 \in Heaps
  BY <1>1, <1>3, <1>4, SpliceType
<1> HIDE DEF h1
<1>6. h1.prev \in [Nodes -> Nodes]
  BY <1>5 DEF Heaps
<1>7. b \in Nodes
  BY <1>1, <1>6
<1> HIDE DEF b
<1>8. h2 \in Heaps
  BY <1>3, <1>5, <1>7, SpliceType
<1> HIDE DEF h2
<1>9. select_round(p, src, dest, C) = IF n = src THEN p ELSE IF n \in C THEN [h |-> h2, I |-> p.I]
                                      ELSE [h |-> p.h, I |-> n]
  BY DEF select_round, rlist_push_back, rlist_remove, n, a, h1, b, h2
<1> QED BY <1>1, <1>3, <1>8, <1>9 DEF Looks

(* The rounds of rlist_select, and those that choose items of a sequence.  *)
Selects(h, src, dest, C) ==
    LET loop[i \in 0 .. Cardinality(Items)] ==
          IF i = 0 THEN [h |-> h, I |-> src] ELSE select_round(loop[i - 1], src, dest, C)
    IN  loop

Picks(s, C) ==
    LET those[i \in 0 .. Len(s)] ==
          IF i = 0 THEN << >> ELSE those[i - 1] \o IF s[i] \in C THEN <<s[i]>> ELSE << >>
    IN  those

(* l holds the rounds of a loop of at most n, and p the picks.             *)
Selecting(l, n, h, src, dest, C) ==
    /\ l[0] = [h |-> h, I |-> src]
    /\ \A i \in 1 .. n : l[i] = select_round(l[i - 1], src, dest, C)

Picking(p, s, C) ==
    /\ p \in [0 .. Len(s) -> Seq(Items)] /\ p[0] = << >>
    /\ \A i \in 1 .. Len(s) : p[i] = p[i - 1] \o IF s[i] \in C THEN <<s[i]>> ELSE << >>

LEMMA SelectsDef ==
    ASSUME NEW h \in Heaps, NEW src \in Heads, NEW dest \in Heads, NEW C
    PROVE  /\ Cardinality(Items) \in Nat
           /\ rlist_select(h, src, dest, C) = Selects(h, src, dest, C)[Cardinality(Items)].h
           /\ Selecting(Selects(h, src, dest, C), Cardinality(Items), h, src, dest, C)
<1> DEFINE n == Cardinality(Items)
           c == [h |-> h, I |-> src]
           step == [i \in 1 .. n |-> [p \in Looks |-> select_round(p, src, dest, C)]]
           l == Selects(h, src, dest, C)
<1>1. n \in Nat /\ c \in Looks
  BY NodesAssumption, FS_CardinalityType DEF Looks, Nodes
<1>2. \A p \in Looks : select_round(p, src, dest, C) \in Looks
  BY RoundType
<1>3. step \in [1 .. n -> [Looks -> Looks]]
  BY <1>2
<1>4. \A i \in 1 .. n, p \in Looks : step[i][p] = select_round(p, src, dest, C)
  OBVIOUS
<1> HIDE DEF step, n, c
<1>5. PICK f \in [0 .. n -> Looks] : Rounds(f, c, n, step)
  <2> DEFINE S == Looks
  <2>1. c \in S /\ n \in Nat /\ step \in [1 .. n -> [S -> S]]
    BY <1>1, <1>3
  <2> HIDE DEF S
  <2>2. \E f \in [0 .. n -> S] : Rounds(f, c, n, step)
    BY <2>1, LoopExists
  <2> QED BY <2>2 DEF S
<1>6. ASSUME NEW i \in 0 .. n
      PROVE  f[i] = IF i = 0 THEN c ELSE select_round(f[i - 1], src, dest, C)
  <2>1. CASE i = 0
    BY <1>5, <2>1 DEF Rounds
  <2>2. CASE i # 0
    <3>1. i \in 1 .. n /\ i - 1 \in 0 .. n
      BY <1>1, <2>2
    <3>2. f[i] = step[i][f[i - 1]] /\ f[i - 1] \in Looks
      BY <1>5, <3>1 DEF Rounds
    <3> QED BY <1>4, <2>2, <3>1, <3>2
  <2> QED BY <2>1, <2>2
<1>7. f = [i \in 0 .. n |-> IF i = 0 THEN c ELSE select_round(f[i - 1], src, dest, C)]
  BY <1>6
<1>8. l = [i \in 0 .. n |-> IF i = 0 THEN c ELSE select_round(l[i - 1], src, dest, C)]
  BY <1>7 DEF Selects, n, c
<1>9. rlist_select(h, src, dest, C) = l[n].h
  BY DEF rlist_select, Selects, n
<1> HIDE DEF l
<1>10. l[0] = c /\ \A i \in 1 .. n : l[i] = select_round(l[i - 1], src, dest, C)
  <2>1. 0 \in 0 .. n /\ \A i \in 1 .. n : i \in 0 .. n /\ i # 0
    BY <1>1
  <2> QED BY <1>8, <2>1
<1> QED BY <1>1, <1>9, <1>10 DEF l, n, c, Selecting

LEMMA PicksDef ==
    ASSUME NEW s \in Seq(Items), NEW C
    PROVE  Promised!Those(s, C) = Picks(s, C)[Len(s)] /\ Picking(Picks(s, C), s, C)
<1> DEFINE n == Len(s)
           w == [i \in 1 .. n |-> IF s[i] \in C THEN <<s[i]>> ELSE << >>]
           step == [i \in 1 .. n |-> [p \in Seq(Items) |-> p \o w[i]]]
           l == Picks(s, C)
           c == << >>
<1>1. n \in Nat /\ c \in Seq(Items) /\ \A i \in 1 .. n : s[i] \in Items
  OBVIOUS
<1>2. \A i \in 1 .. n : w[i] \in Seq(Items) /\ w[i] = IF s[i] \in C THEN <<s[i]>> ELSE << >>
  BY <1>1
<1> HIDE DEF w
<1>3. step \in [1 .. n -> [Seq(Items) -> Seq(Items)]]
  <2>1. ASSUME NEW i \in 1 .. n, NEW p \in Seq(Items) PROVE p \o w[i] \in Seq(Items)
    <3> DEFINE v == w[i]
    <3>1. v \in Seq(Items)
      BY <1>2
    <3> HIDE DEF v
    <3>2. p \o v \in Seq(Items)
      BY <3>1
    <3> QED BY <3>2 DEF v
  <2> QED BY <2>1
<1>4. \A i \in 1 .. n, p \in Seq(Items) : step[i][p] = p \o w[i]
  OBVIOUS
<1> HIDE DEF step, n, c
<1>5. PICK f \in [0 .. n -> Seq(Items)] : Rounds(f, c, n, step)
  <2> DEFINE S == Seq(Items)
  <2>1. c \in S /\ n \in Nat /\ step \in [1 .. n -> [S -> S]]
    BY <1>1, <1>3
  <2> HIDE DEF S
  <2>2. \E f \in [0 .. n -> S] : Rounds(f, c, n, step)
    BY <2>1, LoopExists
  <2> QED BY <2>2 DEF S
<1>6. ASSUME NEW i \in 0 .. n
      PROVE  f[i] = IF i = 0 THEN << >> ELSE f[i - 1] \o IF s[i] \in C THEN <<s[i]>> ELSE << >>
  <2>1. CASE i = 0
    BY <1>5, <2>1 DEF Rounds, c
  <2>2. CASE i # 0
    <3>1. i \in 1 .. n /\ i - 1 \in 0 .. n
      BY <1>1, <2>2
    <3>2. f[i] = step[i][f[i - 1]] /\ f[i - 1] \in Seq(Items)
      BY <1>5, <3>1 DEF Rounds
    <3>3. f[i] = f[i - 1] \o w[i] /\ w[i] = IF s[i] \in C THEN <<s[i]>> ELSE << >>
      BY <1>2, <1>4, <3>1, <3>2
    <3> QED BY <2>2, <3>3
  <2> QED BY <2>1, <2>2
<1>7. f = [i \in 0 .. n |-> IF i = 0 THEN << >> ELSE f[i - 1] \o IF s[i] \in C THEN <<s[i]>> ELSE << >>]
  BY <1>6
<1>8. l = [i \in 0 .. n |-> IF i = 0 THEN << >> ELSE l[i - 1] \o IF s[i] \in C THEN <<s[i]>> ELSE << >>]
  BY <1>7 DEF Picks, n
<1>9. Promised!Those(s, C) = l[n]
  BY DEF Promised!Those, Picks, n
<1> HIDE DEF l
<1>10. l[0] = << >> /\ \A i \in 1 .. n : l[i] = l[i - 1] \o IF s[i] \in C THEN <<s[i]>> ELSE << >>
  <2>1. 0 \in 0 .. n /\ \A i \in 1 .. n : i \in 0 .. n /\ i # 0
    BY <1>1
  <2> QED BY <1>8, <2>1
<1>11. \A i \in 0 .. n : l[i] \in Seq(Items)
  <2> DEFINE T == {i \in 0 .. n : l[i] \in Seq(Items)}
  <2>1. ASSUME NEW i \in 1 .. n, i - 1 \in T PROVE i \in T
    <3>1. l[i] = l[i - 1] \o w[i] /\ w[i] \in Seq(Items)
      BY <1>2, <1>10
    <3>2. l[i - 1] \in Seq(Items) /\ i \in 0 .. n
      BY <1>1, <2>1
    <3> DEFINE u == l[i - 1]
               v == w[i]
    <3>3. u \in Seq(Items) /\ v \in Seq(Items)
      BY <3>1, <3>2
    <3> HIDE DEF u, v
    <3>4. u \o v \in Seq(Items)
      BY <3>3
    <3> QED BY <3>1, <3>2, <3>4 DEF u, v
  <2>2. 0 \in T
    <3>1. l[0] \in Seq(Items) /\ 0 \in 0 .. n
      BY <1>1, <1>10 DEF c
    <3> QED BY <3>1
  <2> HIDE DEF T
  <2>3. \A i \in 0 .. n : i \in T
    BY <1>1, <2>1, <2>2, EveryRound
  <2> QED BY <2>3 DEF T
<1>12. l \in [0 .. n -> Seq(Items)]
  BY <1>8, <1>11
<1> QED BY <1>9, <1>10, <1>12 DEF l, n, Picking

LEMMA JoinTwo ==
    ASSUME NEW S, NEW a \in Seq(S), NEW b \in Seq(S), NEW w, w = a \o b
    PROVE  /\ w \in Seq(S) /\ Len(w) = Len(a) + Len(b)
           /\ \A i \in 1 .. Len(a) : w[i] = a[i]
           /\ \A i \in 1 .. Len(b) : w[Len(a) + i] = b[i]
<1>1. Len(a) \in Nat /\ Len(b) \in Nat
  OBVIOUS
<1>2. /\ w \in Seq(S) /\ Len(w) = Len(a) + Len(b)
      /\ \A i \in 1 .. Len(a) + Len(b) : w[i] = IF i <= Len(a) THEN a[i] ELSE b[i - Len(a)]
  BY ConcatProperties
<1>3. ASSUME NEW i \in 1 .. Len(a) PROVE w[i] = a[i]
  <2>1. i \in 1 .. Len(a) + Len(b) /\ i <= Len(a)
    BY <1>1
  <2> QED BY <1>2, <2>1
<1>4. ASSUME NEW i \in 1 .. Len(b) PROVE w[Len(a) + i] = b[i]
  <2> DEFINE x == Len(a) + i
  <2>1. x \in 1 .. Len(a) + Len(b) /\ ~ (x <= Len(a)) /\ x - Len(a) = i
    BY <1>1
  <2> HIDE DEF x
  <2>2. w[x] = b[i]
    BY <1>2, <2>1
  <2> QED BY <2>2 DEF x
<1> QED BY <1>2, <1>3, <1>4

LEMMA EndInsert ==
    ASSUME NEW d \in Seq(Items), NEW x \in Items
    PROVE  InsertAt(d, Len(d) + 1, x) = d \o <<x>>
<1> DEFINE c == Len(d) + 1
           q == InsertAt(d, c, x)
           r == d \o <<x>>
<1>1. Len(d) \in Nat /\ c \in 1 .. Len(d) + 1
  OBVIOUS
<1> HIDE DEF c
<1>2. /\ q \in Seq(Items) /\ Len(q) = Len(d) + 1
      /\ \A i \in 1 .. Len(d) + 1 : q[i] = IF i < c THEN d[i] ELSE IF i = c THEN x ELSE d[i - 1]
  BY <1>1, InsertAtProperties
<1>3. /\ r \in Seq(Items) /\ Len(r) = Len(d) + 1
      /\ \A i \in 1 .. Len(d) + 1 : r[i] = IF i = Len(d) + 1 THEN x ELSE d[i]
  <2>1. <<x>> \in Seq(Items) /\ Len(<<x>>) = 1 /\ <<x>>[1] = x
    OBVIOUS
  <2>2. r \in Seq(Items) /\ Len(r) = Len(d) + 1 /\ r[Len(d) + 1] = x
    BY <1>1, <2>1
  <2>3. \A i \in 1 .. Len(d) : r[i] = d[i]
    BY <1>1, <2>1
  <2> HIDE DEF r
  <2> QED BY <1>1, <2>2, <2>3
<1> HIDE DEF q, r
<1>4. \A i \in 1 .. Len(d) + 1 : q[i] = r[i]
  BY <1>1, <1>2, <1>3 DEF c
<1>5. q = r
  BY <1>2, <1>3, <1>4
<1> QED BY <1>5 DEF q, r, c

(* An item x between two parts of a list, a and b.                         *)
LEMMA ItemBetween ==
    ASSUME NEW a \in Seq(Items), NEW b \in Seq(Items), NEW x \in Items
    PROVE  /\ (a \o <<x>>) \o b \in Seq(Items)
           /\ Len((a \o <<x>>) \o b) = Len(a) + 1 + Len(b)
           /\ Len(a) + 1 \in 1 .. Len((a \o <<x>>) \o b)
           /\ ((a \o <<x>>) \o b)[Len(a) + 1] = x
           /\ RemoveAt((a \o <<x>>) \o b, Len(a) + 1) = a \o b
           /\ \A i \in 1 .. Len(a) : ((a \o <<x>>) \o b)[i] = a[i]
           /\ \A i \in 1 .. Len(b) : ((a \o <<x>>) \o b)[Len(a) + 1 + i] = b[i]
<1> DEFINE q == (a \o <<x>>) \o b
           c == a \o <<x>>
           k == Len(a) + 1
           r == RemoveAt(q, k)
           ab == a \o b
<1>1. Len(a) \in Nat /\ Len(b) \in Nat
  OBVIOUS
<1>2. c \in Seq(Items) /\ Len(c) = k /\ c[k] = x /\ \A i \in 1 .. Len(a) : c[i] = a[i]
  <2>1. <<x>> \in Seq(Items) /\ Len(<<x>>) = 1 /\ <<x>>[1] = x
    OBVIOUS
  <2> QED BY <1>1, <2>1
<1>3. q = c \o b
  OBVIOUS
<1> HIDE DEF c, q
<1>4. /\ q \in Seq(Items) /\ Len(q) = k + Len(b)
      /\ \A i \in 1 .. k : q[i] = c[i]
      /\ \A i \in 1 .. Len(b) : q[k + i] = b[i]
  <2> HIDE DEF k
  <2>1. /\ q \in Seq(Items) /\ Len(q) = Len(c) + Len(b)
        /\ \A i \in 1 .. Len(c) : q[i] = c[i]
        /\ \A i \in 1 .. Len(b) : q[Len(c) + i] = b[i]
    <3>1. c \in Seq(Items)
      BY <1>2
    <3> QED BY <1>3, <3>1, JoinTwo
  <2>2. Len(c) = k
    BY <1>2
  <2> QED BY <2>1, <2>2
<1>5. k \in 1 .. Len(q) /\ q[k] = x
  <2>1. k \in 1 .. k
    BY <1>1
  <2> QED BY <1>1, <1>2, <1>4, <2>1
<1>6. \A i \in 1 .. Len(a) : q[i] = a[i]
  <2>1. \A i \in 1 .. Len(a) : i \in 1 .. k
    BY <1>1
  <2> QED BY <1>2, <1>4, <2>1
<1>7. /\ ab \in Seq(Items) /\ Len(ab) = Len(a) + Len(b)
      /\ \A i \in 1 .. Len(a) : ab[i] = a[i]
      /\ \A i \in 1 .. Len(b) : ab[Len(a) + i] = b[i]
  BY <1>1
<1> HIDE DEF k, ab
<1>8. /\ r \in Seq(Items) /\ Len(r) = Len(q) - 1
      /\ \A i \in 1 .. Len(q) - 1 : r[i] = IF i < k THEN q[i] ELSE q[i + 1]
  BY <1>4, <1>5, RemoveAtProperties
<1> HIDE DEF r
<1>9. Len(r) = Len(a) + Len(b)
  BY <1>1, <1>4, <1>8 DEF k
<1>10. ASSUME NEW i \in 1 .. Len(a) + Len(b) PROVE r[i] = ab[i]
  <2>1. i \in 1 .. Len(q) - 1 /\ i \in Int
    BY <1>1, <1>4 DEF k
  <2>2. CASE i <= Len(a)
    <3>1. i < k /\ i \in 1 .. Len(a)
      BY <1>1, <2>1, <2>2 DEF k
    <3> QED BY <1>6, <1>7, <1>8, <2>1, <3>1
  <2>3. CASE ~ (i <= Len(a))
    <3> DEFINE m == i - Len(a)
    <3>1. ~ (i < k) /\ m \in 1 .. Len(b) /\ i = Len(a) + m /\ i + 1 = k + m
      BY <1>1, <2>1, <2>3 DEF k
    <3> HIDE DEF m
    <3>2. r[i] = q[k + m] /\ ab[i] = b[m]
      BY <1>7, <1>8, <2>1, <3>1
    <3> QED BY <1>4, <3>1, <3>2
  <2> QED BY <2>2, <2>3
<1>11. r = ab
  <2>1. Len(r) = Len(ab) /\ \A i \in 1 .. Len(r) : r[i] = ab[i]
    BY <1>7, <1>9, <1>10
  <2> QED BY <1>7, <1>8, <2>1, SeqEqual
<1> QED BY <1>4, <1>5, <1>6, <1>11 DEF r, ab, k, q

(* What is left of a sequence, without its first item.                     *)
LEMMA RestOf ==
    ASSUME NEW a \in Seq(Items), NEW s \in Seq(Items), NEW i \in 1 .. Len(s)
    PROVE  /\ SubSeq(s, i, Len(s)) \in Seq(Items)
           /\ SubSeq(s, i + 1, Len(s)) \in Seq(Items)
           /\ a \o SubSeq(s, i, Len(s)) = (a \o <<s[i]>>) \o SubSeq(s, i + 1, Len(s))
<1> DEFINE n == Len(s)
           p == SubSeq(s, i, n)
           b == SubSeq(s, i + 1, n)
           x == s[i]
           q == (a \o <<x>>) \o b
           ap == a \o p
<1>1. n \in Nat /\ Len(a) \in Nat /\ x \in Items /\ i \in 1 .. n
  OBVIOUS
<1>2. /\ p \in Seq(Items) /\ Len(p) = n - i + 1
      /\ \A m \in 1 .. n - i + 1 : p[m] = s[i + m - 1]
  BY <1>1
<1>3. /\ b \in Seq(Items) /\ Len(b) = n - i
      /\ \A m \in 1 .. n - i : b[m] = s[i + m]
  <2>1. \A m \in 1 .. n : s[m] \in Items
    OBVIOUS
  <2>2. CASE i = n
    <3>1. b = << >> /\ n - i = 0
      BY <1>1, <2>2
    <3> QED BY <3>1
  <2>3. CASE i # n
    <3> DEFINE c == i + 1
    <3>1. c \in 1 .. n /\ n - c + 1 = n - i
      BY <1>1, <2>3
    <3>3. \A m \in 1 .. n - i : c + m - 1 = i + m
      BY <1>1
    <3> HIDE DEF c
    <3>2. SubSeq(s, c, n) \in Seq(Items) /\ Len(SubSeq(s, c, n)) = n - c + 1
          /\ \A m \in 1 .. n - c + 1 : SubSeq(s, c, n)[m] = s[c + m - 1]
      BY <1>1, <3>1
    <3> QED BY <3>1, <3>2, <3>3 DEF c
  <2> QED BY <2>2, <2>3
<1> HIDE DEF n, p, b, x
<1>4. /\ q \in Seq(Items) /\ Len(q) = Len(a) + 1 + Len(b) /\ q[Len(a) + 1] = x
      /\ \A m \in 1 .. Len(a) : q[m] = a[m]
      /\ \A m \in 1 .. Len(b) : q[Len(a) + 1 + m] = b[m]
  <2>1. a \in Seq(Items) /\ b \in Seq(Items) /\ x \in Items
    BY <1>1, <1>3
  <2>2. q \in Seq(Items) /\ Len(q) = Len(a) + 1 + Len(b) /\ q[Len(a) + 1] = x
    BY <2>1, ItemBetween
  <2>3. \A m \in 1 .. Len(a) : q[m] = a[m]
    BY <2>1, ItemBetween
  <2>4. \A m \in 1 .. Len(b) : q[Len(a) + 1 + m] = b[m]
    BY <2>1, ItemBetween
  <2> QED BY <2>2, <2>3, <2>4
<1>5. /\ ap \in Seq(Items) /\ Len(ap) = Len(a) + Len(p)
      /\ \A m \in 1 .. Len(a) : ap[m] = a[m]
      /\ \A m \in 1 .. Len(p) : ap[Len(a) + m] = p[m]
  <2>1. a \in Seq(Items) /\ p \in Seq(Items) /\ ap = a \o p
    BY <1>2
  <2> HIDE DEF ap
  <2>2. ap \in Seq(Items) /\ Len(ap) = Len(a) + Len(p)
    BY <2>1
  <2>3. \A m \in 1 .. Len(a) : ap[m] = a[m]
    BY <2>1, JoinTwo
  <2>4. \A m \in 1 .. Len(p) : ap[Len(a) + m] = p[m]
    BY <2>1, JoinTwo
  <2> QED BY <2>2, <2>3, <2>4
<1> HIDE DEF q, ap
<1>6. Len(ap) = Len(q) /\ Len(q) = Len(a) + (n - i) + 1
  BY <1>1, <1>2, <1>3, <1>4, <1>5
<1>7. ASSUME NEW m \in 1 .. Len(q) PROVE ap[m] = q[m]
  <2>0. m \in Int
    OBVIOUS
  <2>1. CASE m <= Len(a)
    <3>1. m \in 1 .. Len(a)
      BY <1>1, <2>0, <2>1
    <3> QED BY <1>4, <1>5, <3>1
  <2>2. CASE m = Len(a) + 1
    <3>1. 1 \in 1 .. Len(p) /\ i + 1 - 1 = i /\ 1 \in 1 .. n - i + 1
      BY <1>1, <1>2
    <3>2. ap[Len(a) + 1] = p[1] /\ p[1] = s[i + 1 - 1]
      BY <1>2, <1>5, <3>1
    <3> QED BY <1>4, <2>2, <3>1, <3>2 DEF x
  <2>3. CASE m > Len(a) + 1
    <3> DEFINE c == m - Len(a) - 1
               e == c + 1
    <3>1. c \in 1 .. n - i /\ m = Len(a) + 1 + c /\ e \in 1 .. n - i + 1 /\ m = Len(a) + e /\ i + e - 1 = i + c
      BY <1>1, <1>6, <2>0, <2>3
    <3> HIDE DEF c, e
    <3>2. ap[m] = p[e] /\ p[e] = s[i + c]
      BY <1>2, <1>5, <3>1
    <3>3. q[m] = b[c] /\ b[c] = s[i + c]
      BY <1>3, <1>4, <3>1
    <3> QED BY <3>2, <3>3
  <2> QED BY <1>1, <2>0, <2>1, <2>2, <2>3
<1>8. ap = q
  BY <1>4, <1>5, <1>6, <1>7
<1> QED BY <1>2, <1>3, <1>8 DEF n, p, b, x, q, ap

Between(q, a, x, b) == q = (a \o <<x>>) \o b

End(l, a) == IF Len(a) = 0 THEN l ELSE a[Len(a)]

(* What a round r of rlist_select does at an item x, behind the items a.   *)
Looked(h, f, src, dest, C, a, b, x, r) ==
    /\ x \in C => \E g : /\ Links(g, [f EXCEPT ![src] = a \o b, ![dest] = f[dest] \o <<x>>])
                         /\ r = [h |-> g, I |-> End(src, a)]
    /\ x \notin C => r = [h |-> h, I |-> x]

LEMMA SelectStep ==
    ASSUME NEW h, NEW f, Links(h, f), NEW src \in Heads, NEW dest \in Heads, src # dest, NEW C,
           NEW a \in Seq(Items), NEW b \in Seq(Items), NEW x \in Items, Between(f[src], a, x, b)
    PROVE  Looked(h, f, src, dest, C, a, b, x,
                  select_round([h |-> h, I |-> End(src, a)], src, dest, C))
<1> DEFINE k == Len(a) + 1
           q == f[src]
           I == End(src, a)
           p == [h |-> h, I |-> I]
           h1 == rlist_remove(h, x)
           f1 == [f EXCEPT ![src] = RemoveAt(q, k)]
           h2 == rlist_push_back(h1, dest, x)
           d == f[dest]
           f2 == [f1 EXCEPT ![dest] = InsertAt(f1[dest], Len(f1[dest]) + 1, x)]
<1>1. f \in [Heads -> Seq(Items)] /\ Len(a) \in Nat /\ x \notin Heads
  BY NodesAssumption DEF Links, Strung
<1>2. k \in 1 .. Len(q) /\ q[k] = x /\ RemoveAt(q, k) = a \o b /\ \A i \in 1 .. Len(a) : q[i] = a[i]
  <2>1. /\ k \in 1 .. Len((a \o <<x>>) \o b) /\ ((a \o <<x>>) \o b)[k] = x
        /\ RemoveAt((a \o <<x>>) \o b, k) = a \o b
    BY ItemBetween
  <2>2. \A i \in 1 .. Len(a) : ((a \o <<x>>) \o b)[i] = a[i]
    BY ItemBetween
  <2> HIDE DEF k
  <2> QED BY <2>1, <2>2 DEF Between
<1>3. /\ \A i \in 1 .. Len(q) : Stop(src, q, i) = q[i]
      /\ Stop(src, q, 0) = src
      /\ Len(q) \in Nat
  BY <1>1, StopType
<1>4. I = Stop(src, q, Len(a))
  <2>1. CASE Len(a) = 0
    BY <1>3, <2>1 DEF End
  <2>2. CASE Len(a) # 0
    <3>1. Len(a) \in 1 .. Len(a) /\ Len(a) \in 1 .. Len(q)
      BY <1>1, <1>2, <1>3, <2>2
    <3> QED BY <1>2, <1>3, <2>2, <3>1 DEF End
  <2> QED BY <2>1, <2>2
<1>5. Len(a) \in 0 .. Len(q)
  BY <1>1, <1>2, <1>3
<1>6. h.next[I] = x
  <2> DEFINE z == Len(a)
  <2>1. z \in 0 .. Len(f[src])
    BY <1>5
  <2>2. Stop(src, q, z + 1) = x
    BY <1>2, <1>3
  <2> HIDE DEF z
  <2>3. h.next[Stop(src, f[src], z)] = Stop(src, f[src], z + 1)
    BY <2>1, PrevIs
  <2> QED BY <1>4, <2>2, <2>3 DEF z
<1>7. ASSUME x \in C
      PROVE  \E g : /\ Links(g, [f EXCEPT ![src] = a \o b, ![dest] = f[dest] \o <<x>>])
                    /\ select_round(p, src, dest, C) = [h |-> g, I |-> I]
  <2>1. Links(h1, f1) /\ h1.next[x] = x
    <3>1. k \in 1 .. Len(f[src]) /\ f[src][k] = x
      BY <1>2
    <3> HIDE DEF k
    <3>2. /\ Links(rlist_remove(h, f[src][k]), [f EXCEPT ![src] = RemoveAt(f[src], k)])
          /\ rlist_remove(h, f[src][k]).next[f[src][k]] = f[src][k]
      BY <3>1, RemoveLinks
    <3> QED BY <3>1, <3>2
  <2>2. is_rlist_empty(h1, x)
    BY <2>1 DEF is_rlist_empty
  <2> HIDE DEF h1, f1
  <2>3. Links(h2, f2)
    BY <2>1, <2>2, PushBackLinks
  <2>4. f1[dest] = d /\ d \in Seq(Items)
    BY <1>1 DEF f1
  <2>5. InsertAt(f1[dest], Len(f1[dest]) + 1, x) = d \o <<x>>
    BY <2>4, EndInsert
  <2>6. f2 = [f EXCEPT ![src] = a \o b, ![dest] = d \o <<x>>]
    BY <1>1, <1>2, <2>5 DEF f1
  <2>7. x # src
    BY <1>1
  <2>8. p.h = h /\ p.I = I
    OBVIOUS
  <2> HIDE DEF p, I, h2
  <2>9. select_round(p, src, dest, C) = [h |-> h2, I |-> I]
    BY <1>6, <1>7, <2>7, <2>8 DEF select_round, h1, h2
  <2> QED BY <2>3, <2>6, <2>9
<1>8. ASSUME x \notin C
      PROVE  select_round(p, src, dest, C) = [h |-> h, I |-> x]
  <2>1. p.h = h /\ p.I = I /\ x # src
    BY <1>1
  <2> HIDE DEF p, I
  <2> QED BY <1>6, <1>8, <2>1 DEF select_round
<1> QED BY <1>7, <1>8 DEF Looked

(* Behind the last item rlist_select has come back to the head.            *)
LEMMA SelectEnd ==
    ASSUME NEW h, NEW f, Links(h, f), NEW src \in Heads, NEW dest, NEW C
    PROVE  select_round([h |-> h, I |-> End(src, f[src])], src, dest, C) = [h |-> h, I |-> End(src, f[src])]
<1> DEFINE q == f[src]
           n == Len(q)
           I == End(src, q)
           p == [h |-> h, I |-> I]
<1>1. f \in [Heads -> Seq(Items)]
  BY DEF Links, Strung
<1>2. /\ \A i \in 1 .. n : Stop(src, q, i) = q[i]
      /\ Stop(src, q, 0) = src /\ Stop(src, q, n + 1) = src
      /\ n \in Nat
  BY <1>1, StopType
<1>3. I = Stop(src, q, n) /\ n \in 0 .. n
  <2>1. CASE n = 0
    BY <1>2, <2>1 DEF End
  <2>2. CASE n # 0
    <3>1. n \in 1 .. n
      BY <1>2, <2>2
    <3> QED BY <1>2, <2>2, <3>1 DEF End
  <2> QED BY <1>2, <2>1, <2>2
<1>4. h.next[I] = src
  BY <1>2, <1>3, PrevIs
<1>5. p.h = h /\ p.I = I
  OBVIOUS
<1> HIDE DEF p, I
<1>6. select_round(p, src, dest, C) = p
  BY <1>4, <1>5 DEF select_round
<1> QED BY <1>6 DEF p, I

LEMMA SelectLinks ==
    ASSUME NEW h, NEW f, Links(h, f), NEW src \in Heads, NEW dest \in Heads, src # dest,
           NEW C \in SUBSET Items
    PROVE  Links(rlist_select(h, src, dest, C),
                 [f EXCEPT ![dest] = f[dest] \o Promised!Those(f[src], C),
                           ![src] = Promised!Those(f[src], Items \ C)])
<1> DEFINE s == f[src]
           n == Len(s)
           d == f[dest]
           N == Cardinality(Items)
           K == Picks(s, Items \ C)
           P == Picks(s, C)
           l == Selects(h, src, dest, C)
           rem(i) == SubSeq(s, i + 1, n)
           F(i) == [f EXCEPT ![dest] = d \o P[i], ![src] = K[i] \o rem(i)]
           Now(i) == \E g : Links(g, F(i)) /\ l[i] = [h |-> g, I |-> End(src, K[i])]
<1>1. f \in [Heads -> Seq(Items)] /\ h \in Heaps /\ Apart(f)
  BY DEF Links, Strung
<1>2. s \in Seq(Items) /\ d \in Seq(Items) /\ n \in Nat /\ \A i \in 1 .. n : s[i] \in Items
  BY <1>1
<1>3. /\ N \in Nat /\ rlist_select(h, src, dest, C) = l[N].h
      /\ l[0] = [h |-> h, I |-> src]
      /\ \A i \in 1 .. N : l[i] = select_round(l[i - 1], src, dest, C)
  <2>1. N \in Nat /\ rlist_select(h, src, dest, C) = l[N].h /\ Selecting(l, N, h, src, dest, C)
    BY <1>1, SelectsDef, Zenon
  <2> HIDE DEF l, N
  <2> QED BY <2>1 DEF Selecting
<1>4. n <= N
  BY <1>1, RingFits
<1>5. /\ Promised!Those(s, C) = P[n] /\ P \in [0 .. n -> Seq(Items)] /\ P[0] = << >>
      /\ \A i \in 1 .. n : P[i] = P[i - 1] \o IF s[i] \in C THEN <<s[i]>> ELSE << >>
  <2>1. Promised!Those(s, C) = P[n] /\ Picking(P, s, C)
    BY <1>2, PicksDef, Zenon
  <2> HIDE DEF P, s
  <2> QED BY <2>1 DEF Picking
<1>6. /\ Promised!Those(s, Items \ C) = K[n] /\ K \in [0 .. n -> Seq(Items)] /\ K[0] = << >>
      /\ \A i \in 1 .. n : K[i] = K[i - 1] \o IF s[i] \in Items \ C THEN <<s[i]>> ELSE << >>
  <2> DEFINE D == Items \ C
  <2>1. Promised!Those(s, D) = K[n] /\ Picking(K, s, D)
    BY <1>2, PicksDef, Zenon
  <2> HIDE DEF K, s, D
  <2>2. /\ K \in [0 .. n -> Seq(Items)] /\ K[0] = << >>
        /\ \A i \in 1 .. n : K[i] = K[i - 1] \o IF s[i] \in D THEN <<s[i]>> ELSE << >>
    BY <2>1 DEF Picking
  <2> QED BY <2>1, <2>2 DEF D
<1> HIDE DEF l, P, K, n, N, s, d
<1>7. Now(0)
  <2>1. rem(0) = s
    BY <1>2 DEF n
  <2>2. d \o P[0] = d /\ K[0] \o rem(0) = s
    <3> HIDE DEF rem
    <3> QED BY <1>2, <1>5, <1>6, <2>1, ConcatEmptySeq
  <2>3. F(0) = f
    <3>1. F(0) = [f EXCEPT ![dest] = d, ![src] = s]
      BY <2>2
    <3> QED BY <1>1, <3>1 DEF d, s
  <2>4. End(src, K[0]) = src
    BY <1>6 DEF End
  <2> HIDE DEF F
  <2> QED BY <1>3, <2>3, <2>4
<1>8. ASSUME NEW i \in 1 .. n, Now(i - 1) PROVE Now(i)
  <2> DEFINE a == K[i - 1]
             b == rem(i)
             x == s[i]
             c == P[i - 1]
             f0 == F(i - 1)
  <2>1. i - 1 \in 0 .. n /\ i \in 0 .. n /\ i - 1 + 1 = i /\ i \in 1 .. N
    BY <1>2, <1>3, <1>4
  <2>2. a \in Seq(Items) /\ c \in Seq(Items) /\ x \in Items
    BY <1>2, <1>5, <1>6, <2>1
  <2>3. b \in Seq(Items) /\ a \o rem(i - 1) = (a \o <<x>>) \o b
    <3>1. /\ SubSeq(s, i + 1, n) \in Seq(Items)
          /\ a \o SubSeq(s, i, n) = (a \o <<s[i]>>) \o SubSeq(s, i + 1, n)
      <4> HIDE DEF a
      <4> QED BY <1>2, <2>2, RestOf DEF n
    <3> QED BY <2>1, <3>1
  <2>4. PICK g : Links(g, F(i - 1)) /\ l[i - 1] = [h |-> g, I |-> End(src, K[i - 1])]
    BY <1>8
  <2>5. f0 = [f EXCEPT ![dest] = d \o c, ![src] = (a \o <<x>>) \o b]
    BY <2>3
  <2>6. l[i] = select_round([h |-> g, I |-> End(src, a)], src, dest, C)
    BY <1>3, <2>1, <2>4
  <2>7. Links(g, f0)
    BY <2>4
  <2>8. /\ P[i] = c \o IF x \in C THEN <<x>> ELSE << >>
        /\ K[i] = a \o IF x \in Items \ C THEN <<x>> ELSE << >>
    BY <1>5, <1>6
  <2> HIDE DEF a, b, c, x, f0
  <2>9. f0[src] = (a \o <<x>>) \o b /\ f0[dest] = d \o c
    BY <1>1, <2>5
  <2>10. /\ x \in C => \E g1 : /\ Links(g1, [f0 EXCEPT ![src] = a \o b, ![dest] = f0[dest] \o <<x>>])
                               /\ l[i] = [h |-> g1, I |-> End(src, a)]
         /\ x \notin C => l[i] = [h |-> g, I |-> x]
    <3> DEFINE y == select_round([h |-> g, I |-> End(src, a)], src, dest, C)
    <3>1. Between(f0[src], a, x, b) /\ a \in Seq(Items) /\ b \in Seq(Items) /\ x \in Items
      BY <2>2, <2>3, <2>9 DEF Between
    <3>2. Looked(g, f0, src, dest, C, a, b, x, y)
      BY <2>7, <3>1, SelectStep
    <3> HIDE DEF y
    <3>3. l[i] = y
      BY <2>6 DEF y
    <3> QED BY <3>2, <3>3 DEF Looked
  <2>11. CASE x \in C
    <3>1. P[i] = c \o <<x>> /\ K[i] = a
      <4>1. P[i] = c \o <<x>> /\ K[i] = a \o << >>
        BY <2>8, <2>11
      <4> QED BY <2>2, <4>1, ConcatEmptySeq
    <3>2. f0[dest] \o <<x>> = d \o P[i]
      <4>1. <<x>> \in Seq(Items)
        BY <2>2
      <4>2. (d \o c) \o <<x>> = d \o (c \o <<x>>)
        BY <1>2, <2>2, <4>1, ConcatAssociative
      <4> QED BY <2>9, <3>1, <4>2
    <3>3. [f0 EXCEPT ![src] = a \o b, ![dest] = f0[dest] \o <<x>>] = F(i)
      <4>1. F(i) = [f EXCEPT ![dest] = d \o P[i], ![src] = a \o b]
        BY <3>1 DEF b
      <4>2. [f0 EXCEPT ![src] = a \o b, ![dest] = f0[dest] \o <<x>>] = [f0 EXCEPT ![src] = a \o b, ![dest] = d \o P[i]]
        BY <3>2
      <4> HIDE DEF F
      <4> QED BY <1>1, <2>5, <4>1, <4>2
    <3> HIDE DEF F
    <3> QED BY <2>10, <2>11, <3>1, <3>3
  <2>12. CASE x \notin C
    <3>1. P[i] = c /\ K[i] = a \o <<x>>
      <4>1. P[i] = c \o << >> /\ K[i] = a \o <<x>>
        BY <2>2, <2>8, <2>12
      <4> QED BY <2>2, <4>1, ConcatEmptySeq
    <3>2. F(i) = f0
      <4>1. F(i) = [f EXCEPT ![dest] = d \o c, ![src] = (a \o <<x>>) \o b]
        BY <3>1 DEF b
      <4> QED BY <2>5, <4>1
    <3>3. End(src, K[i]) = x
      <4> DEFINE y == a \o <<x>>
      <4>1. Len(y) = Len(a) + 1 /\ y[Len(a) + 1] = x /\ Len(a) \in Nat
        BY <2>2
      <4> HIDE DEF y
      <4>2. K[i] = y
        BY <3>1 DEF y
      <4>3. Len(y) # 0
        BY <4>1
      <4> QED BY <4>1, <4>2, <4>3 DEF End
    <3> HIDE DEF F
    <3> QED BY <2>7, <2>10, <2>12, <3>2, <3>3
  <2> QED BY <2>11, <2>12
<1> HIDE DEF Now
<1>9. Now(n)
  <2> DEFINE T == {i \in 0 .. n : Now(i)}
  <2>1. ASSUME NEW i \in 1 .. n, i - 1 \in T PROVE i \in T
    <3>1. Now(i) /\ i \in 0 .. n
      BY <1>2, <1>8, <2>1
    <3> QED BY <3>1
  <2>2. 0 \in T /\ n \in 0 .. n
    BY <1>2, <1>7
  <2> HIDE DEF T
  <2>3. \A i \in 0 .. n : i \in T
    BY <1>2, <2>1, <2>2, EveryRound
  <2> QED BY <2>2, <2>3 DEF T
<1>10. PICK g : Links(g, F(n)) /\ l[n] = [h |-> g, I |-> End(src, K[n])]
  BY <1>9 DEF Now
<1> DEFINE f1 == [f EXCEPT ![dest] = d \o P[n], ![src] = K[n]]
<1>11. F(n) = f1
  <2>1. K[n] \in Seq(Items) /\ rem(n) = << >>
    <3>1. n \in 0 .. n
      BY <1>2
    <3> QED BY <1>2, <1>6, <3>1
  <2>2. K[n] \o rem(n) = K[n]
    <3> HIDE DEF rem
    <3> QED BY <2>1, ConcatEmptySeq
  <2> QED BY <2>2
<1> HIDE DEF F
<1>12. Links(g, f1) /\ f1[src] = K[n]
  BY <1>1, <1>10, <1>11
<1> HIDE DEF f1
<1>13. select_round(l[n], src, dest, C) = l[n]
  <2>1. select_round([h |-> g, I |-> End(src, f1[src])], src, dest, C) = [h |-> g, I |-> End(src, f1[src])]
    BY <1>12, SelectEnd
  <2> QED BY <1>10, <1>12, <2>1
<1>14. l[N] = l[n]
  <2> DEFINE T == {i \in 0 .. N : i >= n => l[i] = l[n]}
  <2>1. ASSUME NEW i \in 1 .. N, i - 1 \in T PROVE i \in T
    <3>1. l[i] = select_round(l[i - 1], src, dest, C) /\ i \in 0 .. N /\ i - 1 \in 0 .. N
      BY <1>3
    <3>2. CASE i = n \/ i < n
      BY <1>2, <3>1, <3>2
    <3>3. CASE i > n
      <4>1. l[i - 1] = l[n]
        BY <1>2, <2>1, <3>1, <3>3
      <4> QED BY <1>13, <3>1, <4>1
    <3>4. i \in Int /\ n \in Int
      BY <1>2
    <3> QED BY <3>2, <3>3, <3>4
  <2>2. 0 \in T /\ N \in 0 .. N
    <3>1. 0 >= n => n = 0
      BY <1>2
    <3> QED BY <1>3, <3>1
  <2> HIDE DEF T
  <2>3. \A i \in 0 .. N : i \in T
    BY <1>3, <2>1, <2>2, EveryRound
  <2>4. N \in T
    BY <2>2, <2>3
  <2> QED BY <1>4, <2>4 DEF T
<1>15. rlist_select(h, src, dest, C) = g
  <2>1. rlist_select(h, src, dest, C) = l[n].h
    BY <1>3, <1>14
  <2> QED BY <1>10, <2>1
<1>16. f1 = [f EXCEPT ![dest] = d \o Promised!Those(s, C), ![src] = Promised!Those(s, Items \ C)]
  BY <1>5, <1>6 DEF f1
<1> QED BY <1>12, <1>15, <1>16 DEF d, s

-----------------------------------------------------------------------------
(* The functions that only look.  A loop along a ring ends in its first    *)
(* round that meets the condition.                                         *)
LEMMA MinIs ==
    ASSUME NEW S, S \subseteq Nat, S # {}
    PROVE  Min(S) \in S /\ \A y \in S : Min(S) <= y
BY LeastMember DEF Min

LEMMA RoundsIs ==
    ASSUME NEW h, NEW f, Links(h, f), NEW l \in Heads
    PROVE  /\ Len(f[l]) \in Nat
           /\ Len(f[l]) + 1 \in Turns /\ walk(h, l)[Len(f[l]) + 1] = l
           /\ \A i \in 1 .. Len(f[l]) : i \in Turns /\ walk(h, l)[i] = f[l][i] /\ walk(h, l)[i] # l
           /\ Turns \subseteq Nat
<1>1. f \in [Heads -> Seq(Items)] /\ Apart(f) /\ h \in Heaps
  BY DEF Links, Strung
<1>2. /\ Len(f[l]) \in Nat /\ Stop(l, f[l], Len(f[l]) + 1) = l
      /\ \A i \in 1 .. Len(f[l]) : Stop(l, f[l], i) = f[l][i] /\ f[l][i] \in Items
  BY <1>1, StopType
<1>3. Len(f[l]) + 1 \in Turns
  BY <1>1, RingFits DEF Turns
<1>4. \A i \in 1 .. Len(f[l]) + 1 : walk(h, l)[i] = Stop(l, f[l], i)
  BY WalkIs
<1>5. Cardinality(Nodes) \in Nat
  BY <1>1, WalkDef DEF Nodes
<1>6. Turns \subseteq Nat /\ \A i \in 1 .. Len(f[l]) : i \in Turns /\ i \in 1 .. Len(f[l]) + 1
  BY <1>2, <1>3, <1>5 DEF Turns
<1>7. Len(f[l]) + 1 \in 1 .. Len(f[l]) + 1
  BY <1>2
<1>8. \A x \in Items : x # l
  BY NodesAssumption
<1> QED BY <1>2, <1>3, <1>4, <1>6, <1>7, <1>8

LEMMA EmptyIs ==
    ASSUME NEW h, NEW f, Links(h, f), NEW l \in Heads
    PROVE  is_rlist_empty(h, l) <=> f[l] = << >>
<1>1. f \in [Heads -> Seq(Items)]
  BY DEF Links, Strung
<1>2. /\ Len(f[l]) \in Nat /\ Stop(l, f[l], Len(f[l]) + 1) = l /\ Stop(l, f[l], 0) = l /\ f[l] \in Seq(Items)
      /\ \A i \in 1 .. Len(f[l]) : Stop(l, f[l], i) = f[l][i] /\ f[l][i] \in Items
  BY <1>1, StopType
<1>3. 0 \in 0 .. Len(f[l]) /\ 0 + 1 = 1
  BY <1>2
<1>4. h.next[l] = Stop(l, f[l], 1)
  BY <1>2, <1>3, PrevIs
<1>5. CASE Len(f[l]) = 0
  <2>1. h.next[l] = l
    BY <1>2, <1>4, <1>5
  <2>2. f[l] = << >>
    BY <1>2, <1>5
  <2> QED BY <2>1, <2>2 DEF is_rlist_empty
<1>6. CASE Len(f[l]) # 0
  <2>1. 1 \in 1 .. Len(f[l])
    BY <1>2, <1>6
  <2>2. h.next[l] \in Items
    BY <1>2, <1>4, <2>1
  <2>3. h.next[l] # l
    BY <2>2, NodesAssumption
  <2>4. f[l] # << >>
    BY <1>6
  <2> QED BY <2>3, <2>4 DEF is_rlist_empty
<1> QED BY <1>5, <1>6

LEMMA LenIs ==
    ASSUME NEW h, NEW f, Links(h, f), NEW l \in Heads
    PROVE  rlist_len(h, l) = Len(f[l])
<1> DEFINE at == walk(h, l)
           n == Len(f[l])
           S == {i \in Turns : at[i] = l}
<1>1. /\ n \in Nat /\ n + 1 \in S /\ \A i \in 1 .. n : i \notin S
      /\ Turns \subseteq Nat
  BY RoundsIs
<1>2. S \subseteq Turns /\ rlist_len(h, l) = Min(S) - 1
  BY DEF rlist_len
<1> HIDE DEF S, n, at
<1>3. Min(S) \in S /\ \A y \in S : Min(S) <= y
  BY <1>1, <1>2, MinIs
<1> DEFINE m == Min(S)
<1> HIDE DEF m
<1>4. m \in Nat /\ m <= n + 1 /\ m \notin 1 .. n /\ m # 0
  <2>1. m \in S /\ m \in Turns /\ m \in Nat
    BY <1>1, <1>2, <1>3 DEF m
  <2>2. m <= n + 1
    BY <1>1, <1>3 DEF m
  <2>3. m \notin 1 .. n
    BY <1>1, <2>1
  <2>4. m # 0
    BY <2>1 DEF Turns
  <2> QED BY <2>1, <2>2, <2>3, <2>4
<1>5. m = n + 1
  BY <1>1, <1>4
<1>6. rlist_len(h, l) = m - 1
  BY <1>2 DEF m
<1>7. m - 1 = n
  BY <1>1, <1>5
<1> QED BY <1>6, <1>7 DEF n

LEMMA FindIs ==
    ASSUME NEW h, NEW f, Links(h, f), NEW l \in Heads, NEW k
    PROVE  \/ rlist_find(h, l, k, l) = l /\ \A i \in 1 .. Len(f[l]) : h.key[f[l][i]] # k
           \/ \E i \in 1 .. Len(f[l]) :
                /\ rlist_find(h, l, k, l) = f[l][i] /\ f[l][i] # l /\ h.key[f[l][i]] = k
                /\ \A m \in 1 .. i - 1 : h.key[f[l][m]] # k
<1> DEFINE at == walk(h, l)
           n == Len(f[l])
           S == {i \in Turns : at[i] = l \/ h.key[at[i]] = k}
           e == Min(S)
<1>1. /\ n \in Nat /\ n + 1 \in S /\ at[n + 1] = l
      /\ \A i \in 1 .. n : i \in Turns /\ at[i] = f[l][i] /\ at[i] # l
      /\ Turns \subseteq Nat
  BY RoundsIs
<1>2. /\ S \subseteq Turns /\ \A i \in S : at[i] = l \/ h.key[at[i]] = k
      /\ \A i \in Turns \ S : h.key[at[i]] # k
  OBVIOUS
<1>3. rlist_find(h, l, k, l) = IF at[e] = l THEN l ELSE at[e]
  BY DEF rlist_find
<1> HIDE DEF S, n, at
<1>4. e \in S /\ \A y \in S : e <= y
  BY <1>1, <1>2, MinIs
<1> HIDE DEF e
<1>5. e \in Nat /\ e <= n + 1 /\ e # 0
  <2>1. e \in Turns
    BY <1>2, <1>4
  <2> QED BY <1>1, <1>4, <2>1 DEF Turns
<1>6. \A m \in 1 .. e - 1 : m \in 1 .. n /\ m \notin S
  <2> SUFFICES ASSUME NEW m \in 1 .. e - 1 PROVE m \in 1 .. n /\ m \notin S
    OBVIOUS
  <2>1. m \in 1 .. n /\ ~ (e <= m)
    BY <1>1, <1>5
  <2> QED BY <1>4, <2>1
<1>7. \A m \in 1 .. e - 1 : h.key[f[l][m]] # k
  BY <1>1, <1>2, <1>6
<1>8. CASE e = n + 1
  <2>1. rlist_find(h, l, k, l) = l
    BY <1>1, <1>3, <1>8
  <2>2. e - 1 = n
    BY <1>1, <1>8
  <2> QED BY <1>7, <2>1, <2>2 DEF n
<1>9. CASE e # n + 1
  <2>1. e \in 1 .. n
    BY <1>1, <1>5, <1>9
  <2>2. at[e] = f[l][e] /\ at[e] # l
    BY <1>1, <2>1
  <2>3. h.key[f[l][e]] = k /\ rlist_find(h, l, k, l) = f[l][e]
    BY <1>2, <1>3, <1>4, <2>2
  <2> QED BY <1>7, <2>1, <2>2, <2>3 DEF n
<1> QED BY <1>8, <1>9

LEMMA EqualIs ==
    ASSUME NEW h, NEW f, Links(h, f), NEW a \in Heads, NEW b \in Heads
    PROVE  rlist_equal(h, a, b) <=> /\ Len(f[a]) = Len(f[b])
                                    /\ \A i \in 1 .. Len(f[a]) : h.key[f[a][i]] = h.key[f[b][i]]
<1> DEFINE p == walk(h, a)
           q == walk(h, b)
           n == Len(f[a])
           m == Len(f[b])
           S == {i \in Turns : p[i] = a \/ q[i] = b \/ h.key[p[i]] # h.key[q[i]]}
           e == Min(S)
<1>1. /\ n \in Nat /\ n + 1 \in S /\ p[n + 1] = a
      /\ \A i \in 1 .. n : i \in Turns /\ p[i] = f[a][i] /\ p[i] # a
      /\ Turns \subseteq Nat
  BY RoundsIs
<1>2. /\ m \in Nat /\ m + 1 \in S /\ q[m + 1] = b
      /\ \A i \in 1 .. m : i \in Turns /\ q[i] = f[b][i] /\ q[i] # b
  BY RoundsIs
<1>3. /\ S \subseteq Turns /\ \A i \in S : p[i] = a \/ q[i] = b \/ h.key[p[i]] # h.key[q[i]]
      /\ \A i \in Turns \ S : h.key[p[i]] = h.key[q[i]]
  OBVIOUS
<1>4. rlist_equal(h, a, b) <=> p[e] = a /\ q[e] = b
  BY DEF rlist_equal
<1> HIDE DEF S, n, m, p, q
<1>5. e \in S /\ \A y \in S : e <= y
  BY <1>1, <1>3, MinIs
<1> HIDE DEF e
<1>6. e \in Nat /\ e <= n + 1 /\ e <= m + 1 /\ e # 0
  <2>1. e \in Turns
    BY <1>3, <1>5
  <2> QED BY <1>1, <1>2, <1>5, <2>1 DEF Turns
<1>7. ASSUME p[e] = a, q[e] = b
      PROVE  n = m /\ \A i \in 1 .. n : h.key[f[a][i]] = h.key[f[b][i]]
  <2>1. e \notin 1 .. n /\ e \notin 1 .. m
    BY <1>1, <1>2, <1>7
  <2>2. e = n + 1 /\ e = m + 1
    BY <1>1, <1>2, <1>6, <2>1
  <2>3. n = m
    BY <1>1, <1>2, <2>2
  <2>4. ASSUME NEW i \in 1 .. n PROVE h.key[f[a][i]] = h.key[f[b][i]]
    <3>1. ~ (e <= i) /\ i \in Turns /\ i \in 1 .. m
      BY <1>1, <1>6, <2>2, <2>3
    <3>2. i \in Turns \ S
      BY <1>5, <3>1
    <3>3. h.key[p[i]] = h.key[q[i]]
      BY <1>3, <3>2
    <3> QED BY <1>1, <1>2, <3>1, <3>3
  <2> QED BY <2>3, <2>4
<1>8. ASSUME n = m, \A i \in 1 .. n : h.key[f[a][i]] = h.key[f[b][i]]
      PROVE  p[e] = a /\ q[e] = b
  <2>1. e \notin 1 .. n
    <3> SUFFICES ASSUME e \in 1 .. n PROVE FALSE
      OBVIOUS
    <3>1. e \in 1 .. m
      BY <1>8
    <3>2. p[e] = f[a][e] /\ p[e] # a /\ q[e] = f[b][e] /\ q[e] # b
      BY <1>1, <1>2, <3>1
    <3>3. h.key[p[e]] = h.key[q[e]]
      BY <1>8, <3>2
    <3> QED BY <1>3, <1>5, <3>2, <3>3
  <2>2. e = n + 1 /\ e = m + 1
    BY <1>1, <1>6, <1>8, <2>1
  <2> QED BY <1>1, <1>2, <2>2
<1> QED BY <1>4, <1>7, <1>8 DEF n, m

LEMMA QueriesFollow == ASSUME RingsInv PROVE QueriesAgree
<1>1. PICK f \in [Heads -> Seq(Items)] : Links(heap, f)
  BY DEF RingsInv
<1>2. \A n \in Nodes : heap.prev[heap.next[n]] = n /\ heap.next[heap.prev[n]] = n
  BY <1>1 DEF Links, Paired
<1>3. \A l \in Heads : ListOf(heap, l) = f[l] /\ DOMAIN f[l] = 1 .. Len(f[l])
  <2>1. \A l \in Heads : f[l] \in Seq(Items)
    BY <1>1
  <2>2. \A l \in Heads : DOMAIN f[l] = 1 .. Len(f[l])
    BY <2>1
  <2> QED BY <1>1, <2>2, ListOfIs
<1> DEFINE KeysIn(l) == [i \in DOMAIN ListOf(heap, l) |-> heap.key[ListOf(heap, l)[i]]]
<1>4. ASSUME NEW l \in Heads
      PROVE  /\ is_rlist_empty(heap, l) <=> ListOf(heap, l) = << >>
             /\ rlist_len(heap, l) = Len(ListOf(heap, l))
             /\ \A m \in Heads : rlist_equal(heap, l, m) <=> KeysIn(l) = KeysIn(m)
             /\ \A k \in Keys :
                  IF rlist_find(heap, l, k, l) = l THEN \A i \in DOMAIN ListOf(heap, l) : heap.key[ListOf(heap, l)[i]] # k
                  ELSE \E i \in DOMAIN ListOf(heap, l) :
                         /\ ListOf(heap, l)[i] = rlist_find(heap, l, k, l) /\ heap.key[rlist_find(heap, l, k, l)] = k
                         /\ \A x \in 1 .. i - 1 : heap.key[ListOf(heap, l)[x]] # k
  <2>1. is_rlist_empty(heap, l) <=> ListOf(heap, l) = << >>
    BY <1>1, <1>3, EmptyIs
  <2>2. rlist_len(heap, l) = Len(ListOf(heap, l))
    BY <1>1, <1>3, LenIs
  <2>3. ASSUME NEW m \in Heads PROVE rlist_equal(heap, l, m) <=> KeysIn(l) = KeysIn(m)
    <3> DEFINE kl == [i \in 1 .. Len(f[l]) |-> heap.key[f[l][i]]]
               km == [i \in 1 .. Len(f[m]) |-> heap.key[f[m][i]]]
    <3>1. KeysIn(l) = kl /\ KeysIn(m) = km
      BY <1>3
    <3>2. rlist_equal(heap, l, m) <=> /\ Len(f[l]) = Len(f[m])
                                      /\ \A i \in 1 .. Len(f[l]) : heap.key[f[l][i]] = heap.key[f[m][i]]
      BY <1>1, EqualIs
    <3>3. f[l] \in Seq(Items) /\ f[m] \in Seq(Items) /\ Len(f[l]) \in Nat /\ Len(f[m]) \in Nat
      BY <1>1
    <3>4. ASSUME kl = km
          PROVE  Len(f[l]) = Len(f[m]) /\ \A i \in 1 .. Len(f[l]) : heap.key[f[l][i]] = heap.key[f[m][i]]
      <4>1. DOMAIN kl = DOMAIN km /\ DOMAIN kl = 1 .. Len(f[l]) /\ DOMAIN km = 1 .. Len(f[m])
        BY <3>4
      <4>2. 1 .. Len(f[l]) = 1 .. Len(f[m])
        BY <4>1
      <4>3. Len(f[l]) = Len(f[m])
        <5> DEFINE x == Len(f[l])
                   y == Len(f[m])
        <5>1. x \in Nat /\ y \in Nat /\ 1 .. x = 1 .. y
          BY <3>3, <4>2
        <5> HIDE DEF x, y
        <5>2. x = y
          BY <5>1
        <5> QED BY <5>2 DEF x, y
      <4>4. \A i \in 1 .. Len(f[l]) : kl[i] = km[i]
        BY <3>4
      <4> QED BY <4>3, <4>4
    <3>5. ASSUME Len(f[l]) = Len(f[m]), \A i \in 1 .. Len(f[l]) : heap.key[f[l][i]] = heap.key[f[m][i]]
          PROVE  kl = km
      BY <3>5
    <3> QED BY <3>1, <3>2, <3>4, <3>5
  <2>4. ASSUME NEW k \in Keys
        PROVE  IF rlist_find(heap, l, k, l) = l THEN \A i \in DOMAIN ListOf(heap, l) : heap.key[ListOf(heap, l)[i]] # k
               ELSE \E i \in DOMAIN ListOf(heap, l) :
                      /\ ListOf(heap, l)[i] = rlist_find(heap, l, k, l) /\ heap.key[rlist_find(heap, l, k, l)] = k
                      /\ \A x \in 1 .. i - 1 : heap.key[ListOf(heap, l)[x]] # k
    <3> DEFINE r == rlist_find(heap, l, k, l)
               s == f[l]
    <3>1. \/ r = l /\ \A i \in 1 .. Len(s) : heap.key[s[i]] # k
          \/ \E i \in 1 .. Len(s) : /\ r = s[i] /\ s[i] # l /\ heap.key[s[i]] = k
                                    /\ \A m \in 1 .. i - 1 : heap.key[s[m]] # k
      BY <1>1, FindIs
    <3>2. ListOf(heap, l) = s /\ DOMAIN s = 1 .. Len(s)
      BY <1>3
    <3> HIDE DEF r, s
    <3>3. IF r = l THEN \A i \in DOMAIN s : heap.key[s[i]] # k
          ELSE \E i \in DOMAIN s : /\ s[i] = r /\ heap.key[r] = k
                                   /\ \A x \in 1 .. i - 1 : heap.key[s[x]] # k
      BY <3>1, <3>2
    <3> QED BY <3>2, <3>3 DEF r
  <2> QED BY <2>1, <2>2, <2>3, <2>4
<1> QED BY <1>2, <1>4 DEF QueriesAgree

-----------------------------------------------------------------------------
(* The rings implement the sequences of module Lists.                      *)
LEMMA ListsAre ==
    ASSUME NEW h, NEW f, Links(h, f)
    PROVE  [l \in Heads |-> ListOf(h, l)] = f
<1>1. f \in [Heads -> Seq(Items)] /\ \A l \in Heads : ListOf(h, l) = f[l]
  BY ListOfIs DEF Links, Strung
<1> QED BY <1>1

(* The same functions of sequences, seen from module Lists.                *)
LEMMA SameOperators ==
    /\ \A s, i, e : Promised!InsertAt(s, i, e) = InsertAt(s, i, e)
    /\ \A s, i : Promised!RemoveAt(s, i) = RemoveAt(s, i)
    /\ \A s : Promised!Reverse(s) = Reverse(s)
BY DEF Promised!InsertAt, InsertAt, Promised!RemoveAt, RemoveAt, Promised!Reverse, Reverse

LEMMA FrontInsert ==
    ASSUME NEW d \in Seq(Items), NEW x \in Items
    PROVE  InsertAt(d, 1, x) = <<x>> \o d
<1> DEFINE q == InsertAt(d, 1, x)
           r == <<x>> \o d
<1>1. Len(d) \in Nat /\ 1 \in 1 .. Len(d) + 1
  OBVIOUS
<1>2. /\ q \in Seq(Items) /\ Len(q) = Len(d) + 1
      /\ \A i \in 1 .. Len(d) + 1 : q[i] = IF i < 1 THEN d[i] ELSE IF i = 1 THEN x ELSE d[i - 1]
  BY <1>1, InsertAtProperties
<1>3. /\ r \in Seq(Items) /\ Len(r) = Len(d) + 1
      /\ \A i \in 1 .. Len(d) + 1 : r[i] = IF i = 1 THEN x ELSE d[i - 1]
  <2> DEFINE o == <<x>>
  <2>1. o \in Seq(Items) /\ Len(o) = 1 /\ o[1] = x
    OBVIOUS
  <2> HIDE DEF o
  <2>2. /\ o \o d \in Seq(Items) /\ Len(o \o d) = 1 + Len(d)
        /\ \A i \in 1 .. 1 + Len(d) : (o \o d)[i] = IF i <= 1 THEN o[i] ELSE d[i - 1]
    <3>1. /\ o \o d \in Seq(Items) /\ Len(o \o d) = Len(o) + Len(d)
          /\ \A i \in 1 .. Len(o) + Len(d) : (o \o d)[i] = IF i <= Len(o) THEN o[i] ELSE d[i - Len(o)]
      BY <2>1, ConcatProperties
    <3> QED BY <2>1, <3>1
  <2>3. r = o \o d
    BY DEF o
  <2> HIDE DEF r
  <2> QED BY <1>1, <2>1, <2>2, <2>3
<1> HIDE DEF q, r
<1>4. \A i \in 1 .. Len(q) : q[i] = r[i]
  BY <1>1, <1>2, <1>3
<1>5. q = r
  BY <1>2, <1>3, <1>4, SeqEqual
<1> QED BY <1>5 DEF q, r

LEMMA FrontRemove ==
    ASSUME NEW d \in Seq(Items), d # << >>
    PROVE  RemoveAt(d, 1) = Tail(d)
<1>1. Len(d) \in Nat /\ Len(d) # 0
  OBVIOUS
<1>2. 1 \in 1 .. Len(d)
  BY <1>1
<1>3. /\ RemoveAt(d, 1) \in Seq(Items) /\ Len(RemoveAt(d, 1)) = Len(d) - 1
      /\ \A i \in 1 .. Len(d) - 1 : RemoveAt(d, 1)[i] = IF i < 1 THEN d[i] ELSE d[i + 1]
  BY <1>2, RemoveAtProperties
<1>4. Tail(d) \in Seq(Items) /\ Len(Tail(d)) = Len(d) - 1 /\ \A i \in 1 .. Len(d) - 1 : Tail(d)[i] = d[i + 1]
  BY <1>1
<1> DEFINE q == RemoveAt(d, 1)
           r == Tail(d)
<1> HIDE DEF q, r
<1>5. Len(q) = Len(r) /\ \A i \in 1 .. Len(q) : q[i] = r[i]
  BY <1>1, <1>3, <1>4 DEF q, r
<1>6. q = r
  BY <1>3, <1>4, <1>5, SeqEqual DEF q, r
<1> QED BY <1>6 DEF q, r

LEMMA LooseIs ==
    ASSUME NEW f, Links(heap, f), NEW n \in Items, Alone(n)
    PROVE  Promised!Loose(n)
<1>1. f \in [Heads -> Seq(Items)] /\ Strung(heap.next, f) /\ heap.next[n] = n
  BY DEF Links, Strung, Alone, is_rlist_empty
<1>2. [l \in Heads |-> ListOf(heap, l)] = f
  BY ListsAre
<1>3. ASSUME NEW l \in Heads, NEW i \in DOMAIN f[l] PROVE f[l][i] # n
  <2>1. i \in 1 .. Len(f[l]) /\ i \in 0 .. Len(f[l])
    <3>1. f[l] \in Seq(Items)
      BY <1>1
    <3> QED BY <3>1
  <2>2. Stop(l, f[l], i) # n
    BY <1>1, <2>1, AloneIsLoose
  <2> QED BY <1>1, <2>1, <2>2, StopType
<1> QED BY <1>2, <1>3 DEF Promised!Loose, Promised!Members

LEMMA PushFrontSim ==
    ASSUME NEW f, Links(heap, f), NEW l \in Heads, NEW n \in Items, Alone(n),
           heap' = rlist_push_front(heap, l, n)
    PROVE  (\E g : Links(heap', g)) /\ Promised!PushFront(l, n)
<1> DEFINE g == [f EXCEPT ![l] = InsertAt(f[l], 1, n)]
<1>1. Links(heap', g)
  BY PushFrontLinks DEF Alone
<1>2. [m \in Heads |-> ListOf(heap, m)] = f /\ [m \in Heads |-> ListOf(heap', m)] = g
  BY <1>1, ListsAre
<1>3. f[l] \in Seq(Items)
  BY DEF Links, Strung
<1>4. InsertAt(f[l], 1, n) = <<n>> \o f[l]
  BY <1>3, FrontInsert
<1>5. Promised!Loose(n)
  BY LooseIs
<1>6. Promised!Becomes(l, <<n>> \o f[l])
  BY <1>2, <1>4 DEF Promised!Becomes
<1>7. [m \in Heads |-> ListOf(heap, m)][l] = f[l]
  BY <1>2
<1> QED BY <1>1, <1>5, <1>6, <1>7 DEF Promised!PushFront

LEMMA PushBackSim ==
    ASSUME NEW f, Links(heap, f), NEW l \in Heads, NEW n \in Items, Alone(n),
           heap' = rlist_push_back(heap, l, n)
    PROVE  (\E g : Links(heap', g)) /\ Promised!PushBack(l, n)
<1> DEFINE g == [f EXCEPT ![l] = InsertAt(f[l], Len(f[l]) + 1, n)]
<1>1. Links(heap', g)
  BY PushBackLinks DEF Alone
<1>2. [m \in Heads |-> ListOf(heap, m)] = f /\ [m \in Heads |-> ListOf(heap', m)] = g
  BY <1>1, ListsAre
<1>3. f[l] \in Seq(Items)
  BY DEF Links, Strung
<1>4. InsertAt(f[l], Len(f[l]) + 1, n) = Append(f[l], n)
  <2> DEFINE d == f[l]
  <2>1. d \in Seq(Items)
    BY <1>3
  <2> HIDE DEF d
  <2>2. InsertAt(d, Len(d) + 1, n) = d \o <<n>>
    BY <2>1, EndInsert
  <2>3. Append(d, n) = d \o <<n>>
    BY <2>1
  <2> QED BY <2>2, <2>3 DEF d
<1>5. Promised!Loose(n)
  BY LooseIs
<1>6. Promised!Becomes(l, Append(f[l], n))
  BY <1>2, <1>4 DEF Promised!Becomes
<1>7. [m \in Heads |-> ListOf(heap, m)][l] = f[l]
  BY <1>2
<1> QED BY <1>1, <1>5, <1>6, <1>7 DEF Promised!PushBack

LEMMA PopFrontSim ==
    ASSUME NEW f, Links(heap, f), NEW l \in Heads, ~ is_rlist_empty(heap, l),
           heap' = rlist_pop_front(heap, l)
    PROVE  (\E g : Links(heap', g)) /\ Promised!PopFront(l)
<1> DEFINE g == [f EXCEPT ![l] = RemoveAt(f[l], 1)]
<1>1. Links(heap', g)
  BY PopFrontLinks
<1>2. [m \in Heads |-> ListOf(heap, m)] = f /\ [m \in Heads |-> ListOf(heap', m)] = g
  BY <1>1, ListsAre
<1>3. f[l] \in Seq(Items) /\ f[l] # << >>
  BY EmptyIs DEF Links, Strung
<1>4. RemoveAt(f[l], 1) = Tail(f[l])
  BY <1>3, FrontRemove
<1>5. Promised!Becomes(l, Tail(f[l]))
  BY <1>2, <1>4 DEF Promised!Becomes
<1>6. [m \in Heads |-> ListOf(heap, m)][l] = f[l]
  BY <1>2
<1> QED BY <1>1, <1>3, <1>5, <1>6 DEF Promised!PopFront

LEMMA ReverseSim ==
    ASSUME NEW f, Links(heap, f), NEW l \in Heads, heap' = rlist_reverse(heap, l)
    PROVE  (\E g : Links(heap', g)) /\ Promised!Turn(l)
<1> DEFINE g == [f EXCEPT ![l] = Reverse(f[l])]
<1>1. Links(heap', g)
  BY ReverseLinks
<1>2. [m \in Heads |-> ListOf(heap, m)] = f /\ [m \in Heads |-> ListOf(heap', m)] = g
  BY <1>1, ListsAre
<1>3. Promised!Becomes(l, Promised!Reverse(f[l]))
  BY <1>2, SameOperators DEF Promised!Becomes
<1>4. [m \in Heads |-> ListOf(heap, m)][l] = f[l]
  BY <1>2
<1> QED BY <1>1, <1>3, <1>4 DEF Promised!Turn

LEMMA AppendSim ==
    ASSUME NEW f, Links(heap, f), NEW l \in Heads, NEW src \in Heads \ {l},
           heap' = rlist_append(heap, l, src)
    PROVE  (\E g : Links(heap', g)) /\ Promised!AppendAll(l, src)
<1> DEFINE g == [f EXCEPT ![l] = f[l] \o f[src], ![src] = << >>]
<1>1. Links(heap', g) /\ f \in [Heads -> Seq(Items)]
  BY AppendLinks DEF Links, Strung
<1>2. [m \in Heads |-> ListOf(heap, m)] = f /\ [m \in Heads |-> ListOf(heap', m)] = g
  BY <1>1, ListsAre
<1>3. [m \in Heads |-> ListOf(heap', m)] = [f EXCEPT ![l] = @ \o f[src], ![src] = << >>]
  BY <1>1, <1>2
<1> QED BY <1>1, <1>2, <1>3 DEF Promised!AppendAll

LEMMA PrependSim ==
    ASSUME NEW f, Links(heap, f), NEW l \in Heads, NEW src \in Heads \ {l},
           heap' = rlist_prepend(heap, l, src)
    PROVE  (\E g : Links(heap', g)) /\ Promised!PrependAll(l, src)
<1> DEFINE g == [f EXCEPT ![l] = f[src] \o f[l], ![src] = << >>]
<1>1. Links(heap', g) /\ f \in [Heads -> Seq(Items)]
  BY PrependLinks DEF Links, Strung
<1>2. [m \in Heads |-> ListOf(heap, m)] = f /\ [m \in Heads |-> ListOf(heap', m)] = g
  BY <1>1, ListsAre
<1>3. [m \in Heads |-> ListOf(heap', m)] = [f EXCEPT ![l] = f[src] \o @, ![src] = << >>]
  BY <1>1, <1>2
<1> QED BY <1>1, <1>2, <1>3 DEF Promised!PrependAll

LEMMA SelectSim ==
    ASSUME NEW f, Links(heap, f), NEW l \in Heads, NEW src \in Heads \ {l}, NEW C \in SUBSET Items,
           heap' = rlist_select(heap, src, l, C)
    PROVE  (\E g : Links(heap', g)) /\ Promised!Move(src, l, C)
<1> DEFINE u == Promised!Those(f[src], C)
           v == Promised!Those(f[src], Items \ C)
           g == [f EXCEPT ![l] = f[l] \o u, ![src] = v]
<1>1. Links(heap', g) /\ f \in [Heads -> Seq(Items)]
  BY SelectLinks DEF Links, Strung
<1>2. [m \in Heads |-> ListOf(heap, m)] = f /\ [m \in Heads |-> ListOf(heap', m)] = g
  BY <1>1, ListsAre
<1>3. [m \in Heads |-> ListOf(heap', m)]
        = [f EXCEPT ![l] = @ \o Promised!Those(f[src], C), ![src] = Promised!Those(@, Items \ C)]
  <2> HIDE DEF u, v
  <2>1. [f EXCEPT ![l] = @ \o u, ![src] = v] = g
    BY <1>1
  <2> QED BY <1>1, <1>2, <2>1 DEF u, v
<1> QED BY <1>1, <1>2, <1>3 DEF Promised!Move

(* A node is in one list, at one place, or in none.                        *)
LEMMA PlaceIs ==
    ASSUME NEW f, Links(heap, f), NEW n \in Items
    PROVE  \/ Orphan(f, n) /\ \A l \in Heads : n \notin Promised!Members(l)
           \/ \E l \in Heads, k \in 1 .. Cardinality(Items) :
                /\ k \in 1 .. Len(f[l]) /\ f[l][k] = n
                /\ Promised!Place(l, n) = k /\ n \in Promised!Members(l)
                /\ \A m \in Heads \ {l} : n \notin Promised!Members(m)
<1>1. f \in [Heads -> Seq(Items)] /\ Apart(f)
  BY DEF Links, Strung
<1>2. [m \in Heads |-> ListOf(heap, m)] = f
  BY ListsAre
<1>3. \A l \in Heads : /\ DOMAIN f[l] = 1 .. Len(f[l])
                       /\ Promised!Members(l) = {f[l][i] : i \in DOMAIN f[l]}
                       /\ Promised!Place(l, n) = CHOOSE i \in DOMAIN f[l] : f[l][i] = n
  <2> TAKE l \in Heads
  <2>1. f[l] \in Seq(Items)
    BY <1>1
  <2>2. DOMAIN f[l] = 1 .. Len(f[l])
    BY <2>1
  <2>3. Promised!Members(l) = {f[l][i] : i \in DOMAIN f[l]}
    BY <1>2 DEF Promised!Members
  <2>4. Promised!Place(l, n) = CHOOSE i \in DOMAIN f[l] : f[l][i] = n
    BY <1>2 DEF Promised!Place
  <2> QED BY <2>2, <2>3, <2>4
<1>4. CASE \A l \in Heads : \A i \in 1 .. Len(f[l]) : f[l][i] # n
  <2>1. \A l \in Heads : n \notin Promised!Members(l)
    BY <1>3, <1>4
  <2>2. ASSUME NEW m \in Heads, NEW i \in 0 .. Len(f[m]) PROVE Stop(m, f[m], i) # n
    <3>1. i = 0 \/ i \in 1 .. Len(f[m])
      <4>1. Len(f[m]) \in Nat
        BY <1>1, StopType
      <4> QED BY <4>1
    <3>2. m # n
      BY NodesAssumption
    <3> QED BY <1>1, <1>4, <3>1, <3>2, StopType
  <2> QED BY <2>1, <2>2 DEF Orphan
<1>5. ASSUME NEW l \in Heads, NEW k \in 1 .. Len(f[l]), f[l][k] = n
      PROVE  /\ Promised!Place(l, n) = k /\ n \in Promised!Members(l)
             /\ \A m \in Heads \ {l} : n \notin Promised!Members(m)
             /\ k \in 1 .. Cardinality(Items)
  <2>1. \A i \in DOMAIN f[l] : f[l][i] = n => i = k
    BY <1>1, <1>3, <1>5 DEF Apart
  <2>2. k \in DOMAIN f[l]
    BY <1>3
  <2>3. Promised!Place(l, n) = k
    BY <1>3, <1>5, <2>1, <2>2
  <2>4. n \in Promised!Members(l)
    BY <1>3, <1>5, <2>2
  <2>5. \A m \in Heads \ {l} : n \notin Promised!Members(m)
    <3> SUFFICES ASSUME NEW m \in Heads \ {l}, NEW i \in DOMAIN f[m], f[m][i] = n PROVE FALSE
      BY <1>3
    <3>1. i \in 1 .. Len(f[m])
      BY <1>3
    <3> QED BY <1>1, <1>5, <3>1 DEF Apart
  <2>6. k \in 1 .. Cardinality(Items)
    <3>1. Len(f[l]) <= Cardinality(Items) /\ Len(f[l]) \in Nat /\ Cardinality(Items) \in Nat
      BY <1>1, RingFits, StopType, NodesAssumption, FS_CardinalityType
    <3> QED BY <3>1
  <2> QED BY <2>3, <2>4, <2>5, <2>6
<1>6. CASE ~ \A l \in Heads : \A i \in 1 .. Len(f[l]) : f[l][i] # n
  <2>1. PICK l \in Heads : \E k \in 1 .. Len(f[l]) : f[l][k] = n
    BY <1>6
  <2>2. PICK k \in 1 .. Len(f[l]) : f[l][k] = n
    BY <2>1
  <2> QED BY <1>5, <2>2
<1> QED BY <1>4, <1>6

LEMMA DeleteSim ==
    ASSUME NEW f, Links(heap, f), NEW n \in Items, heap' = rlist_remove(heap, n)
    PROVE  (\E g : Links(heap', g)) /\ Promised!Delete(n)
<1>1. f \in [Heads -> Seq(Items)] /\ [m \in Heads |-> ListOf(heap, m)] = f
  BY ListsAre DEF Links, Strung
<1>2. CASE Orphan(f, n) /\ \A l \in Heads : n \notin Promised!Members(l)
  <2>1. n \in Nodes /\ heap.prev[n] \in Nodes /\ Orphan(f, heap.prev[n])
    BY <1>2, OrphanPrev DEF Nodes
  <2>2. Links(heap', f)
    BY <1>2, <2>1, OrphanLinks DEF rlist_remove
  <2>3. [m \in Heads |-> ListOf(heap', m)] = f
    BY <2>2, ListsAre
  <2>4. Promised!Delete(n)
    BY <1>1, <1>2, <2>3 DEF Promised!Delete
  <2> QED BY <2>2, <2>4
<1>3. ASSUME NEW l \in Heads, NEW k \in 1 .. Len(f[l]), f[l][k] = n,
             Promised!Place(l, n) = k, n \in Promised!Members(l),
             \A m \in Heads \ {l} : n \notin Promised!Members(m)
      PROVE  (\E g : Links(heap', g)) /\ Promised!Delete(n)
  <2> DEFINE g == [f EXCEPT ![l] = RemoveAt(f[l], k)]
  <2>1. Links(heap', g)
    BY <1>3, RemoveLinks
  <2>2. [m \in Heads |-> ListOf(heap', m)] = g
    BY <2>1, ListsAre
  <2>3. g = [m \in Heads |-> IF n \in Promised!Members(m) THEN Promised!RemoveAt(f[m], Promised!Place(m, n)) ELSE f[m]]
    BY <1>1, <1>3, SameOperators
  <2> HIDE DEF g
  <2>4. Promised!Delete(n)
    BY <1>1, <2>2, <2>3 DEF Promised!Delete
  <2> QED BY <2>1, <2>4
<1> QED BY <1>2, <1>3, PlaceIs

LEMMA SpliceSim ==
    ASSUME NEW f, Links(heap, f), NEW n \in Items, NEW m \in Items \ {n}, Alone(n),
           heap' = rl_splice(heap, heap.prev[m], n)
    PROVE  (\E g : Links(heap', g)) /\ Promised!InsertBefore(m, n)
<1>1. f \in [Heads -> Seq(Items)] /\ [l \in Heads |-> ListOf(heap, l)] = f
  BY ListsAre DEF Links, Strung
<1>2. Promised!Loose(n)
  BY LooseIs
<1>3. Orphan(f, n) /\ n \in Nodes
  BY AloneIsLoose DEF Orphan, Links, Alone, is_rlist_empty, Nodes
<1>4. CASE Orphan(f, m) /\ \A l \in Heads : m \notin Promised!Members(l)
  <2>1. heap.prev[m] \in Nodes /\ Orphan(f, heap.prev[m])
    BY <1>4, OrphanPrev
  <2>2. Links(heap', f)
    BY <1>3, <2>1, OrphanLinks
  <2>3. [l \in Heads |-> ListOf(heap', l)] = f
    BY <2>2, ListsAre
  <2>4. Promised!InsertBefore(m, n)
    BY <1>1, <1>2, <1>4, <2>3 DEF Promised!InsertBefore
  <2> QED BY <2>2, <2>4
<1>5. ASSUME NEW l \in Heads, NEW k \in 1 .. Len(f[l]), f[l][k] = m,
             Promised!Place(l, m) = k, m \in Promised!Members(l),
             \A x \in Heads \ {l} : m \notin Promised!Members(x)
      PROVE  (\E g : Links(heap', g)) /\ Promised!InsertBefore(m, n)
  <2> DEFINE g == [f EXCEPT ![l] = InsertAt(f[l], k, n)]
  <2>1. Links(heap', g)
    BY <1>5, SpliceBeforeLinks DEF Alone
  <2>2. [x \in Heads |-> ListOf(heap', x)] = g
    BY <2>1, ListsAre
  <2>3. g = [x \in Heads |-> IF m \in Promised!Members(x) THEN Promised!InsertAt(f[x], Promised!Place(x, m), n) ELSE f[x]]
    BY <1>1, <1>5, SameOperators
  <2> HIDE DEF g
  <2>4. Promised!InsertBefore(m, n)
    BY <1>1, <1>2, <2>2, <2>3 DEF Promised!InsertBefore
  <2> QED BY <2>1, <2>4
<1> QED BY <1>4, <1>5, PlaceIs

LEMMA RenewSim ==
    ASSUME NEW f, Links(heap, f), NEW n \in Items, Alone(n), NEW k \in Keys,
           heap' = rlnode_init(heap, n, k)
    PROVE  (\E g : Links(heap', g)) /\ Promised!Renew(n)
<1>1. Links(heap', f)
  BY InitLinks DEF Alone
<1>2. [l \in Heads |-> ListOf(heap, l)] = f /\ [l \in Heads |-> ListOf(heap', l)] = f
  BY <1>1, ListsAre
<1>3. Promised!Loose(n)
  BY LooseIs
<1> QED BY <1>1, <1>2, <1>3 DEF Promised!Renew

LEMMA NextRings == ASSUME RingsInv, [Next]_vars PROVE RingsInv' /\ [Promised!Next]_Promised!vars
<1>1. PICK f \in [Heads -> Seq(Items)] : Links(heap, f)
  BY DEF RingsInv
<1>2. ASSUME NEW g, Links(heap', g) PROVE RingsInv'
  <2>1. g \in [Heads -> Seq(Items)]
    BY <1>2 DEF Links, Strung
  <2> QED BY <1>2, <2>1 DEF RingsInv
<1>3. CASE UNCHANGED vars
  <2>1. heap' = heap /\ call' = call
    BY <1>3 DEF vars
  <2>2. Links(heap', f)
    BY <1>1, <2>1
  <2> QED BY <1>2, <2>1, <2>2 DEF Promised!vars
<1>4. ASSUME NEW l \in Heads, ListCall(l) PROVE RingsInv' /\ Promised!Next
  <2>1. CASE ~ is_rlist_empty(heap, l) /\ Does(<<"pop_front", l>>, rlist_pop_front(heap, l))
    BY <1>1, <1>2, <2>1, PopFrontSim DEF Does, Promised!Next
  <2>2. CASE Does(<<"reverse", l>>, rlist_reverse(heap, l))
    BY <1>1, <1>2, <2>2, ReverseSim DEF Does, Promised!Next
  <2> QED BY <1>4, <2>1, <2>2 DEF ListCall
<1>5. ASSUME NEW l \in Heads, NEW n \in Items, PushCall(l, n) PROVE RingsInv' /\ Promised!Next
  <2>0. Alone(n)
    BY <1>5 DEF PushCall
  <2>1. CASE Does(<<"push_front", l, n>>, rlist_push_front(heap, l, n))
    BY <1>1, <1>2, <2>0, <2>1, PushFrontSim DEF Does, Promised!Next
  <2>2. CASE Does(<<"push_back", l, n>>, rlist_push_back(heap, l, n))
    BY <1>1, <1>2, <2>0, <2>2, PushBackSim DEF Does, Promised!Next
  <2> QED BY <1>5, <2>1, <2>2 DEF PushCall
<1>6. ASSUME NEW l \in Heads, NEW src \in Heads \ {l}, MoveCall(src, l) PROVE RingsInv' /\ Promised!Next
  <2>1. CASE Does(<<"append", l, src>>, rlist_append(heap, l, src))
    BY <1>1, <1>2, <2>1, AppendSim DEF Does, Promised!Next
  <2>2. CASE Does(<<"prepend", l, src>>, rlist_prepend(heap, l, src))
    BY <1>1, <1>2, <2>2, PrependSim DEF Does, Promised!Next
  <2>3. ASSUME NEW C \in SUBSET Items, Does(<<"select", src, l, C>>, rlist_select(heap, src, l, C))
        PROVE  RingsInv' /\ Promised!Next
    BY <1>1, <1>2, <2>3, SelectSim DEF Does, Promised!Next
  <2>4. \A k \in Keys : WithKey(k) \in SUBSET Items
    BY DEF WithKey
  <2> QED BY <1>6, <2>1, <2>2, <2>3, <2>4 DEF MoveCall
<1>7. ASSUME NEW n \in Items, NodeCall(n) PROVE RingsInv' /\ Promised!Next
  <2>1. CASE Does(<<"remove", n>>, rlist_remove(heap, n))
    BY <1>1, <1>2, <2>1, DeleteSim DEF Does, Promised!Next
  <2>2. ASSUME NEW k \in Keys, Alone(n), Does(<<"init", n>>, rlnode_init(heap, n, k))
        PROVE  RingsInv' /\ Promised!Next
    BY <1>1, <1>2, <2>2, RenewSim DEF Does, Promised!Next
  <2>3. ASSUME NEW m \in Items \ {n}, Alone(n), Does(<<"splice", m, n>>, rl_splice(heap, heap.prev[m], n))
        PROVE  RingsInv' /\ Promised!Next
    BY <1>1, <1>2, <2>3, SpliceSim DEF Does, Promised!Next
  <2> QED BY <1>7, <2>1, <2>2, <2>3 DEF NodeCall
<1> QED BY <1>3, <1>4, <1>5, <1>6, <1>7 DEF Next

LEMMA InitRings == ASSUME Init PROVE RingsInv /\ Promised!Init
<1>1. PICK keys \in [Items -> Keys] : \E null \in Keys :
        heap = [next |-> [n \in Nodes |-> n], prev |-> [n \in Nodes |-> n],
                key |-> [n \in Nodes |-> IF n \in Items THEN keys[n] ELSE null]]
  BY DEF Init
<1>2. PICK null \in Keys :
        heap = [next |-> [n \in Nodes |-> n], prev |-> [n \in Nodes |-> n],
                key |-> [n \in Nodes |-> IF n \in Items THEN keys[n] ELSE null]]
  BY <1>1
<1> DEFINE f == [l \in Heads |-> << >>]
<1>3. heap \in Heaps /\ Paired(heap)
  BY <1>2 DEF Heaps, Paired
<1>4. f \in [Heads -> Seq(Items)] /\ \A l \in Heads : f[l] = << >> /\ Len(f[l]) = 0
  OBVIOUS
<1> HIDE DEF f
<1>5. Apart(f)
  BY <1>4 DEF Apart
<1>6. ASSUME NEW l \in Heads PROVE Chain(heap.next, l, f[l])
  <2>1. heap.next[l] = l
    BY <1>2 DEF Nodes
  <2>2. \A i \in 0 .. Len(f[l]) : i = 0
    BY <1>4
  <2>3. Stop(l, f[l], 0) = l /\ Stop(l, f[l], 0 + 1) = l
    BY <1>4 DEF Stop
  <2> QED BY <2>1, <2>2, <2>3 DEF Chain
<1>7. Links(heap, f)
  BY <1>3, <1>4, <1>5, <1>6 DEF Links, Strung, Heaps
<1>8. [l \in Heads |-> ListOf(heap, l)] = f
  BY <1>7, ListsAre
<1>9. Promised!Init
  BY <1>8 DEF Promised!Init, Init, f
<1> QED BY <1>4, <1>7, <1>9 DEF RingsInv

LEMMA StepRings == ASSUME RingsInv, [SupportNext]_allVars PROVE RingsInv' /\ [Promised!Next]_Promised!vars
<1>1. [Next]_vars
  BY DEF SupportNext, allVars, vars
<1> QED BY <1>1, NextRings

(* util.h: in every state of a client of the lists, the prev pointers are  *)
(* the opposite of the next pointers, and is_rlist_empty, rlist_len,       *)
(* rlist_equal and rlist_find answer what the sequences of items say.      *)
THEOREM QueriesDoAgree == SupportSpec => []QueriesAgree
<1>1. SupportInit => RingsInv
  BY InitRings DEF SupportInit
<1>2. RingsInv /\ [SupportNext]_allVars => RingsInv'
  BY StepRings
<1>3. RingsInv => QueriesAgree
  BY QueriesFollow
<1> QED BY <1>1, <1>2, <1>3, PTL DEF SupportSpec

(* util.h: the calls on rings of pointers are those on sequences of items: *)
(* module Rings implements module Lists, whatever the nodes and the keys.  *)
THEOREM RingsImplementLists == SupportSpec => ImplementsLists
<1>1. SupportInit => RingsInv /\ Promised!Init
  BY InitRings DEF SupportInit
<1>2. RingsInv /\ [SupportNext]_allVars => RingsInv'
  BY StepRings
<1>3. RingsInv /\ [SupportNext]_allVars => [Promised!Next]_Promised!vars
  BY StepRings
<1> QED BY <1>1, <1>2, <1>3, PTL DEF SupportSpec, ImplementsLists, Promised!Spec

(* The list that rlist_pop_back is called for loses all of its nodes, and  *)
(* the others keep theirs.                                                 *)
PopBackEmpties ==
    \A l \in Heads :
       /\ ListOf(rlist_pop_back(heap, l), l) = << >>
       /\ \A m \in Heads \ {l} : ListOf(rlist_pop_back(heap, l), m) = ListOf(heap, m)

(* util.h: rlist_pop_back empties a list of any length in every state of a *)
(* client, where the comment at util.h:447 promises the removal of its     *)
(* tail: right for a list of one node, wrong for every longer one.         *)
THEOREM PopBackIsWrong == SupportSpec => []PopBackEmpties
<1>1. RingsInv => PopBackEmpties
  <2> SUFFICES ASSUME NEW f, Links(heap, f), NEW l \in Heads
               PROVE  /\ ListOf(rlist_pop_back(heap, l), l) = << >>
                      /\ \A m \in Heads \ {l} :
                           ListOf(rlist_pop_back(heap, l), m) = ListOf(heap, m)
    BY DEF RingsInv, PopBackEmpties
  <2>1. f \in [Heads -> Seq(Items)]
    BY DEF Links, Strung
  <2>2. Links(rlist_pop_back(heap, l), [f EXCEPT ![l] = << >>])
    BY PopBackLinks
  <2>3. \A m \in Heads : ListOf(rlist_pop_back(heap, l), m) = [f EXCEPT ![l] = << >>][m]
    BY <2>2, ListOfIs
  <2>4. \A m \in Heads : ListOf(heap, m) = f[m]
    BY ListOfIs
  <2> QED BY <2>1, <2>3, <2>4
<1>2. SupportInit => RingsInv
  BY InitRings DEF SupportInit
<1>3. RingsInv /\ [SupportNext]_allVars => RingsInv'
  BY StepRings
<1> QED BY <1>1, <1>2, <1>3, PTL DEF SupportSpec

=============================================================================
