--------------------- MODULE NotificationCapture_proofs ---------------------
(* Proofs about the capture of notifications.                              *)
EXTENDS NotificationCapture, SequenceLemmas, TLAPS

-----------------------------------------------------------------------------
(* Sequences of notifications, as sets.                                    *)

LEMMA UnitSet == \A p : ToSet(<<p>>) = {p}
BY DEF ToSet

LEMMA EmptySet == ToSet(<<>>) = {}
BY DEF ToSet

LEMMA AppendSet ==
  ASSUME NEW S, NEW q \in Seq(S), NEW p \in S
  PROVE  Append(q, p) \in Seq(S) /\ ToSet(Append(q, p)) = ToSet(q) \cup {p}
<1> DEFINE a == Append(q, p)
<1>1. /\ a \in Seq(S) /\ DOMAIN a = 1..(Len(q) + 1) /\ DOMAIN q = 1..Len(q)
      /\ \A i \in 1..Len(q) : a[i] = q[i]
      /\ a[Len(q) + 1] = p /\ Len(q) \in Nat
  BY AppendProperties
<1> HIDE DEF a
<1>2. ToSet(a) \subseteq ToSet(q) \cup {p}
  <2> SUFFICES ASSUME NEW i \in DOMAIN a PROVE a[i] \in ToSet(q) \cup {p}
    BY DEF ToSet
  <2>1. i \in 1..Len(q) \/ i = Len(q) + 1
    BY <1>1
  <2> QED BY <1>1, <2>1 DEF ToSet
<1>3. ToSet(q) \cup {p} \subseteq ToSet(a)
  <2>1. \A i \in 1..Len(q) : i \in DOMAIN a
    BY <1>1
  <2>2. Len(q) + 1 \in DOMAIN a
    BY <1>1
  <2> QED BY <1>1, <2>1, <2>2 DEF ToSet
<1> QED
  BY <1>1, <1>2, <1>3 DEF a

LEMMA TailSet ==
  ASSUME NEW S, NEW q \in Seq(S), q # <<>>
  PROVE  /\ Head(q) \in S /\ Tail(q) \in Seq(S)
         /\ ToSet(q) = {Head(q)} \cup ToSet(Tail(q))
<1> DEFINE t == Tail(q)
<1>1. /\ t \in Seq(S) /\ Len(q) \in Nat \ {0} /\ Len(t) = Len(q) - 1
      /\ DOMAIN t = 1..(Len(q) - 1) /\ DOMAIN q = 1..Len(q)
      /\ \A i \in 1..(Len(q) - 1) : t[i] = q[i + 1]
      /\ Head(q) = q[1] /\ q[1] \in S
  <2>1. q # <<>> => Len(q) # 0
    BY EmptySeq
  <2>2. Len(q) \in Nat \ {0}
    BY <2>1
  <2> QED BY <2>2, HeadTailProperties
<1> HIDE DEF t
<1>2. ToSet(q) \subseteq {q[1]} \cup ToSet(t)
  <2> SUFFICES ASSUME NEW i \in DOMAIN q PROVE q[i] \in {q[1]} \cup ToSet(t)
    BY DEF ToSet
  <2>1. i = 1 \/ (i - 1 \in 1..(Len(q) - 1) /\ (i - 1) + 1 = i)
    BY <1>1
  <2> QED BY <1>1, <2>1 DEF ToSet
<1>3. {q[1]} \cup ToSet(t) \subseteq ToSet(q)
  <2>1. 1 \in DOMAIN q /\ \A i \in DOMAIN t : i + 1 \in DOMAIN q
    BY <1>1
  <2> QED BY <1>1, <2>1 DEF ToSet
<1> QED
  BY <1>1, <1>2, <1>3 DEF t

-----------------------------------------------------------------------------
(* The inbox.                                                              *)

\* No two items of an inbox have one key.
Distinct(box) == \A i, j \in DOMAIN box : dedupKeyOf(box[i]) = dedupKeyOf(box[j]) => i = j

\* The oldest item of an inbox is there once.
LEMMA DistinctTail ==
  ASSUME NEW q \in Seq(Post), Distinct(q), q # <<>>
  PROVE  Distinct(Tail(q)) /\ Head(q) \notin ToSet(Tail(q))
<1> DEFINE t == Tail(q)
<1>1. /\ Len(q) \in Nat \ {0} /\ DOMAIN t = 1..(Len(q) - 1) /\ DOMAIN q = 1..Len(q)
      /\ \A i \in 1..(Len(q) - 1) : t[i] = q[i + 1]
      /\ Head(q) = q[1]
  <2>1. Len(q) \in Nat \ {0}
    BY EmptySeq
  <2> QED BY <2>1, HeadTailProperties
<1> HIDE DEF t
<1>2. 1 \in DOMAIN q /\ \A i \in DOMAIN t : i + 1 \in DOMAIN q /\ i + 1 # 1
  BY <1>1
<1>3. Distinct(t)
  <2> SUFFICES ASSUME NEW i \in DOMAIN t, NEW j \in DOMAIN t,
                      dedupKeyOf(t[i]) = dedupKeyOf(t[j])
               PROVE  i = j
    BY DEF Distinct
  <2>1. dedupKeyOf(q[i + 1]) = dedupKeyOf(q[j + 1])
    BY <1>1
  <2>2. i + 1 = j + 1
    BY <1>2, <2>1 DEF Distinct
  <2> QED BY <2>2, <1>1
<1>4. q[1] \notin ToSet(t)
  <2> SUFFICES ASSUME NEW i \in DOMAIN t, t[i] = q[1] PROVE FALSE
    BY DEF ToSet
  <2>1. dedupKeyOf(q[i + 1]) = dedupKeyOf(q[1])
    BY <1>1
  <2> QED BY <1>2, <2>1 DEF Distinct
<1> QED
  BY <1>1, <1>3, <1>4 DEF t

\* A key that is not in the box may be appended.
LEMMA DistinctAppend ==
  ASSUME NEW q \in Seq(Post), Distinct(q), NEW p \in Post,
         \A r \in ToSet(q) : dedupKeyOf(r) # dedupKeyOf(p)
  PROVE  Distinct(Append(q, p))
<1> DEFINE a == Append(q, p)
<1>1. /\ DOMAIN a = 1..(Len(q) + 1) /\ DOMAIN q = 1..Len(q)
      /\ \A i \in 1..Len(q) : a[i] = q[i]
      /\ a[Len(q) + 1] = p /\ Len(q) \in Nat
  BY AppendProperties
<1> HIDE DEF a
<1>2. \A i \in DOMAIN a : (i \in DOMAIN q /\ a[i] = q[i] /\ a[i] \in ToSet(q))
                          \/ (i = Len(q) + 1 /\ a[i] = p)
  BY <1>1 DEF ToSet
<1>3. Distinct(a)
  BY <1>2 DEF Distinct
<1> QED
  BY <1>3 DEF a

\* addPendingCapture keeps the keys apart, and adds nothing else.
LEMMA Added ==
  ASSUME NEW box \in Seq(Post), Distinct(box), NEW p \in Post
  PROVE  LET next == addPendingCapture(box, p) IN
         next \in Seq(Post) /\ Distinct(next) /\ ToSet(next) \subseteq ToSet(box) \cup {p}
<1>1. CASE InInbox(box, p)
  BY <1>1 DEF addPendingCapture
<1>2. CASE ~InInbox(box, p)
  <2>1. \A r \in ToSet(box) : dedupKeyOf(r) # dedupKeyOf(p)
    BY <1>2 DEF InInbox, ToSet
  <2>2. CASE Len(box) < MaxPending
    <3>1. addPendingCapture(box, p) = Append(box, p)
      BY <1>2, <2>2 DEF addPendingCapture
    <3> QED BY <2>1, <3>1, AppendSet, DistinctAppend
  <2>3. CASE ~(Len(box) < MaxPending)
    <3>1. addPendingCapture(box, p) = Append(Tail(box), p)
      BY <1>2, <2>3 DEF addPendingCapture
    <3>2. box # <<>>
      <4>1. Len(<<>>) = 0 /\ 0 < MaxPending
        BY CaptureAssumption DEF CaptureAssumption
      <4> QED BY <2>3, <4>1
    <3>3. /\ Tail(box) \in Seq(Post) /\ Distinct(Tail(box))
          /\ ToSet(Tail(box)) \subseteq ToSet(box)
      BY <3>2, TailSet, DistinctTail
    <3> DEFINE t == Tail(box)
    <3> HIDE DEF t
    <3>4. t \in Seq(Post) /\ Distinct(t) /\ ToSet(t) \subseteq ToSet(box)
      BY <3>3 DEF t
    <3>5. /\ Append(t, p) \in Seq(Post) /\ Distinct(Append(t, p))
          /\ ToSet(Append(t, p)) = ToSet(t) \cup {p}
      BY <2>1, <3>4, AppendSet, DistinctAppend
    <3>6. addPendingCapture(box, p) = Append(t, p)
      BY <3>1 DEF t
    <3> QED BY <3>4, <3>5, <3>6
  <2> QED BY <2>2, <2>3
<1> QED
  BY <1>1, <1>2

\* handleParsed's loop over what arrived: keys stay apart, nothing else comes
\* in, and nothing changes when nothing arrived.
LEMMA Gathered ==
  ASSUME NEW box \in Seq(Post), Distinct(box), NEW ps \in Seq(Post)
  PROVE  LET next == FoldLeft(addPendingCapture, box, ps) IN
         /\ next \in Seq(Post) /\ Distinct(next)
         /\ ToSet(next) \subseteq ToSet(box) \cup ToSet(ps)
         /\ ps = <<>> => next = box
<1> DEFINE D == DOMAIN ps
           W == {q \in Seq(Post) : Distinct(q) /\ ToSet(q) \subseteq ToSet(box) \cup ToSet(ps)}
           c == [s \in SUBSET D |-> Max(s)]
           V == [s \in SUBSET D |-> IF s = {} THEN {box} ELSE W]
           step == [s \in SUBSET D |-> [v \in W |-> addPendingCapture(v, ps[Max(s)])]]
<1>1. D = 1..Len(ps) /\ Len(ps) \in Nat /\ IsFiniteSet(D)
  BY FS_Interval
<1>2. Picks(c, D) /\ \A s \in SUBSET D : s # {} => Max(s) \in s
  BY <1>1, LargestOf DEF Picks
<1>3. box \in W /\ box \in V[{}] /\ V \in [SUBSET D -> SUBSET W]
  OBVIOUS
<1>4. ASSUME NEW s \in SUBSET D, s # {}, NEW v \in W
      PROVE  step[s][v] \in W
  <2>1. Max(s) \in D
    BY <1>2, <1>4
  <2>2. ps[Max(s)] \in Post /\ ps[Max(s)] \in ToSet(ps)
    BY <2>1, <1>1 DEF ToSet
  <2>3. LET next == addPendingCapture(v, ps[Max(s)]) IN
        next \in Seq(Post) /\ Distinct(next) /\ ToSet(next) \subseteq ToSet(v) \cup {ps[Max(s)]}
    BY <2>2, Added
  <2> HIDE DEF Distinct
  <2> QED BY <2>2, <2>3
<1>5. Keeps(V, step, c, D)
  <2> HIDE DEF W, step, c
  <2> QED BY <1>3, <1>4 DEF Keeps
<1>6. PICK h \in [SUBSET D -> W] :
        IsFold(h, box, step, V, c, D) /\ \A s \in SUBSET D : h[s] \in V[s]
  <2> HIDE DEF D, V, c, step, W
  <2> QED BY <1>1, <1>2, <1>3, <1>5, FoldExists
<1> DEFINE Body(f) == [s \in SUBSET D |-> IF s = {} THEN box
                                          ELSE addPendingCapture(f[s \ {Max(s)}], ps[Max(s)])]
           iter == CHOOSE f : f = Body(f)
<1>7. FoldLeft(addPendingCapture, box, ps) = iter[D]
  BY DEF FoldLeft, MapThenFoldSet
<1>8. h = Body(h)
  <2>1. ASSUME NEW s \in SUBSET D, s # {}
        PROVE  h[s] = addPendingCapture(h[s \ {Max(s)}], ps[Max(s)])
    <3>1. h[s] = step[s][h[s \ {c[s]}]] /\ s \ {c[s]} \in SUBSET D
      BY <1>6, <2>1 DEF IsFold
    <3>2. h[s \ {c[s]}] \in W
      BY <1>6, <3>1
    <3> QED BY <3>1, <3>2
  <2> HIDE DEF D, W, step, V, c
  <2> QED BY <1>6, <2>1 DEF IsFold
<1>9. iter = Body(iter)
  <2> HIDE DEF Body
  <2> QED BY <1>8
<1>10. IsFold(iter, box, step, V, c, D)
  <2>1. ASSUME NEW s \in SUBSET D
        PROVE iter[s] = IF s = {} THEN box ELSE addPendingCapture(iter[s \ {Max(s)}], ps[Max(s)])
    <3> HIDE DEF iter, D
    <3> QED BY <1>9
  <2>2. ASSUME NEW s \in SUBSET D, s # {}, iter[s \ {c[s]}] \in V[s \ {c[s]}]
        PROVE  iter[s] = step[s][iter[s \ {c[s]}]]
    <3>1. iter[s \ {c[s]}] \in W
      <4> HIDE DEF iter, D, W, c
      <4> QED BY <1>3, <2>2
    <3>2. iter[s] = addPendingCapture(iter[s \ {c[s]}], ps[Max(s)])
      <4> HIDE DEF iter, D
      <4> QED BY <2>1, <2>2
    <3> HIDE DEF iter, D, W
    <3> QED BY <2>2, <3>1, <3>2
  <2> HIDE DEF iter, D, V, step, c
  <2> QED BY <2>1, <2>2 DEF IsFold
<1>11. iter[D] \in W /\ (D = {} => iter[D] = box)
  <2>1. iter[D] \in V[D]
    <3> HIDE DEF iter, D, V, step, c
    <3> QED BY <1>1, <1>2, <1>3, <1>5, <1>10, FoldKeeps
  <2> HIDE DEF iter, D, W
  <2> QED BY <1>3, <2>1
<1>12. ps = <<>> => D = {}
  OBVIOUS
<1> HIDE DEF iter, D
<1> QED
  BY <1>7, <1>11, <1>12

\* removePendingCapture takes one item out and leaves the others.
LEMMA TakenOut ==
  ASSUME NEW box \in Seq(Post), Distinct(box), NEW p \in Post
  PROVE  LET left == removePendingCapture(box, p) IN
         left \in Seq(Post) /\ Distinct(left) /\ ToSet(left) = ToSet(box) \ {p}
<1> DEFINE D == DOMAIN box
           Of(s) == {box[i] : i \in s} \ {p}
           Kept(kept, q) == IF q = p THEN kept ELSE Append(kept, q)
           W == {q \in Seq(Post) : Distinct(q)}
           c == [s \in SUBSET D |-> Max(s)]
           V == [s \in SUBSET D |-> {q \in W : ToSet(q) = Of(s)}]
           step == [s \in SUBSET D |-> [v \in W |-> Kept(v, box[Max(s)])]]
<1>1. D = 1..Len(box) /\ Len(box) \in Nat /\ IsFiniteSet(D)
  BY FS_Interval
<1>2. Picks(c, D) /\ \A s \in SUBSET D : s # {} => Max(s) \in s
  BY <1>1, LargestOf DEF Picks
<1>3. <<>> \in V[{}] /\ V \in [SUBSET D -> SUBSET W]
  <2>1. <<>> \in Seq(Post) /\ Distinct(<<>>)
    BY DEF Distinct
  <2> QED BY <2>1, EmptySet
<1>4. ASSUME NEW s \in SUBSET D, s # {}, NEW v \in V[s \ {Max(s)}]
      PROVE  step[s][v] \in V[s]
  <2> DEFINE q == box[Max(s)]
  <2>1. Max(s) \in D /\ Max(s) \in s
    BY <1>2, <1>4
  <2>2. q \in Post
    BY <2>1, <1>1
  <2>3. v \in Seq(Post) /\ Distinct(v) /\ ToSet(v) = Of(s \ {Max(s)})
    BY <1>4
  <2>4. {box[i] : i \in s} = {box[i] : i \in s \ {Max(s)}} \cup {q}
    BY <2>1
  <2>5. CASE q = p
    <3>1. Of(s) = Of(s \ {Max(s)})
      BY <2>4, <2>5
    <3> HIDE DEF Of, q
    <3>2. step[s][v] = v
      BY <2>3, <2>5 DEF q
    <3> QED BY <2>3, <3>1, <3>2
  <2>6. CASE q # p
    <3>1. \A r \in ToSet(v) : dedupKeyOf(r) # dedupKeyOf(q)
      <4> SUFFICES ASSUME NEW i \in s \ {Max(s)}, dedupKeyOf(box[i]) = dedupKeyOf(q) PROVE FALSE
        BY <2>3
      <4> QED BY <2>1 DEF Distinct
    <3>2. /\ Append(v, q) \in Seq(Post) /\ ToSet(Append(v, q)) = ToSet(v) \cup {q}
          /\ Distinct(Append(v, q))
      <4> HIDE DEF q
      <4> QED BY <2>2, <2>3, <3>1, AppendSet, DistinctAppend
    <3>3. Of(s) = Of(s \ {Max(s)}) \cup {q}
      BY <2>4, <2>6
    <3>4. step[s][v] = Append(v, q)
      BY <2>3, <2>6
    <3> HIDE DEF Of, q, step
    <3> QED BY <2>3, <3>2, <3>3, <3>4
  <2> QED BY <2>5, <2>6
<1>5. Keeps(V, step, c, D)
  <2>1. \A s \in SUBSET D : c[s] = Max(s)
    OBVIOUS
  <2> HIDE DEF V, step, c
  <2> QED BY <1>4, <2>1 DEF Keeps
<1>6. PICK h \in [SUBSET D -> W] :
        IsFold(h, <<>>, step, V, c, D) /\ \A s \in SUBSET D : h[s] \in V[s]
  <2> HIDE DEF D, V, c, step, W
  <2> QED BY <1>1, <1>2, <1>3, <1>5, FoldExists
<1> DEFINE Body(f) == [s \in SUBSET D |-> IF s = {} THEN <<>>
                                          ELSE Kept(f[s \ {Max(s)}], box[Max(s)])]
           iter == CHOOSE f : f = Body(f)
<1>7. removePendingCapture(box, p) = iter[D]
  BY DEF removePendingCapture, FoldLeft, MapThenFoldSet
<1>8. h = Body(h)
  <2>1. ASSUME NEW s \in SUBSET D, s # {}
        PROVE  h[s] = Kept(h[s \ {Max(s)}], box[Max(s)])
    <3>1. c[s] = Max(s) /\ s \ {c[s]} \in SUBSET D
      BY <2>1
    <3>2. h[s \ {c[s]}] \in V[s \ {c[s]}] /\ h[s \ {c[s]}] \in W
      BY <1>6, <3>1
    <3>3. h[s] = step[s][h[s \ {c[s]}]]
      <4> HIDE DEF D, V, c, step, W
      <4> QED BY <1>6, <2>1, <3>2 DEF IsFold
    <3> HIDE DEF Kept, W
    <3> QED BY <3>1, <3>2, <3>3
  <2> HIDE DEF D, W, step, V, c, Kept
  <2> QED BY <1>6, <2>1 DEF IsFold
<1>9. iter = Body(iter)
  <2> HIDE DEF Body
  <2> QED BY <1>8
<1>10. IsFold(iter, <<>>, step, V, c, D)
  <2>1. ASSUME NEW s \in SUBSET D
        PROVE iter[s] = IF s = {} THEN <<>> ELSE Kept(iter[s \ {Max(s)}], box[Max(s)])
    <3> HIDE DEF iter, D, Kept
    <3> QED BY <1>9
  <2>2. ASSUME NEW s \in SUBSET D, s # {}, iter[s \ {c[s]}] \in V[s \ {c[s]}]
        PROVE  iter[s] = step[s][iter[s \ {c[s]}]]
    <3>1. iter[s \ {c[s]}] \in W
      <4>1. s \ {c[s]} \in SUBSET D
        OBVIOUS
      <4> HIDE DEF iter, D, W, c, Of
      <4> QED BY <2>2, <4>1
    <3>2. iter[s] = Kept(iter[s \ {c[s]}], box[Max(s)])
      <4> HIDE DEF iter, D, Kept
      <4> QED BY <2>1, <2>2
    <3> HIDE DEF iter, D, W, Kept
    <3> QED BY <2>2, <3>1, <3>2
  <2> HIDE DEF iter, D, V, step, c
  <2> QED BY <2>1, <2>2 DEF IsFold
<1>11. iter[D] \in V[D]
  <2> HIDE DEF iter, D, V, step, c
  <2> QED BY <1>1, <1>2, <1>3, <1>5, <1>10, FoldKeeps
<1>12. Of(D) = ToSet(box) \ {p}
  BY DEF ToSet
<1> HIDE DEF iter, D, Of
<1> QED
  BY <1>7, <1>11, <1>12

-----------------------------------------------------------------------------
(* The durable queue.                                                      *)

\* enqueue drops entries and adds none but its own.
LEMMA OthersKept ==
  ASSUME NEW items \in Seq(Post), NEW p \in Post
  PROVE  OthersOf(items, p) \in Seq(Post) /\ ToSet(OthersOf(items, p)) \subseteq ToSet(items)
<1> DEFINE D == DOMAIN items
           Kept(kept, q) == IF postingOf(q) = postingOf(p) THEN kept ELSE Append(kept, q)
           W == {q \in Seq(Post) : ToSet(q) \subseteq ToSet(items)}
           c == [s \in SUBSET D |-> Max(s)]
           V == [s \in SUBSET D |-> IF s = {} THEN {<<>>} ELSE W]
           step == [s \in SUBSET D |-> [v \in W |-> Kept(v, items[Max(s)])]]
<1>1. D = 1..Len(items) /\ Len(items) \in Nat /\ IsFiniteSet(D)
  BY FS_Interval
<1>2. Picks(c, D) /\ \A s \in SUBSET D : s # {} => Max(s) \in s
  BY <1>1, LargestOf DEF Picks
<1>3. <<>> \in W /\ <<>> \in V[{}] /\ V \in [SUBSET D -> SUBSET W]
  BY EmptySet
<1>4. ASSUME NEW s \in SUBSET D, s # {}, NEW v \in W
      PROVE  step[s][v] \in W
  <2> DEFINE q == items[Max(s)]
  <2>1. Max(s) \in D
    BY <1>2, <1>4
  <2>2. q \in Post /\ q \in ToSet(items)
    BY <2>1, <1>1 DEF ToSet
  <2>3. step[s][v] = Kept(v, q) /\ v \in Seq(Post) /\ ToSet(v) \subseteq ToSet(items)
    OBVIOUS
  <2> HIDE DEF q, step
  <2>4. Append(v, q) \in Seq(Post) /\ ToSet(Append(v, q)) = ToSet(v) \cup {q}
    BY <2>2, <2>3, AppendSet
  <2> QED BY <2>2, <2>3, <2>4
<1>5. Keeps(V, step, c, D)
  <2> HIDE DEF W, step, c
  <2> QED BY <1>3, <1>4 DEF Keeps
<1>6. PICK h \in [SUBSET D -> W] :
        IsFold(h, <<>>, step, V, c, D) /\ \A s \in SUBSET D : h[s] \in V[s]
  <2> HIDE DEF D, V, c, step, W
  <2> QED BY <1>1, <1>2, <1>3, <1>5, FoldExists
<1> DEFINE Body(f) == [s \in SUBSET D |-> IF s = {} THEN <<>>
                                          ELSE Kept(f[s \ {Max(s)}], items[Max(s)])]
           iter == CHOOSE f : f = Body(f)
<1>7. OthersOf(items, p) = iter[D]
  BY DEF OthersOf, FoldLeft, MapThenFoldSet
<1>8. h = Body(h)
  <2>1. ASSUME NEW s \in SUBSET D, s # {}
        PROVE  h[s] = Kept(h[s \ {Max(s)}], items[Max(s)])
    <3>1. h[s] = step[s][h[s \ {c[s]}]] /\ s \ {c[s]} \in SUBSET D
      BY <1>6, <2>1 DEF IsFold
    <3>2. h[s \ {c[s]}] \in W
      BY <1>6, <3>1
    <3> HIDE DEF Kept
    <3> QED BY <3>1, <3>2
  <2> HIDE DEF D, W, step, V, c, Kept
  <2> QED BY <1>6, <2>1 DEF IsFold
<1>9. iter = Body(iter)
  <2> HIDE DEF Body
  <2> QED BY <1>8
<1>10. IsFold(iter, <<>>, step, V, c, D)
  <2>1. ASSUME NEW s \in SUBSET D
        PROVE iter[s] = IF s = {} THEN <<>> ELSE Kept(iter[s \ {Max(s)}], items[Max(s)])
    <3> HIDE DEF iter, D, Kept
    <3> QED BY <1>9
  <2>2. ASSUME NEW s \in SUBSET D, s # {}, iter[s \ {c[s]}] \in V[s \ {c[s]}]
        PROVE  iter[s] = step[s][iter[s \ {c[s]}]]
    <3>1. iter[s \ {c[s]}] \in W
      <4> HIDE DEF iter, D, W, c
      <4> QED BY <1>3, <2>2
    <3>2. iter[s] = Kept(iter[s \ {c[s]}], items[Max(s)])
      <4> HIDE DEF iter, D, Kept
      <4> QED BY <2>1, <2>2
    <3> HIDE DEF iter, D, W, Kept
    <3> QED BY <2>2, <3>1, <3>2
  <2> HIDE DEF iter, D, V, step, c
  <2> QED BY <2>1, <2>2 DEF IsFold
<1>11. iter[D] \in W
  <2>1. iter[D] \in V[D]
    <3> HIDE DEF iter, D, V, step, c
    <3> QED BY <1>1, <1>2, <1>3, <1>5, <1>10, FoldKeeps
  <2> HIDE DEF iter, D, W
  <2> QED BY <1>3, <2>1
<1> HIDE DEF iter, D
<1> QED
  BY <1>7, <1>11

LEMMA EnqueuedSet ==
  ASSUME NEW items \in Seq(Post), NEW p \in Post
  PROVE  LET next == Enqueued(items, p) IN
         next \in Seq(Post) /\ p \in ToSet(next) /\ ToSet(next) \subseteq ToSet(items) \cup {p}
<1> DEFINE others == OthersOf(items, p)
           kept == IF Len(others) < MaxQueue THEN others ELSE Tail(others)
<1>1. others \in Seq(Post) /\ ToSet(others) \subseteq ToSet(items)
  BY OthersKept
<1>2. kept \in Seq(Post) /\ ToSet(kept) \subseteq ToSet(items)
  <2> HIDE DEF others
  <2>1. CASE Len(others) < MaxQueue
    BY <1>1, <2>1
  <2>2. CASE ~(Len(others) < MaxQueue)
    <3>1. others # <<>>
      <4>1. Len(<<>>) = 0 /\ 0 < MaxQueue
        BY CaptureAssumption DEF CaptureAssumption
      <4> QED BY <2>2, <4>1
    <3> QED BY <1>1, <2>2, <3>1, TailSet
  <2> QED BY <2>1, <2>2
<1>3. Enqueued(items, p) = Append(kept, p)
  BY DEF Enqueued
<1> HIDE DEF kept
<1> QED
  BY <1>2, <1>3, AppendSet

-----------------------------------------------------------------------------
(* The invariant.  A notification is in one place at a time, in the inbox   *)
(* once, and worked on by one handler; a transaction that handler has made  *)
(* is its only one.  That ends for a notification only when `again' names   *)
(* it.                                                                      *)

Upstream == unposted \cup {enqueuing} \cup ToSet(queue) \cup ToSet(bridge) \cup autos

Held == ToSet(rest) \cup {task[w] : w \in Worker}

Typed ==
  /\ life \in {"dead", "loading"} \cup Running
  /\ unposted \subseteq Post /\ autos \subseteq Post
  /\ queue \in Seq(Post) /\ disk \in Seq(Post) /\ bridge \in Seq(Post)
  /\ enqueuing \in Post \cup {None} /\ found \in Seq(Post)
  /\ inbox \in Seq(Post) /\ shown \in Seq(Post) /\ rest \in Seq(Post)
  /\ task \in [Worker -> Post \cup {None}]
  /\ stage \in [Worker -> {"idle", "creating", "created"}]
  /\ created \in [Post -> Nat]

\* What the places have to do with each other.
Tidy ==
  /\ Distinct(inbox) /\ Distinct(rest)
  /\ ToSet(queue) \subseteq ToSet(disk)
  /\ life \in {"dead", "loading"} => bridge = <<>>
  /\ \A w \in Worker : stage[w] = "idle" <=> task[w] = None
  /\ \A w \in Worker : stage[w] = "created" => created[task[w]] > 0

\* On its way to the inbox a notification is in one place, and new.
Apart(p) ==
  /\ p \in unposted => p \notin {enqueuing} \cup ToSet(queue) \cup ToSet(bridge) \cup autos
  /\ p = enqueuing => p \notin ToSet(queue) \cup ToSet(bridge) \cup autos
  /\ p \in ToSet(queue) => p \notin ToSet(bridge) \cup autos
  /\ p \in ToSet(bridge) => p \notin autos
  /\ p \in Upstream => p \notin ToSet(inbox) \cup Held \cup skipped /\ created[p] = 0

\* In the inbox and on the page.
Once(p) ==
  /\ p \in ToSet(rest) => created[p] = 0 /\ \A w \in Worker : task[w] # p
  /\ \A w \in Worker : task[w] = p =>
        /\ created[p] = IF stage[w] = "created" THEN 1 ELSE 0
        /\ \A v \in Worker : task[v] = p => v = w
  /\ p \in ToSet(inbox) \ Held => created[p] = 0
  /\ p \in skipped => p \notin ToSet(inbox) \cup Held /\ created[p] = 0
  /\ created[p] <= 1

IInv == Typed /\ Tidy /\ skipped \subseteq Post /\ \A p \in Post \ again : Apart(p) /\ Once(p)

-----------------------------------------------------------------------------
(* What the helpers of the steps do.                                       *)

LEMMA NoneIsNoPost == None \notin Post /\ "all" \notin Hand \cup Dialog /\ "all" \in Worker
BY CaptureAssumption DEF CaptureAssumption, Worker

\* What arrives goes to the automatic imports, to the inbox, or is let go.
LEMMA Handled ==
  ASSUME Typed, Tidy, NEW ps \in Seq(Post), handleParsed(ps)
  PROVE  /\ inbox' \in Seq(Post) /\ Distinct(inbox') /\ shown' \in Seq(Post)
         /\ autos' \subseteq Post
         /\ \/ /\ inbox' = inbox /\ shown' = shown
               /\ autos \subseteq autos' /\ autos' \subseteq autos \cup ToSet(ps)
            \/ /\ ToSet(inbox') \subseteq ToSet(inbox) \cup ToSet(ps)
               /\ autos' = autos
         /\ shown = inbox => shown' = inbox'
         /\ ToSet(inbox) \cup autos \cup ToSet(ps) \subseteq ToSet(inbox') \cup autos' \cup gone'
         /\ gone \subseteq gone'
<1>1. FirstOfKey(ps) \subseteq ToSet(ps) /\ FirstOfKey(ps) \subseteq Post /\ ToSet(ps) \subseteq Post
  <2>1. DOMAIN ps = 1..Len(ps) /\ \A i \in DOMAIN ps : ps[i] \in Post
    OBVIOUS
  <2> QED BY <2>1 DEF FirstOfKey, ToSet
<1>2. CASE ref.auto
  <2>1. /\ autos' = autos \cup FirstOfKey(ps)
        /\ gone' = gone \cup (ToSet(ps) \ FirstOfKey(ps))
        /\ inbox' = inbox /\ shown' = shown
    BY <1>2 DEF handleParsed
  <2> HIDE DEF handleParsed
  <2>2. inbox' \in Seq(Post) /\ Distinct(inbox') /\ shown' \in Seq(Post)
    BY <2>1 DEF Typed, Tidy
  <2>3. autos \subseteq Post
    BY DEF Typed
  <2> QED BY <1>1, <2>1, <2>2, <2>3
<1>3. CASE ~ref.auto
  <2> DEFINE next == FoldLeft(addPendingCapture, inbox, ps)
  <2>1. /\ inbox' = next
        /\ shown' = IF ps = <<>> THEN shown ELSE next
        /\ gone' = gone \cup ((ToSet(inbox) \cup ToSet(ps)) \ ToSet(next))
        /\ autos' = autos
    BY <1>3 DEF handleParsed
  <2>2. /\ next \in Seq(Post) /\ Distinct(next)
        /\ ToSet(next) \subseteq ToSet(inbox) \cup ToSet(ps)
        /\ ps = <<>> => next = inbox
    BY Gathered DEF Typed, Tidy
  <2> HIDE DEF next
  <2>3. autos \subseteq Post /\ shown \in Seq(Post)
    BY DEF Typed
  <2> QED BY <2>1, <2>2, <2>3
<1> QED
  BY <1>2, <1>3

LEMMA Types ==
  ASSUME Typed, Tidy, Next
  PROVE  Typed' /\ Distinct(inbox)'
<1> USE NoneIsNoPost
<1>1. /\ Distinct(inbox)
      /\ UNCHANGED inbox => Distinct(inbox)'
  BY DEF Tidy, Distinct, dedupKeyOf
<1>2. \A p \in Post : /\ removePendingCapture(inbox, p) \in Seq(Post)
                      /\ Distinct(removePendingCapture(inbox, p))
  BY <1>1, TakenOut DEF Typed
<1>3. ASSUME NEW w \in Worker, NEW p \in Post \cup {None}
      PROVE  /\ Started(w, p) => task' \in [Worker -> Post \cup {None}]
                              /\ stage' \in [Worker -> {"idle", "creating", "created"}]
             /\ Stopped(w) => task' \in [Worker -> Post \cup {None}]
                              /\ stage' \in [Worker -> {"idle", "creating", "created"}]
  BY DEF Started, Stopped, Typed
<1>4. ASSUME NextOfAll
      PROVE  /\ task' \in [Worker -> Post \cup {None}]
             /\ stage' \in [Worker -> {"idle", "creating", "created"}]
             /\ rest' \in Seq(Post)
  <2>1. CASE rest = <<>>
    BY <1>3, <1>4, <2>1 DEF NextOfAll, Typed
  <2>2. CASE rest # <<>>
    <3>1. Head(rest) \in Post /\ Tail(rest) \in Seq(Post)
      BY <2>2, TailSet DEF Typed
    <3>2. rest' = Tail(rest) /\ Started("all", Head(rest))
      BY <1>4, <2>2 DEF NextOfAll
    <3> QED BY <1>3, <3>1, <3>2
  <2> QED BY <2>1, <2>2
<1>5. \A w \in Worker : task[w] \in Post \cup {None}
  BY DEF Typed
<1>6. CASE \E p \in Post : Posted(p)
  <2> PICK p \in Post : Posted(p)
    BY <1>6
  <2>1. <<p>> \in Seq(Post)
    OBVIOUS
  <2>2. /\ UNCHANGED <<life, queue, disk, bridge, task, stage, rest, created>>
        /\ unposted' \subseteq Post
    BY DEF Posted, page, Typed
  <2>3. CASE life = "live" /\ handleParsed(<<p>>) /\ UNCHANGED <<enqueuing, found>>
    BY <2>1, <2>2, <2>3, Handled DEF Typed
  <2>4. CASE /\ enqueuing' = p /\ found' = queue
             /\ UNCHANGED <<autos, recent, inbox, shown, gone>>
    BY <1>1, <2>2, <2>4 DEF Typed
  <2>5. CASE UNCHANGED <<enqueuing, found, autos, recent, inbox, shown>>
    BY <1>1, <2>2, <2>5 DEF Typed
  <2> QED BY <2>3, <2>4, <2>5 DEF Posted
<1>7. CASE Launch \/ StartDrain \/ Flush \/ Subscribed \/ Killed
           \/ \E k \in Post \cup {"key"} : Expire(k)
  <2>1. life' \in {"dead", "loading"} \cup Running
    BY <1>7 DEF Launch, StartDrain, Flush, Subscribed, Killed, Expire, Typed, Running
  <2>2. <<>> \in Seq(Post)
    OBVIOUS
  <2>3. UNCHANGED <<unposted, inbox, created>> /\ autos' \in {autos, {}}
        /\ rest' \in {rest, <<>>} /\ shown' \in {shown, inbox, <<>>}
        /\ queue' \in {queue, disk, <<>>}
        /\ bridge' \in {bridge, queue, <<>>}
        /\ enqueuing' \in {enqueuing, None} /\ found' \in {found, <<>>}
    BY <1>7 DEF Launch, StartDrain, Flush, Subscribed, Killed, Expire, native, page
  <2>6. disk' \in Seq(Post)
    <3>1. CASE enqueuing # None /\ disk' = Enqueued(found, enqueuing)
      BY <3>1, EnqueuedSet DEF Typed
    <3>2. CASE disk' \in {disk, queue}
      BY <3>2 DEF Typed
    <3> QED
      BY <1>7, <3>1, <3>2 DEF Launch, StartDrain, Flush, Subscribed, Killed, Expire, native
  <2>4. UNCHANGED <<task, stage>> \/ (/\ task' = [w \in Worker |-> None]
                                      /\ stage' = [w \in Worker |-> "idle"])
    BY <1>7 DEF Launch, StartDrain, Flush, Subscribed, Killed, Expire, native, page
  <2>5. /\ task' \in [Worker -> Post \cup {None}]
        /\ stage' \in [Worker -> {"idle", "creating", "created"}]
    BY <2>4 DEF Typed
  <2> QED BY <1>1, <2>1, <2>2, <2>3, <2>5, <2>6 DEF Typed
<1>8. CASE HandleDrained
  <2>1. /\ life' \in {"dead", "loading"} \cup Running /\ bridge' = <<>> /\ <<>> \in Seq(Post)
        /\ UNCHANGED <<unposted, queue, disk, enqueuing, found, task, stage, rest, created>>
    BY <1>8 DEF HandleDrained, Running, page
  <2>2. CASE handleParsed(bridge)
    <3>1. bridge \in Seq(Post)
      BY DEF Typed
    <3> QED BY <2>1, <2>2, <3>1, Handled DEF Typed
  <2>3. CASE UNCHANGED <<autos, recent, inbox, shown>>
    BY <1>1, <2>1, <2>3 DEF Typed
  <2> QED BY <1>8, <2>2, <2>3 DEF HandleDrained
<1>9. CASE \E p \in Post, ok \in BOOLEAN : AutoEnds(p, ok)
  <2> PICK p \in Post, ok \in BOOLEAN : AutoEnds(p, ok)
    BY <1>9
  <2>1. created' \in [Post -> Nat]
    BY DEF AutoEnds, Typed
  <2>2. autos' \subseteq Post
    BY DEF AutoEnds, Typed
  <2> QED BY <1>1, <2>1, <2>2 DEF AutoEnds, Typed, native, page
<1>10. CASE \E s \in Settings : SaveSettings(s)
  BY <1>1, <1>10 DEF SaveSettings, Typed, native, page
<1>11. CASE \E h \in Hand, p \in Post : Approve(h, p)
  BY <1>1, <1>3, <1>11 DEF Approve, Typed, native, Worker
<1>12. CASE \E d \in Dialog : SaveEdit(d)
  <2> PICK d \in Dialog : SaveEdit(d)
    BY <1>12
  <2>1. UNCHANGED <<life, native, autos, inbox, shown, rest, created>>
    BY DEF SaveEdit
  <2>2. CASE editing \in ToSet(shown) /\ Started(d, editing)
    <3>1. editing \in Post /\ d \in Worker
      <4>1. \A i \in DOMAIN shown : shown[i] \in Post
        BY DEF Typed
      <4> QED BY <4>1, <2>2 DEF ToSet, Worker
    <3> QED BY <1>1, <1>3, <2>1, <2>2, <3>1 DEF Typed, native
  <2>3. CASE UNCHANGED <<task, stage>>
    BY <1>1, <2>1, <2>3 DEF Typed, native
  <2> QED BY <2>2, <2>3 DEF SaveEdit
<1>13. CASE CloseEdit \/ \E p \in Post : OpenEdit(p)
  BY <1>1, <1>13 DEF CloseEdit, OpenEdit, Typed, native
<1>14. CASE \E p \in Post : Skip(p)
  <2> PICK p \in Post : Skip(p)
    BY <1>14
  <2>1. inbox' = removePendingCapture(inbox, p) /\ shown' = inbox'
        /\ UNCHANGED <<life, native, autos, task, stage, rest, created>>
    BY DEF Skip, page
  <2>2. inbox' \in Seq(Post) /\ Distinct(inbox')
    BY <1>2, <2>1
  <2> QED BY <2>1, <2>2 DEF Typed, native
<1>15. CASE ApproveAll
  <2>1. Head(inbox) \in Post /\ Tail(inbox) \in Seq(Post)
    BY <1>15, TailSet DEF Typed, ApproveAll
  <2>2. /\ rest' = Tail(inbox) /\ Started("all", Head(inbox))
        /\ UNCHANGED <<life, native, autos, inbox, shown, created>>
    BY <1>15 DEF ApproveAll
  <2>3. /\ task' \in [Worker -> Post \cup {None}]
        /\ stage' \in [Worker -> {"idle", "creating", "created"}]
    BY <1>3, <2>1, <2>2
  <2> QED BY <1>1, <2>1, <2>2, <2>3 DEF Typed, native
<1>16. CASE FinishAll
  <2>1. /\ stage["all"] = "created" /\ inbox' = removePendingCapture(inbox, task["all"])
        /\ NextOfAll /\ shown' \in {inbox', shown}
        /\ UNCHANGED <<life, native, autos, created>>
    BY <1>16 DEF FinishAll
  <2>2. task["all"] \in Post
    BY <1>5, <2>1 DEF Tidy
  <2>3. inbox' \in Seq(Post) /\ Distinct(inbox')
    BY <1>2, <2>1, <2>2
  <2> QED BY <1>4, <2>1, <2>3 DEF Typed, native
<1>17. CASE \E w \in Worker : Create(w)
  <2> PICK w \in Worker : Create(w)
    BY <1>17
  <2>1. stage' \in [Worker -> {"idle", "creating", "created"}]
    BY DEF Create, Typed
  <2>2. created' \in [Post -> Nat]
    <3>1. created' = [created EXCEPT ![task[w]] = @ + 1] /\ created \in [Post -> Nat]
      BY DEF Create, Typed
    <3>2. task[w] \in Post
      BY <1>5 DEF Create, Tidy
    <3> QED BY <3>1, <3>2
  <2> QED BY <1>1, <2>1, <2>2 DEF Create, Typed, native
<1>18. CASE \E w \in Worker : Finish(w)
  <2> PICK w \in Worker : Finish(w)
    BY <1>18
  <2>1. /\ stage[w] = "created" /\ inbox' = removePendingCapture(inbox, task[w])
        /\ Stopped(w) /\ shown' = inbox' /\ UNCHANGED <<life, native, autos, rest, created>>
    BY DEF Finish
  <2>2. task[w] \in Post
    BY <1>5, <2>1 DEF Tidy
  <2>3. inbox' \in Seq(Post) /\ Distinct(inbox')
    BY <1>2, <2>1, <2>2
  <2> QED BY <1>3, <2>1, <2>3 DEF Typed, native
<1>19. CASE \E w \in Worker : Fail(w)
  <2> PICK w \in Worker : Fail(w)
    BY <1>19
  <2>1. UNCHANGED <<life, native, autos, inbox, created>> /\ shown' \in {shown, inbox}
    BY DEF Fail
  <2>2. /\ task' \in [Worker -> Post \cup {None}]
        /\ stage' \in [Worker -> {"idle", "creating", "created"}]
        /\ rest' \in Seq(Post)
    <3>1. CASE w = "all"
      BY <1>4, <3>1 DEF Fail
    <3>2. CASE w # "all"
      BY <1>3, <3>2 DEF Fail, Typed
    <3> QED BY <3>1, <3>2
  <2> QED BY <1>1, <2>1, <2>2 DEF Typed, native
<1>20. CASE Commit
  <2>1. enqueuing \in Post /\ found \in Seq(Post)
    BY <1>20 DEF Commit, Typed
  <2>2. queue' \in Seq(Post) /\ disk' = queue' /\ enqueuing' = None /\ found' = <<>>
    BY <1>20, <2>1, EnqueuedSet DEF Commit
  <2>3. UNCHANGED <<life, unposted, bridge, autos, inbox, shown, task, stage, rest, created>>
    BY <1>20 DEF Commit, page
  <2> QED BY <1>1, <2>2, <2>3 DEF Typed
<1> QED
  BY <1>6, <1>7, <1>8, <1>9, <1>10, <1>11, <1>12, <1>13, <1>14, <1>15, <1>16, <1>17, <1>18, <1>19,
     <1>20 DEF Next, Provider, Review

\* The steps that leave the places alone.
LEMMA TidyUntouched ==
  ASSUME Tidy, Distinct(inbox)',
         UNCHANGED <<queue, disk, bridge, rest, task, stage, created>>,
         life' \in {"dead", "loading"} => life \in {"dead", "loading"}
  PROVE  Tidy'
<1>1. Distinct(rest)'
  BY DEF Tidy, Distinct, dedupKeyOf
<1> QED
  BY <1>1 DEF Tidy

\* Work begins, or ends, at one worker.
LEMMA WorkerTidy ==
  ASSUME Typed, Tidy, NEW w \in Worker, UNCHANGED created,
         Stopped(w) \/ \E p \in Post : Started(w, p)
  PROVE  /\ \A v \in Worker : stage'[v] = "idle" <=> task'[v] = None
         /\ \A v \in Worker : stage'[v] = "created" => created'[task'[v]] > 0
<1>1. /\ \A v \in Worker \ {w} : task'[v] = task[v] /\ stage'[v] = stage[v]
      /\ \/ task'[w] = None /\ stage'[w] = "idle"
         \/ task'[w] \in Post /\ stage'[w] = "creating"
  BY DEF Stopped, Started, Typed
<1> QED
  BY <1>1, NoneIsNoPost DEF Tidy

\* approveAll goes on with the next item.
LEMMA NextItem ==
  ASSUME Typed, Tidy, NextOfAll
  PROVE  /\ Distinct(rest)'
         /\ \/ rest = <<>> /\ rest' = <<>> /\ Stopped("all")
            \/ \E p \in ToSet(rest) \cap Post :
                 /\ Started("all", p)
                 /\ p \notin ToSet(rest') /\ ToSet(rest) = ToSet(rest') \cup {p}
<1>1. CASE rest = <<>>
  <2>1. rest' = rest /\ Distinct(rest')
    BY <1>1 DEF NextOfAll, Tidy
  <2> QED BY <1>1, <2>1 DEF NextOfAll
<1>2. CASE rest # <<>>
  <2>1. rest \in Seq(Post) /\ Distinct(rest)
    BY DEF Typed, Tidy
  <2>2. rest' = Tail(rest) /\ Started("all", Head(rest))
    BY <1>2 DEF NextOfAll
  <2>3. Distinct(rest') /\ Head(rest) \notin ToSet(rest')
    BY <1>2, <2>1, <2>2, DistinctTail
  <2>4. Head(rest) \in Post /\ ToSet(rest) = {Head(rest)} \cup ToSet(rest')
    BY <1>2, <2>1, <2>2, TailSet
  <2> QED BY <2>2, <2>3, <2>4
<1> QED
  BY <1>1, <1>2

LEMMA Tidiness ==
  ASSUME Typed, Tidy, Next
  PROVE  Tidy'
<1> USE NoneIsNoPost
<1>1. Distinct(inbox)'
  BY Types
<1>2. CASE \E p \in Post : Posted(p)
  <2> PICK p \in Post : Posted(p)
    BY <1>2
  <2>1. UNCHANGED <<life, queue, disk, bridge, rest, task, stage, created>>
    BY DEF Posted, page
  <2> QED BY <1>1, <2>1, TidyUntouched
<1>3. CASE Launch \/ Subscribed \/ \E k \in Post \cup {"key"} : Expire(k)
  BY <1>1, <1>3, TidyUntouched DEF Launch, Subscribed, Expire, native, page
<1>4. CASE StartDrain
  <2>1. Distinct(rest)'
    BY <1>4 DEF StartDrain, page, Tidy, Distinct, dedupKeyOf
  <2> QED BY <1>1, <1>4, <2>1, EmptySet DEF StartDrain, page, Tidy
<1>5. CASE Flush
  <2>1. Distinct(rest)'
    BY <1>5 DEF Flush, page, Tidy, Distinct, dedupKeyOf
  <2> QED BY <1>1, <1>5, <2>1 DEF Flush, page, Tidy
<1>6. CASE HandleDrained
  <2>1. Distinct(rest)'
    BY <1>6 DEF HandleDrained, page, Tidy, Distinct, dedupKeyOf
  <2> QED BY <1>1, <1>6, <2>1 DEF HandleDrained, page, Tidy
<1>7. CASE Killed
  <2>1. rest' = <<>> /\ Distinct(<<>>)
    BY <1>7 DEF Killed, Distinct
  <2>2. /\ \A w \in Worker : task'[w] = None /\ stage'[w] = "idle"
        /\ queue' = disk /\ disk' = disk /\ bridge' = <<>>
    BY <1>7 DEF Killed
  <2> QED BY <1>1, <2>1, <2>2 DEF Tidy
<1>8. CASE \E p \in Post, ok \in BOOLEAN : AutoEnds(p, ok)
  <2> PICK p \in Post, ok \in BOOLEAN : AutoEnds(p, ok)
    BY <1>8
  <2>1. UNCHANGED <<life, queue, disk, bridge, rest, task, stage>>
    BY DEF AutoEnds, native, page
  <2>2. Distinct(rest)'
    BY <2>1 DEF Tidy, Distinct, dedupKeyOf
  <2>3. \A q \in Post : created[q] > 0 => created'[q] > 0
    <3>1. created' = created \/ created' = [created EXCEPT ![p] = @ + 1]
      BY DEF AutoEnds
    <3>2. \A q \in Post : created[q] \in Nat /\ (created[q] > 0 => created[q] + 1 > 0)
      BY DEF Typed
    <3>3. CASE created' = created
      BY <3>3
    <3>4. CASE created' = [created EXCEPT ![p] = @ + 1]
      BY <3>2, <3>4 DEF Typed
    <3> QED BY <3>1, <3>3, <3>4
  <2>4. \A w \in Worker : stage[w] = "created" => task[w] \in Post
    BY DEF Typed, Tidy
  <2> QED BY <1>1, <2>1, <2>2, <2>3, <2>4 DEF Tidy
<1>9. CASE (\E s \in Settings : SaveSettings(s)) \/ CloseEdit \/ \E p \in Post : OpenEdit(p) \/ Skip(p)
  BY <1>1, <1>9, TidyUntouched DEF SaveSettings, CloseEdit, OpenEdit, Skip, native, page
<1>10. ASSUME UNCHANGED <<life, native, rest, created>>, NEW w \in Worker,
              Stopped(w) \/ \E p \in Post : Started(w, p)
       PROVE  Tidy'
  <2>1. Distinct(rest)'
    BY <1>10 DEF Tidy, Distinct, dedupKeyOf
  <2> QED BY <1>1, <1>10, <2>1, WorkerTidy DEF Tidy, native
<1>11. CASE \E h \in Hand, p \in Post : Approve(h, p)
  <2> PICK h \in Hand, p \in Post : Approve(h, p)
    BY <1>11
  <2>1. h \in Worker /\ Started(h, p) /\ UNCHANGED <<life, native, rest, created>>
    BY DEF Worker, Approve
  <2> QED BY <1>10, <2>1
<1>12. CASE \E d \in Dialog : SaveEdit(d)
  <2> PICK d \in Dialog : SaveEdit(d)
    BY <1>12
  <2>1. d \in Worker /\ UNCHANGED <<life, native, rest, created>>
    BY DEF Worker, SaveEdit
  <2>2. CASE editing \in ToSet(shown) /\ Started(d, editing)
    <3>1. editing \in Post
      BY <2>2 DEF ToSet, Typed
    <3> QED BY <1>10, <2>1, <2>2, <3>1
  <2>3. CASE UNCHANGED <<task, stage>>
    BY <1>1, <2>1, <2>3, TidyUntouched DEF native
  <2> QED BY <2>2, <2>3 DEF SaveEdit
<1>13. CASE ApproveAll
  <2>1. /\ inbox \in Seq(Post) /\ Distinct(inbox) /\ inbox # <<>> /\ rest' = Tail(inbox)
        /\ Started("all", Head(inbox)) /\ UNCHANGED <<life, native, created>>
    BY <1>13 DEF ApproveAll, Typed, Tidy
  <2>2. Head(inbox) \in Post /\ Distinct(rest')
    BY <2>1, TailSet, DistinctTail
  <2> QED BY <1>1, <2>1, <2>2, WorkerTidy DEF Tidy, native
<1>14. ASSUME NextOfAll, UNCHANGED <<life, native, created>> PROVE Tidy'
  <2>1. Distinct(rest)' /\ (Stopped("all") \/ \E p \in Post : Started("all", p))
    BY <1>14, NextItem
  <2> QED BY <1>1, <1>14, <2>1, WorkerTidy DEF Tidy, native
<1>15. CASE FinishAll
  BY <1>14, <1>15 DEF FinishAll
<1>16. CASE \E w \in Worker : Create(w)
  <2> PICK w \in Worker : Create(w)
    BY <1>16
  <2>1. /\ UNCHANGED <<life, native, rest, task>> /\ stage[w] = "creating"
        /\ stage' = [stage EXCEPT ![w] = "created"]
        /\ created' = [created EXCEPT ![task[w]] = @ + 1]
    BY DEF Create
  <2>2. Distinct(rest)'
    BY <2>1 DEF Tidy, Distinct, dedupKeyOf
  <2>3. \A v \in Worker : stage[v] # "idle" => task[v] \in Post
    BY DEF Typed, Tidy
  <2>4. \A q \in Post : /\ created[q] > 0 => created'[q] > 0
                        /\ q = task[w] => created'[q] > 0
    BY <2>1 DEF Typed
  <2>5. \A v \in Worker : /\ stage'[v] = "idle" <=> stage[v] = "idle"
                          /\ stage'[v] = "created" => v = w \/ stage[v] = "created"
    BY <2>1 DEF Typed
  <2> QED BY <1>1, <2>1, <2>2, <2>3, <2>4, <2>5 DEF Tidy, native
<1>17. CASE \E w \in Worker : Finish(w)
  <2> PICK w \in Worker : Finish(w)
    BY <1>17
  <2> QED BY <1>10 DEF Finish
<1>18. CASE \E w \in Worker : Fail(w)
  <2> PICK w \in Worker : Fail(w)
    BY <1>18
  <2>1. CASE w = "all"
    BY <1>14, <2>1 DEF Fail
  <2>2. CASE w # "all"
    BY <1>10, <2>2 DEF Fail
  <2> QED BY <2>1, <2>2
<1>19. CASE Commit
  <2>1. disk' = queue' /\ UNCHANGED <<life, bridge, rest, task, stage, created>>
    BY <1>19 DEF Commit, page
  <2>2. Distinct(rest)'
    BY <2>1 DEF Tidy, Distinct, dedupKeyOf
  <2> QED BY <1>1, <2>1, <2>2 DEF Tidy
<1> QED
  BY <1>2, <1>3, <1>4, <1>5, <1>6, <1>7, <1>8, <1>9, <1>11, <1>12, <1>13, <1>15, <1>16, <1>17, <1>18,
     <1>19 DEF Next, Provider, Review

-----------------------------------------------------------------------------
(* What becomes of one notification in a step.                             *)

\* A step that leaves it and its work alone, and may take it out of a place.
LEMMA Stays ==
  ASSUME Typed, NEW p \in Post, Apart(p), Once(p),
         UNCHANGED <<task, stage, rest, created>>,
         p \in skipped' => p \in skipped,
         p \in unposted' => p \in unposted, p = enqueuing' => p = enqueuing,
         p \in ToSet(queue)' => p \in ToSet(queue),
         p \in ToSet(bridge)' => p \in ToSet(bridge), p \in autos' => p \in autos,
         p \in ToSet(inbox)' => p \in ToSet(inbox)
  PROVE  Apart(p)' /\ Once(p)'
<1>1. Held' = Held
  BY DEF Held
<1>2. Apart(p)'
  BY <1>1 DEF Apart, Upstream
<1>3. Once(p)'
  BY <1>1 DEF Once
<1> QED
  BY <1>2, <1>3

\* A step that moves it to another place before the page.
LEMMA Moves ==
  ASSUME Typed, NEW p \in Post, Apart(p), Once(p), p \in Upstream,
         UNCHANGED <<task, stage, rest, created, skipped>>,
         p \notin ToSet(inbox)' \/ p \notin Upstream',
         p \in unposted' => p \notin {enqueuing'} \cup ToSet(queue)' \cup ToSet(bridge)' \cup autos',
         p = enqueuing' => p \notin ToSet(queue)' \cup ToSet(bridge)' \cup autos',
         p \in ToSet(queue)' => p \notin ToSet(bridge)' \cup autos',
         p \in ToSet(bridge)' => p \notin autos'
  PROVE  Apart(p)' /\ Once(p)'
<1>1. Held' = Held /\ p \notin Held /\ p \notin skipped /\ created[p] = 0
  BY DEF Held, Apart
<1>2. Apart(p)'
  BY <1>1 DEF Apart, Upstream
<1>3. Once(p)'
  BY <1>1 DEF Once, Held
<1> QED
  BY <1>2, <1>3

\* A worker stops; what it created is out of the inbox.
LEMMA Stops ==
  ASSUME Typed, Tidy, NEW p \in Post, Apart(p), Once(p), NEW w \in Worker, Stopped(w),
         UNCHANGED <<unposted, enqueuing, queue, bridge, autos, rest, created, skipped>>,
         ToSet(inbox)' \subseteq ToSet(inbox),
         task[w] = p /\ stage[w] = "created" => p \notin ToSet(inbox)'
  PROVE  Apart(p)' /\ Once(p)'
<1>1. /\ \A v \in Worker \ {w} : task'[v] = task[v] /\ stage'[v] = stage[v]
      /\ task'[w] = None /\ p # None
  BY NoneIsNoPost DEF Stopped, Typed
<1>2. Held' \subseteq Held \cup {None}
  BY <1>1 DEF Held
<1>3. UNCHANGED Upstream
  BY DEF Upstream
<1>4. Apart(p)'
  BY <1>1, <1>2, <1>3 DEF Apart
<1>5. CASE task[w] = p
  <2>1. p \notin ToSet(rest) /\ \A v \in Worker \ {w} : task[v] # p
    BY <1>5 DEF Once
  <2>2. p \notin Held' /\ \A v \in Worker : task'[v] # p
    BY <1>1, <2>1 DEF Held
  <2>3. /\ stage[w] \in {"creating", "created"} /\ p \in Held /\ p \notin skipped
        /\ created[p] = IF stage[w] = "created" THEN 1 ELSE 0
    BY <1>1, <1>5 DEF Typed, Tidy, Once, Held
  <2>4. p \in ToSet(inbox)' => created[p] = 0
    BY <1>5, <2>3
  <2> QED BY <1>4, <2>1, <2>2, <2>3, <2>4 DEF Once
<1>6. CASE task[w] # p
  <2>1. p \in Held' <=> p \in Held
    BY <1>1, <1>6 DEF Held
  <2>2. \A v \in Worker : /\ task'[v] = p <=> task[v] = p
                          /\ task[v] = p => stage'[v] = stage[v]
    BY <1>1, <1>6
  <2> QED BY <1>4, <2>1, <2>2 DEF Once
<1> QED
  BY <1>5, <1>6

\* A worker takes an item nobody has in hand, or the next of its list.
LEMMA TakesOn ==
  ASSUME Typed, Tidy, NEW p \in Post, Apart(p), Once(p), NEW w \in Worker,
         NEW q \in Post, Started(w, q),
         UNCHANGED <<unposted, enqueuing, queue, bridge, autos, created, skipped>>,
         ToSet(inbox)' \subseteq ToSet(inbox),
         task[w] = p /\ stage[w] = "created" => p \notin ToSet(inbox)',
         p \in ToSet(rest)' \cup {q} => p \in ToSet(rest) \cup (ToSet(inbox) \ Held),
         q = p => p \notin ToSet(rest)'
  PROVE  Apart(p)' /\ Once(p)'
<1>1. /\ \A v \in Worker \ {w} : task'[v] = task[v] /\ stage'[v] = stage[v]
      /\ task'[w] = q /\ stage'[w] = "creating"
  BY DEF Started, Typed
<1>2. p \in ToSet(rest)' \cup {q} =>
        /\ created[p] = 0 /\ p \notin Upstream \cup skipped
        /\ \A v \in Worker : task[v] # p
  BY DEF Once, Apart, Held
<1>3. UNCHANGED Upstream
  BY DEF Upstream
<1>4. CASE p \in ToSet(rest)' \cup {q}
  <2>1. \A v \in Worker : task'[v] = p => v = w /\ q = p
    BY <1>1, <1>2, <1>4
  <2>2. Apart(p)'
    BY <1>2, <1>3, <1>4 DEF Apart, Upstream
  <2>3. Once(p)'
    BY <1>1, <1>2, <1>4, <2>1 DEF Once
  <2> QED BY <2>2, <2>3
<1>5. CASE p \notin ToSet(rest)' \cup {q}
  <2>1. p \in Held' => p \in Held
    BY <1>1, <1>5 DEF Held
  <2>2. \A v \in Worker : task'[v] = p => task[v] = p /\ v # w /\ stage'[v] = stage[v]
    BY <1>1, <1>5
  <2>3. Apart(p)'
    BY <1>3, <2>1 DEF Apart
  <2>4. p \in ToSet(inbox)' \ Held' => created[p] = 0
    <3>1. CASE p \notin Held
      BY <3>1 DEF Once
    <3>2. CASE p \in ToSet(rest)
      BY <3>2 DEF Once
    <3>3. CASE \E v \in Worker : task[v] = p
      <4> PICK v \in Worker : task[v] = p
        BY <3>3
      <4>1. CASE v = w
        BY <4>1 DEF Once
      <4>2. CASE v # w
        <5>1. p \in Held'
          BY <1>1, <4>2 DEF Held
        <5> QED BY <5>1
      <4> QED BY <4>1, <4>2
    <3> QED BY <3>1, <3>2, <3>3 DEF Held
  <2>5. Once(p)'
    BY <1>5, <2>1, <2>2, <2>4 DEF Once
  <2> QED BY <2>3, <2>5
<1> QED
  BY <1>4, <1>5

LEMMA Placed ==
  ASSUME Typed, Tidy, Next, NEW p \in Post \ again', Apart(p), Once(p)
  PROVE  Apart(p)' /\ Once(p)'
<1> USE NoneIsNoPost
<1>1. \A q \in Post : ToSet(removePendingCapture(inbox, q)) = ToSet(inbox) \ {q}
  BY TakenOut DEF Typed, Tidy
<1>2. \A w \in Worker : stage[w] = "created" => task[w] \in Post
  BY DEF Typed, Tidy
<1>3. Held \subseteq Worked /\ ToSet(shown) \ ToSet(inbox) \subseteq Worked
  BY DEF Held, Worked
<1>4. CASE \E q \in Post : Posted(q)
  <2> PICK q \in Post : Posted(q)
    BY <1>4
  <2>1. /\ UNCHANGED <<queue, bridge, task, stage, rest, created, skipped>>
        /\ q \in unposted /\ unposted' = unposted \ {q}
    BY DEF Posted, page
  <2>2. p = q => p \notin {enqueuing} \cup ToSet(queue) \cup ToSet(bridge) \cup autos \cup ToSet(inbox)
    BY <2>1 DEF Apart, Upstream
  <2>3. CASE enqueuing' = q /\ UNCHANGED <<autos, inbox>>
    <3>1. CASE p = q
      BY <2>1, <2>2, <2>3, <3>1, Moves DEF Upstream
    <3>2. CASE p # q
      BY <2>1, <2>3, <3>2, Stays
    <3> QED BY <3>1, <3>2
  <2>4. CASE UNCHANGED <<enqueuing, autos, inbox>>
    BY <2>1, <2>4, Stays
  <2>5. CASE handleParsed(<<q>>) /\ UNCHANGED enqueuing
    <3>1. <<q>> \in Seq(Post) /\ ToSet(<<q>>) = {q}
      BY UnitSet
    <3>2. \/ inbox' = inbox /\ autos' \subseteq autos \cup {q}
          \/ ToSet(inbox') \subseteq ToSet(inbox) \cup {q} /\ autos' = autos
      BY <2>5, <3>1, Handled
    <3>3. CASE p = q
      BY <2>1, <2>2, <2>5, <3>2, <3>3, Moves DEF Upstream
    <3>4. CASE p # q
      BY <2>1, <2>5, <3>2, <3>4, Stays
    <3> QED BY <3>3, <3>4
  <2> QED BY <2>3, <2>4, <2>5 DEF Posted
<1>5. CASE Launch \/ Flush \/ Subscribed \/ CloseEdit
           \/ (\E k \in Post \cup {"key"} : Expire(k)) \/ (\E s \in Settings : SaveSettings(s))
           \/ \E q \in Post : OpenEdit(q)
  BY <1>5, Stays DEF Launch, Flush, Subscribed, Expire, SaveSettings, CloseEdit, OpenEdit,
                     native, page, history
<1>6. CASE StartDrain
  <2>1. /\ ToSet(bridge') = ToSet(queue) /\ ToSet(queue') = {}
        /\ enqueuing' \in {enqueuing, None}
        /\ UNCHANGED <<unposted, autos, inbox, task, stage, rest, created, skipped>>
    BY <1>6, EmptySet DEF StartDrain, page
  <2>2. CASE p \in ToSet(queue)
    BY <2>1, <2>2, NoneIsNoPost, Moves DEF Upstream, Apart
  <2>3. CASE p \notin ToSet(queue)
    BY <2>1, <2>3, NoneIsNoPost, Stays
  <2> QED BY <2>2, <2>3
<1>7. CASE HandleDrained
  <2>1. /\ ToSet(bridge') = {}
        /\ UNCHANGED <<unposted, enqueuing, queue, task, stage, rest, created, skipped>>
    BY <1>7, EmptySet DEF HandleDrained, page
  <2>2. \/ inbox' = inbox /\ autos' \subseteq autos \cup ToSet(bridge)
        \/ ToSet(inbox') \subseteq ToSet(inbox) \cup ToSet(bridge) /\ autos' = autos
    <3>1. CASE handleParsed(bridge)
      <4>1. bridge \in Seq(Post)
        BY DEF Typed
      <4> QED BY <3>1, <4>1, Handled
    <3>2. CASE UNCHANGED <<autos, recent, inbox, shown>>
      BY <3>2
    <3> QED BY <1>7, <3>1, <3>2 DEF HandleDrained
  <2>3. CASE p \in ToSet(bridge)
    <3>1. p \notin unposted \cup {enqueuing} \cup ToSet(queue) \cup autos \cup ToSet(inbox)
      BY <2>3 DEF Apart, Upstream
    <3> QED BY <2>1, <2>2, <2>3, <3>1, Moves DEF Upstream
  <2>4. CASE p \notin ToSet(bridge)
    BY <2>1, <2>2, <2>4, Stays
  <2> QED BY <2>3, <2>4
<1>8. CASE Killed
  <2>1. /\ UNCHANGED <<unposted, inbox, created, skipped>>
        /\ ToSet(bridge') = {} /\ autos' = {} /\ ToSet(rest') = {} /\ enqueuing' = None
        /\ \A w \in Worker : task'[w] = None
    BY <1>8, EmptySet DEF Killed
  <2>2. /\ p \in ToSet(queue') => p \in ToSet(queue)
        /\ \A w \in Worker : stage[w] = "created" => task[w] # p
    BY <1>8 DEF Killed
  <2>3. p \notin Held'
    BY <2>1 DEF Held
  <2>4. Apart(p)'
    BY <2>1, <2>2, <2>3 DEF Apart, Upstream
  <2>5. p \in ToSet(inbox) => created[p] = 0
    BY <2>2 DEF Once, Held
  <2> QED BY <2>1, <2>3, <2>4, <2>5 DEF Once
<1>9. CASE \E q \in Post, ok \in BOOLEAN : AutoEnds(q, ok)
  <2> PICK q \in Post, ok \in BOOLEAN : AutoEnds(q, ok)
    BY <1>9
  <2>1. /\ UNCHANGED <<unposted, enqueuing, queue, bridge, inbox, task, stage, rest, skipped>>
        /\ q \in autos /\ autos' = autos \ {q}
        /\ created' = created \/ created' = [created EXCEPT ![q] = @ + 1]
    BY DEF AutoEnds, native, page
  <2>2. CASE p = q
    <3>1. /\ p \notin ToSet(queue) \cup ToSet(bridge) \cup unposted \cup {enqueuing}
          /\ p \notin ToSet(inbox) \cup Held \cup skipped /\ created[p] = 0
      BY <2>1, <2>2 DEF Apart, Upstream
    <3>2. created'[p] \in {0, 1}
      BY <2>1, <2>2, <3>1 DEF Typed
    <3>3. Held' = Held
      BY <2>1 DEF Held
    <3>4. Apart(p)'
      BY <2>1, <2>2, <3>1 DEF Apart, Upstream
    <3>5. created'[p] <= 1
      BY <3>2
    <3>6. Once(p)'
      BY <2>1, <3>1, <3>3, <3>5 DEF Once, Held
    <3> QED BY <3>4, <3>6
  <2>3. CASE p # q
    <3>1. created'[p] = created[p]
      BY <2>1, <2>3 DEF Typed
    <3>2. Held' = Held
      BY <2>1 DEF Held
    <3>3. Apart(p)'
      BY <2>1, <3>1, <3>2 DEF Apart, Upstream
    <3> QED BY <2>1, <3>1, <3>2, <3>3 DEF Once
  <2> QED BY <2>2, <2>3
<1>10. CASE \E h \in Hand, q \in Post : Approve(h, q)
  <2> PICK h \in Hand, q \in Post : Approve(h, q)
    BY <1>10
  <2>1. /\ h \in Worker /\ Started(h, q) /\ task[h] # p
        /\ UNCHANGED <<unposted, enqueuing, queue, bridge, autos, inbox, rest, created, skipped>>
    BY DEF Approve, Worker, native, Tidy
  <2>2. p = q => p \in ToSet(inbox) \ Held
    BY <1>3 DEF Approve
  <2> QED BY <2>1, <2>2, TakesOn DEF Held
<1>11. CASE \E d \in Dialog : SaveEdit(d)
  <2> PICK d \in Dialog : SaveEdit(d)
    BY <1>11
  <2>1. /\ d \in Worker /\ task[d] # p
        /\ UNCHANGED <<unposted, enqueuing, queue, bridge, autos, inbox, rest, created, skipped>>
    BY DEF SaveEdit, Worker, native, Tidy
  <2>2. CASE editing \in ToSet(shown)
    <3>1. editing \in Post
      BY <2>2 DEF ToSet, Typed
    <3>2. /\ Started(d, editing)
          /\ editing \in Worked => editing \in again'
      BY <2>2 DEF SaveEdit
    <3>3. p = editing => p \in ToSet(inbox) \ Held
      BY <1>3, <2>2, <3>2
    <3> QED BY <2>1, <3>1, <3>2, <3>3, TakesOn DEF Held
  <2>3. CASE editing \notin ToSet(shown)
    <3>1. UNCHANGED <<task, stage>>
      BY <2>3 DEF SaveEdit
    <3> QED BY <2>1, <3>1, Stays
  <2> QED BY <2>2, <2>3
<1>12. CASE \E q \in Post : Skip(q)
  <2> PICK q \in Post : Skip(q)
    BY <1>12
  <2>1. /\ UNCHANGED <<unposted, enqueuing, queue, bridge, autos, task, stage, rest, created>>
        /\ ToSet(inbox') = ToSet(inbox) \ {q} /\ skipped' = skipped \cup {q}
    BY <1>1 DEF Skip, native, page
  <2>2. CASE p = q
    <3>1. p \in ToSet(inbox) \ Held
      BY <1>3, <2>2 DEF Skip
    <3>2. Held' = Held /\ p \notin Upstream /\ created[p] = 0
      BY <2>1, <3>1 DEF Held, Apart, Once
    <3>3. Apart(p)'
      BY <2>1, <3>2 DEF Apart, Upstream
    <3> QED BY <2>1, <2>2, <3>1, <3>2, <3>3 DEF Once
  <2>3. CASE p # q
    BY <2>1, <2>3, Stays
  <2> QED BY <2>2, <2>3
<1>13. CASE ApproveAll
  <2> DEFINE q == Head(inbox)
  <2>1. /\ inbox \in Seq(Post) /\ Distinct(inbox) /\ inbox # <<>> /\ rest' = Tail(inbox)
        /\ Started("all", q) /\ task["all"] # p
        /\ UNCHANGED <<unposted, enqueuing, queue, bridge, autos, inbox, created, skipped>>
        /\ ToSet(inbox) \cap Worked \subseteq again'
    BY <1>13 DEF ApproveAll, Typed, Tidy, native
  <2>2. q \in Post /\ q \notin ToSet(rest') /\ ToSet(inbox) = {q} \cup ToSet(rest')
    BY <2>1, TailSet, DistinctTail
  <2>3. p \in ToSet(rest') \cup {q} => p \in ToSet(inbox) \ Held
    BY <1>3, <2>1, <2>2
  <2> HIDE DEF q
  <2> QED BY <2>1, <2>2, <2>3, TakesOn
<1>14. ASSUME NextOfAll, UNCHANGED <<unposted, enqueuing, queue, bridge, autos, created, skipped>>,
              ToSet(inbox)' \subseteq ToSet(inbox),
              task["all"] = p /\ stage["all"] = "created" => p \notin ToSet(inbox)'
       PROVE  Apart(p)' /\ Once(p)'
  <2>1. CASE rest = <<>> /\ rest' = <<>> /\ Stopped("all")
    BY <1>14, <2>1, Stops
  <2>2. CASE \E q \in ToSet(rest) \cap Post :
               /\ Started("all", q)
               /\ q \notin ToSet(rest') /\ ToSet(rest) = ToSet(rest') \cup {q}
    <3> PICK q \in ToSet(rest) \cap Post :
               /\ Started("all", q)
               /\ q \notin ToSet(rest') /\ ToSet(rest) = ToSet(rest') \cup {q}
      BY <2>2
    <3> QED BY <1>14, TakesOn
  <2> QED BY <1>14, <2>1, <2>2, NextItem
<1>15. CASE FinishAll
  <2>1. /\ stage["all"] = "created" /\ ToSet(inbox') = ToSet(inbox) \ {task["all"]}
        /\ NextOfAll /\ UNCHANGED <<unposted, enqueuing, queue, bridge, autos, created, skipped>>
    BY <1>1, <1>2, <1>15 DEF FinishAll, native, history
  <2> QED BY <1>14, <2>1
<1>16. CASE \E w \in Worker : Create(w)
  <2> PICK w \in Worker : Create(w)
    BY <1>16
  <2>1. /\ UNCHANGED <<unposted, enqueuing, queue, bridge, autos, inbox, task, rest, skipped>>
        /\ stage[w] = "creating" /\ stage' = [stage EXCEPT ![w] = "created"]
        /\ created' = [created EXCEPT ![task[w]] = @ + 1]
    BY DEF Create, native, history
  <2>2. Held' = Held /\ Upstream' = Upstream
    BY <2>1 DEF Held, Upstream
  <2>3. /\ \A v \in Worker \ {w} : stage'[v] = stage[v]
        /\ stage'[w] = "created"
    BY <2>1 DEF Typed
  <2>4. CASE task[w] = p
    <3>1. p \notin Upstream \cup skipped \cup ToSet(rest) /\ created[p] = 0 /\ p \in Held
          /\ \A v \in Worker : task[v] = p => v = w
      <4>1. p \in Held
        BY <2>4 DEF Held
      <4>2. p \notin Upstream
        BY <4>1 DEF Apart
      <4> QED BY <2>1, <2>4, <4>1, <4>2 DEF Once
    <3>2. created'[p] = 1
      BY <2>1, <2>4, <3>1 DEF Typed
    <3>3. Apart(p)'
      BY <2>1, <2>2, <3>1 DEF Apart, Upstream
    <3> QED BY <2>1, <2>2, <2>3, <2>4, <3>1, <3>2, <3>3 DEF Once
  <2>5. CASE task[w] # p
    <3>1. created'[p] = created[p]
      BY <2>1, <2>5 DEF Typed
    <3>2. Apart(p)'
      BY <2>1, <2>2, <3>1 DEF Apart
    <3>3. \A v \in Worker : task[v] = p => stage'[v] = stage[v]
      BY <2>3, <2>5
    <3> QED BY <2>1, <2>2, <3>1, <3>2, <3>3 DEF Once
  <2> QED BY <2>4, <2>5
<1>17. CASE \E w \in Worker : Finish(w)
  <2> PICK w \in Worker : Finish(w)
    BY <1>17
  <2>1. /\ stage[w] = "created" /\ ToSet(inbox') = ToSet(inbox) \ {task[w]} /\ Stopped(w)
        /\ UNCHANGED <<unposted, enqueuing, queue, bridge, autos, rest, created, skipped>>
    BY <1>1, <1>2 DEF Finish, native, history
  <2> QED BY <2>1, Stops
<1>18. CASE \E w \in Worker : Fail(w)
  <2> PICK w \in Worker : Fail(w)
    BY <1>18
  <2>1. /\ stage[w] = "creating"
        /\ UNCHANGED <<unposted, enqueuing, queue, bridge, autos, inbox, created, skipped>>
    BY DEF Fail, native, history
  <2>2. CASE w = "all"
    BY <1>14, <2>1, <2>2 DEF Fail
  <2>3. CASE w # "all"
    BY <2>1, <2>3, Stops DEF Fail
  <2> QED BY <2>2, <2>3
<1>19. CASE Commit
  <2> DEFINE e == enqueuing
  <2>1. /\ UNCHANGED <<unposted, bridge, autos, inbox, task, stage, rest, created, skipped>>
        /\ e \in Post /\ found \in Seq(Post) /\ enqueuing' = None
        /\ queue' = Enqueued(found, e)
        /\ ToSet(queue') \ (ToSet(queue) \cup {e}) \subseteq again'
    BY <1>19 DEF Commit, page, Typed
  <2>2. e \in ToSet(queue')
    BY <2>1, EnqueuedSet
  <2>3. p \in ToSet(queue') => p \in ToSet(queue) \/ p = e
    BY <2>1
  <2>4. CASE p = e
    <3>1. p \notin unposted \cup ToSet(bridge) \cup autos \cup ToSet(inbox)
      BY <2>4 DEF Apart, Upstream
    <3> QED BY <2>1, <2>4, <3>1, Moves DEF Upstream
  <2>5. CASE p # e
    BY <2>1, <2>3, <2>5, Stays
  <2> QED BY <2>4, <2>5
<1> QED
  BY <1>4, <1>5, <1>6, <1>7, <1>8, <1>9, <1>10, <1>11, <1>12, <1>13, <1>15, <1>16, <1>17, <1>18,
     <1>19 DEF Next, Provider, Review

-----------------------------------------------------------------------------
(* The theorems.                                                           *)

\* The invariant holds at the start, and every step keeps it.
LEMMA Initially == Init => IInv
<1> SUFFICES ASSUME Init PROVE IInv
  OBVIOUS
<1>1. Typed
  BY NoneIsNoPost DEF Init, Typed, Running
<1>2. Distinct(<<>>)
  BY DEF Distinct
<1>3. Tidy
  BY <1>2 DEF Init, Tidy
<1>4. ASSUME NEW p \in Post PROVE Apart(p) /\ Once(p)
  <2>1. Held \subseteq {None} /\ p # None /\ ToSet(<<>>) = {}
    BY EmptySet, NoneIsNoPost DEF Init, Held
  <2>2. Apart(p)
    BY <2>1 DEF Init, Apart, Upstream
  <2>3. Once(p)
    BY <2>1 DEF Init, Once
  <2> QED BY <2>2, <2>3
<1> QED
  BY <1>1, <1>3, <1>4 DEF IInv, Init

LEMMA Stepwise == IInv /\ [Next]_vars => IInv'
<1> SUFFICES ASSUME IInv, [Next]_vars PROVE IInv'
  OBVIOUS
<1>1. CASE Next
  <2>1. Typed' /\ Tidy'
    BY <1>1, Types, Tidiness DEF IInv
  <2>2. again \subseteq again'
    BY <1>1 DEF Next, Provider, Review, Posted, Commit, Launch, StartDrain, Flush, HandleDrained, Subscribed,
         Killed, SaveSettings, Expire, AutoEnds, Approve, OpenEdit, SaveEdit, CloseEdit, ApproveAll,
         Skip, Create, FinishAll, Finish, Fail, history
  <2>3. ASSUME NEW p \in Post \ again' PROVE Apart(p)' /\ Once(p)'
    BY <1>1, <2>2, Placed DEF IInv
  <2>4. skipped' \subseteq Post
    <3>1. UNCHANGED skipped \/ \E p \in Post : skipped' = skipped \cup {p}
      BY <1>1 DEF Next, Provider, Review, Posted, Commit, Launch, StartDrain, Flush, HandleDrained, Subscribed,
         Killed, SaveSettings, Expire, AutoEnds, Approve, OpenEdit, SaveEdit, CloseEdit, ApproveAll,
         Skip, Create, FinishAll, Finish, Fail, history
    <3> QED BY <3>1 DEF IInv
  <2> QED BY <2>1, <2>3, <2>4 DEF IInv
<1>2. CASE UNCHANGED vars
  <2>1. UNCHANGED <<life, native, autos, inbox, shown, page, created, history>>
    BY <1>2 DEF vars
  <2>2. Typed'
    BY <2>1 DEF IInv, Typed, native, page
  <2>3. Distinct(inbox)' /\ Distinct(rest)'
    BY <2>1 DEF IInv, Tidy, Distinct, dedupKeyOf, page
  <2>4. Tidy'
    BY <2>1, <2>3 DEF IInv, Tidy, native, page
  <2>5. ASSUME NEW p \in Post \ again' PROVE Apart(p)' /\ Once(p)'
    BY <2>1, Stays DEF IInv, native, page, history
  <2>6. skipped' \subseteq Post
    BY <2>1 DEF IInv, history
  <2> QED BY <2>2, <2>4, <2>5, <2>6 DEF IInv
<1> QED
  BY <1>1, <1>2

THEOREM Invariance == Spec => []IInv
BY Initially, Stepwise, PTL DEF Spec

\* A notification becomes one transaction, unless `again' names it (the steps
\* of PendingCapturesPage, NotificationCaptureProvider and the listener that
\* work on it twice).
THEOREM ImportedOnce == Spec => []NoDoubleImport
<1>1. IInv => NoDoubleImport
  <2> SUFFICES ASSUME IInv, NEW p \in Post, created[p] > 1, p \notin again PROVE FALSE
    BY DEF NoDoubleImport
  <2>1. created[p] <= 1 /\ created[p] \in Nat
    BY DEF IInv, Once, Typed
  <2> QED BY <2>1
<1> QED
  BY <1>1, Invariance, PTL

\* What was skipped on the page is neither in the inbox nor imported.
THEOREM SkippedIsOut == Spec => []SkippedStaysOut
<1>1. IInv => SkippedStaysOut
  <2> SUFFICES ASSUME IInv, NEW p \in skipped, p \notin again
               PROVE  p \notin ToSet(inbox) /\ ~(created[p] > 0)
    BY DEF SkippedStaysOut
  <2>1. p \in Post
    BY DEF IInv
  <2>2. p \notin ToSet(inbox) /\ created[p] = 0
    BY <2>1 DEF IInv, Once
  <2> QED BY <2>2
<1> QED
  BY <1>1, Invariance, PTL

\* Where a notification that arrived may be.
Accounted == ({enqueuing} \ {None}) \cup ToSet(queue) \cup ToSet(bridge) \cup autos \cup ToSet(inbox)
               \cup {p \in Post : created[p] > 0} \cup skipped \cup gone

\* A step accounts for what was accounted for, and for what arrives.
LEMMA NothingLost ==
  ASSUME Typed, Tidy, Next
  PROVE  Accounted \cup (unposted \ unposted') \subseteq Accounted'
<1>1. \A q \in Post : ToSet(removePendingCapture(inbox, q)) = ToSet(inbox) \ {q}
  BY TakenOut DEF Typed, Tidy
<1>2. \A w \in Worker : stage[w] = "created" => task[w] \in Post /\ created[task[w]] > 0
  BY NoneIsNoPost DEF Typed, Tidy
<1>3. CASE \E q \in Post : Posted(q)
  <2> PICK q \in Post : Posted(q)
    BY <1>3
  <2>1. /\ UNCHANGED <<queue, bridge, created, skipped>> /\ unposted' = unposted \ {q}
        /\ enqueuing = None
    BY DEF Posted
  <2>2. CASE enqueuing' = q /\ UNCHANGED <<autos, inbox, gone>>
    BY <2>1, <2>2, NoneIsNoPost DEF Accounted
  <2>3. CASE gone' = gone \cup {q} /\ UNCHANGED <<enqueuing, autos, inbox>>
    BY <2>1, <2>3 DEF Accounted
  <2>4. CASE handleParsed(<<q>>) /\ UNCHANGED enqueuing
    <3>1. <<q>> \in Seq(Post) /\ ToSet(<<q>>) = {q}
      BY UnitSet
    <3>2. /\ ToSet(inbox) \cup autos \cup {q} \subseteq ToSet(inbox') \cup autos' \cup gone'
          /\ gone \subseteq gone'
      BY <2>4, <3>1, Handled
    <3> QED BY <2>1, <2>4, <3>2 DEF Accounted
  <2> QED BY <2>2, <2>3, <2>4 DEF Posted
<1>4. CASE Launch \/ Flush \/ Subscribed \/ CloseEdit \/ ApproveAll
           \/ (\E k \in Post \cup {"key"} : Expire(k)) \/ (\E s \in Settings : SaveSettings(s))
           \/ (\E q \in Post : OpenEdit(q)) \/ (\E h \in Hand, q \in Post : Approve(h, q))
           \/ (\E d \in Dialog : SaveEdit(d)) \/ \E w \in Worker : Fail(w)
  <2>1. UNCHANGED <<unposted, enqueuing, queue, bridge, autos, inbox, created, skipped, gone>>
    BY <1>4 DEF Launch, Flush, Subscribed, CloseEdit, ApproveAll, Expire, SaveSettings, OpenEdit,
                Approve, SaveEdit, Fail, native, history
  <2> QED BY <2>1 DEF Accounted
<1>5. CASE StartDrain
  <2>1. /\ bridge' = queue /\ ToSet(bridge) = {} /\ gone \subseteq gone'
        /\ enqueuing' = enqueuing \/ enqueuing \in gone'
        /\ UNCHANGED <<unposted, autos, inbox, created, skipped>>
    BY <1>5, EmptySet DEF StartDrain, Tidy
  <2> QED BY <2>1 DEF Accounted
<1>6. CASE HandleDrained
  <2>1. UNCHANGED <<unposted, enqueuing, queue, created, skipped>>
    BY <1>6 DEF HandleDrained
  <2>2. /\ ToSet(inbox) \cup autos \cup ToSet(bridge) \subseteq ToSet(inbox') \cup autos' \cup gone'
        /\ gone \subseteq gone'
    <3>1. CASE handleParsed(bridge)
      <4>1. bridge \in Seq(Post)
        BY DEF Typed
      <4> QED BY <3>1, <4>1, Handled
    <3>2. CASE gone' = gone \cup ToSet(bridge) /\ UNCHANGED <<autos, inbox>>
      BY <3>2
    <3> QED BY <1>6, <3>1, <3>2 DEF HandleDrained
  <2> QED BY <2>1, <2>2 DEF Accounted
<1>7. CASE Killed
  <2>1. /\ queue' = disk /\ UNCHANGED <<unposted, inbox, created, skipped>>
        /\ gone' = gone \cup ((ToSet(bridge) \cup autos \cup ({enqueuing} \ {None})) \ ToSet(disk))
        /\ ToSet(queue) \subseteq ToSet(disk)
    BY <1>7 DEF Killed, Tidy
  <2> QED BY <2>1 DEF Accounted
<1>8. ASSUME NEW q \in Post, created' = [created EXCEPT ![q] = @ + 1]
      PROVE  created'[q] > 0 /\ \A p \in Post : created[p] > 0 => created'[p] > 0
  <2>1. \A p \in Post : created[p] \in Nat /\ created[p] + 1 > 0
    BY DEF Typed
  <2> QED BY <1>8, <2>1 DEF Typed
<1>9. CASE \E q \in Post, ok \in BOOLEAN : AutoEnds(q, ok)
  <2> PICK q \in Post, ok \in BOOLEAN : AutoEnds(q, ok)
    BY <1>9
  <2>1. UNCHANGED <<unposted, enqueuing, queue, bridge, inbox, skipped>> /\ autos' = autos \ {q}
    BY DEF AutoEnds, native
  <2>2. CASE ok = TRUE
    <3>1. created' = [created EXCEPT ![q] = @ + 1] /\ gone' = gone
      BY <2>2 DEF AutoEnds
    <3>2. created'[q] > 0 /\ \A p \in Post : created[p] > 0 => created'[p] > 0
      BY <1>8, <3>1
    <3> HIDE <1>8
    <3> QED BY <2>1, <3>1, <3>2 DEF Accounted
  <2>3. CASE ok = FALSE
    BY <2>1, <2>3 DEF AutoEnds, Accounted
  <2> QED BY <2>2, <2>3
<1>10. CASE \E q \in Post : Skip(q)
  <2> PICK q \in Post : Skip(q)
    BY <1>10
  <2>1. /\ UNCHANGED <<unposted, enqueuing, queue, bridge, autos, created, gone>>
        /\ ToSet(inbox') = ToSet(inbox) \ {q} /\ skipped' = skipped \cup {q}
    BY <1>1 DEF Skip, native
  <2> QED BY <2>1 DEF Accounted
<1>11. CASE \E w \in Worker : Create(w)
  <2> PICK w \in Worker : Create(w)
    BY <1>11
  <2>1. UNCHANGED <<unposted, enqueuing, queue, bridge, autos, inbox, skipped, gone>>
    BY DEF Create, native, history
  <2>2. created' = [created EXCEPT ![task[w]] = @ + 1] /\ task[w] \in Post
    BY DEF Create, Typed, Tidy
  <2> QED BY <1>8, <2>1, <2>2 DEF Accounted
<1>12. CASE \E w \in Worker : FinishAll \/ Finish(w)
  <2> PICK w \in Worker : stage[w] = "created" /\ inbox' = removePendingCapture(inbox, task[w])
    BY <1>12, NoneIsNoPost DEF FinishAll, Finish
  <2>1. UNCHANGED <<unposted, enqueuing, queue, bridge, autos, created, skipped, gone>>
    BY <1>12 DEF FinishAll, Finish, native, history
  <2>2. ToSet(inbox') = ToSet(inbox) \ {task[w]} /\ task[w] \in Post /\ created[task[w]] > 0
    BY <1>1, <1>2
  <2> QED BY <2>1, <2>2 DEF Accounted
<1>13. CASE Commit
  <2>1. /\ enqueuing \in Post /\ found \in Seq(Post) /\ queue' = Enqueued(found, enqueuing)
        /\ gone' = gone \cup (ToSet(queue) \ ToSet(queue'))
        /\ UNCHANGED <<unposted, bridge, autos, inbox, created, skipped>>
    BY <1>13 DEF Commit, Typed
  <2>2. enqueuing \in ToSet(queue')
    BY <2>1, EnqueuedSet
  <2> QED BY <2>1, <2>2 DEF Accounted
<1> QED
  BY <1>3, <1>4, <1>5, <1>6, <1>7, <1>9, <1>10, <1>11, <1>12, <1>13, NoneIsNoPost
     DEF Next, Provider, Review

\* A notification that arrived is somewhere until it is a transaction or is
\* refused; the steps of the listener, the drain and the inbox that lose one
\* are those that enter it in `gone'.
THEOREM LostOnlyByName == Spec => []NothingLostSilently
<1> DEFINE Inv == Post \ unposted \subseteq Accounted
<1>1. Init => Inv
  BY DEF Init
<1>2. IInv /\ Inv /\ [Next]_vars => Inv'
  <2>1. CASE Next
    BY <2>1, NothingLost DEF IInv
  <2>2. CASE UNCHANGED vars
    <3>1. UNCHANGED <<native, autos, inbox, created, history>>
      BY <2>2 DEF vars
    <3> QED BY <3>1 DEF Accounted, native, history
  <2> QED BY <2>1, <2>2
<1>3. Inv => NothingLostSilently
  BY DEF Accounted, NothingLostSilently
<1> HIDE DEF Inv
<1> QED
  BY <1>1, <1>2, <1>3, Invariance, PTL DEF Spec

\* The list drawn is the inbox whenever approveAll is not under way, whatever
\* additions, approvals and skips overlap (pendingItems of the provider).
THEOREM ShownIsInbox == Spec => []ShownMatchesInbox
<1>1. Init => ShownMatchesInbox
  BY DEF Init, ShownMatchesInbox
<1>2. IInv /\ ShownMatchesInbox /\ [Next]_vars => ShownMatchesInbox'
  <2> SUFFICES ASSUME IInv, ShownMatchesInbox, [Next]_vars,
                      life' \in Running, stage'["all"] = "idle"
               PROVE  shown' = inbox'
    BY DEF ShownMatchesInbox
  <2>1. Typed /\ Tidy
    BY DEF IInv
  <2>2. CASE UNCHANGED <<shown, inbox>> /\ life \in Running /\ stage["all"] = "idle"
    BY <2>2 DEF ShownMatchesInbox
  <2>3. CASE UNCHANGED <<life, stage, shown, inbox>>
    BY <2>2, <2>3
  <2>4. CASE shown' = inbox'
    BY <2>4
  <2>5. ASSUME NEW w \in Hand \cup Dialog, NEW p, Started(w, p) \/ Stopped(w)
        PROVE  stage'["all"] = stage["all"]
    BY <2>1, <2>5, NoneIsNoPost DEF Started, Stopped, Typed
  <2>6. CASE \E p \in Post : Posted(p)
    <3> PICK p \in Post : Posted(p)
      BY <2>6
    <3>1. CASE handleParsed(<<p>>) /\ life = "live" /\ UNCHANGED stage
      <4>1. <<p>> \in Seq(Post) /\ shown = inbox
        BY <3>1 DEF ShownMatchesInbox, Running
      <4> QED BY <2>1, <3>1, <4>1, Handled
    <3> QED BY <2>3, <3>1 DEF Posted, page
  <2>7. CASE HandleDrained
    <3>1. shown = inbox /\ bridge \in Seq(Post)
      BY <2>1, <2>7 DEF HandleDrained, ShownMatchesInbox, Running, page, Typed
    <3>2. CASE handleParsed(bridge)
      BY <2>1, <3>1, <3>2, Handled
    <3> QED BY <2>7, <3>1, <3>2 DEF HandleDrained
  <2>8. CASE Launch \/ Commit \/ StartDrain \/ Flush \/ Subscribed \/ Killed
             \/ (\E k \in Post \cup {"key"} : Expire(k))
             \/ (\E p \in Post, ok \in BOOLEAN : AutoEnds(p, ok))
             \/ (\E s \in Settings : SaveSettings(s)) \/ UNCHANGED vars
    BY <2>2, <2>3, <2>4, <2>8
       DEF Launch, Commit, StartDrain, Flush, Subscribed, Killed, Expire, AutoEnds, SaveSettings,
           Running, vars, page
  <2>9. CASE Review
    <3>1. CASE \E h \in Hand, p \in Post : Approve(h, p)
      BY <2>2, <2>5, <2>9, <3>1 DEF Approve, Review
    <3>2. CASE \E d \in Dialog : SaveEdit(d)
      BY <2>2, <2>5, <2>9, <3>2 DEF SaveEdit, Review
    <3>3. CASE CloseEdit \/ \E p \in Post : OpenEdit(p) \/ Skip(p)
      BY <2>3, <2>4, <3>3 DEF CloseEdit, OpenEdit, Skip
    <3>4. CASE ApproveAll
      <4>1. stage'["all"] = "creating"
        BY <2>1, <3>4, NoneIsNoPost DEF ApproveAll, Started, Typed
      <4> QED BY <4>1
    <3>5. ASSUME NextOfAll, rest = <<>> => shown' = inbox' PROVE shown' = inbox'
      <4>1. rest # <<>> => stage'["all"] = "creating"
        BY <2>1, <3>5, NoneIsNoPost DEF NextOfAll, Started, Typed
      <4> QED BY <3>5, <4>1
    <3>6. CASE FinishAll
      BY <3>5, <3>6 DEF FinishAll
    <3>7. CASE \E w \in Worker : Create(w)
      <4> PICK w \in Worker : Create(w)
        BY <3>7
      <4>1. stage["all"] = "idle"
        BY <2>1, NoneIsNoPost DEF Create, Typed
      <4> QED BY <2>2, <2>9, <4>1 DEF Create, Review
    <3>8. CASE \E w \in Worker : Finish(w)
      BY <2>4, <3>8 DEF Finish
    <3>9. CASE \E w \in Worker : Fail(w)
      <4> PICK w \in Worker : Fail(w)
        BY <3>9
      <4>1. CASE w = "all"
        BY <3>5, <4>1 DEF Fail
      <4>2. CASE w # "all"
        <5>1. Stopped(w) /\ UNCHANGED <<shown, inbox, life>>
          BY <4>2 DEF Fail
        <5>2. stage["all"] = "idle"
          BY <2>1, <4>2, <5>1, NoneIsNoPost DEF Stopped, Typed
        <5> QED BY <2>2, <2>9, <5>1, <5>2 DEF Review
      <4> QED BY <4>1, <4>2
    <3> QED BY <2>9, <3>1, <3>2, <3>3, <3>4, <3>6, <3>7, <3>8, <3>9 DEF Review
  <2> QED BY <2>6, <2>7, <2>8, <2>9 DEF Next, Provider
<1> QED
  BY <1>1, <1>2, Invariance, PTL DEF Spec
=============================================================================
