--------------------------- MODULE SequenceLemmas ---------------------------
(* What the proofs need of sequences, and of folds over finite sets: the   *)
(* folds of the community modules take a set apart one element at a time,  *)
(* and what holds of their result is shown along the subset order, which   *)
(* the library's theorems say is well-founded.                             *)
EXTENDS Integers, Sequences, SequencesExt, SequenceTheorems, FiniteSetTheorems, TLAPS

(* An answered request leaves the others in their order.                   *)
LEMMA Removed ==
  ASSUME NEW S, NEW q \in Seq(S), NEW i \in DOMAIN q
  PROVE  /\ RemoveAt(q, i) \in Seq(S)
         /\ Len(RemoveAt(q, i)) = Len(q) - 1
         /\ \A k \in DOMAIN RemoveAt(q, i) :
              RemoveAt(q, i)[k] = q[IF k < i THEN k ELSE k + 1]
<1> DEFINE n == Len(q)
           front == SubSeq(q, 1, i - 1)
           back == SubSeq(q, i + 1, n)
<1>1. n \in Nat /\ i \in 1..n
  OBVIOUS
<1>2. front \in Seq(S) /\ Len(front) = i - 1 /\ \A k \in 1..(i - 1) : front[k] = q[k]
  BY <1>1
<1>3. back \in Seq(S) /\ Len(back) = n - i /\ \A k \in 1..(n - i) : back[k] = q[k + i]
  BY <1>1
<1>4. RemoveAt(q, i) = front \o back
  BY DEF RemoveAt
<1> HIDE DEF front, back, n
<1>5. front \o back \in Seq(S) /\ Len(front \o back) = n - 1
  <2>1. front \o back \in Seq(S) /\ Len(front \o back) = Len(front) + Len(back)
    BY <1>2, <1>3, ConcatProperties
  <2> QED
    BY <1>1, <1>2, <1>3, <2>1
<1>6. ASSUME NEW k \in 1..(n - 1)
      PROVE  (front \o back)[k] = IF k < i THEN front[k] ELSE back[k - (i - 1)]
  <2>1. k \in 1..(Len(front) + Len(back)) /\ (k <= Len(front) <=> k < i)
    BY <1>1, <1>2, <1>3
  <2> QED
    BY <1>2, <1>3, <2>1
<1>7. ASSUME NEW k \in 1..(n - 1)
      PROVE  (front \o back)[k] = q[IF k < i THEN k ELSE k + 1]
  <2>1. CASE k < i
    BY <1>1, <1>2, <1>6, <2>1
  <2>2. CASE ~(k < i)
    <3>1. k - (i - 1) \in 1..(n - i) /\ (k - (i - 1)) + i = k + 1
      BY <1>1, <2>2
    <3> QED
      BY <1>1, <1>3, <1>6, <2>2, <3>1
  <2> QED
    BY <2>1, <2>2
<1>8. DOMAIN (front \o back) = 1..(n - 1)
  BY <1>5
<1> QED
  BY <1>4, <1>5, <1>7, <1>8 DEF n

(* A request joins those in flight, whatever becomes of these: its are the *)
(* last place and the length.                                              *)
LEMMA Appended ==
  ASSUME NEW S, NEW q \in Seq(S), NEW e \in S
  PROVE  /\ Append(q, e) \in Seq(S)
         /\ Len(Append(q, e)) = Len(q) + 1
         /\ \A k \in DOMAIN Append(q, e) :
              \/ k \in DOMAIN q /\ Append(q, e)[k] = q[k]
              \/ k = Len(q) + 1 /\ Append(q, e)[k] = e
OBVIOUS

-----------------------------------------------------------------------------
\* A set of natural numbers with an element has a least one.
LEMMA LeastNat ==
  ASSUME NEW T \in SUBSET Nat, T # {}
  PROVE  \E n \in T : \A m \in T : n <= m
<1> DEFINE Below == {1..n : n \in T}
           R == StrictSubsetOrdering(Nat)
<1>1. Below \subseteq FiniteSubsetsOf(Nat) /\ Below # {}
  <2>1. \A n \in T : 1..n \in SUBSET Nat /\ IsFiniteSet(1..n)
    BY FS_Interval
  <2> QED
    BY <2>1 DEF FiniteSubsetsOf
<1>2. \E x \in Below : \A y \in Below : ~(<<y, x>> \in R)
  <2>1. IsWellFoundedOn(R, FiniteSubsetsOf(Nat))
    BY FS_StrictSubsetOrderingWellFounded
  <2> HIDE DEF Below, R
  <2> QED
    BY <1>1, <2>1, WFMin
<1>3. PICK n \in T : \A y \in Below : ~(<<y, 1..n>> \in R)
  BY <1>2
<1>4. ASSUME NEW m \in T, m < n PROVE FALSE
  <2>1. 1..m \subseteq 1..n /\ n \in 1..n /\ n \notin 1..m
    BY <1>4
  <2>2. <<1..m, 1..n>> \in R
    BY <2>1 DEF StrictSubsetOrdering
  <2> QED BY <2>2, <1>3
<1> QED BY <1>3, <1>4

\* Induction, over a set in the place of a predicate.
LEMMA NatInductionOver ==
  ASSUME NEW T, 0 \in T, \A n \in Nat : n \in T => n + 1 \in T
  PROVE  Nat \subseteq T
<1> SUFFICES ASSUME NEW k \in Nat, k \notin T PROVE FALSE
  OBVIOUS
<1>1. Nat \ T # {}
  OBVIOUS
<1>2. PICK n \in Nat \ T : \A m \in Nat \ T : n <= m
  BY <1>1, LeastNat
<1>3. n # 0
  BY <1>2
<1>4. n - 1 \in Nat /\ n - 1 \notin Nat \ T
  BY <1>2, <1>3
<1> QED
  BY <1>2, <1>4

\* The largest element of a finite set of positive numbers is one of them.
LEMMA LargestOf ==
  ASSUME NEW n \in Nat, NEW s \in SUBSET (1..n), s # {}
  PROVE  Max(s) \in s /\ \A i \in s : i <= Max(s)
<1> DEFINE T == {n - i : i \in s}
<1>1. T \in SUBSET Nat /\ T # {}
  <2>1. \A i \in s : i \in 1..n /\ n - i \in Nat
    OBVIOUS
  <2>2. PICK i \in s : TRUE
    OBVIOUS
  <2>3. n - i \in T
    BY <2>2
  <2> QED BY <2>1, <2>3
<1>2. PICK k \in T : \A m \in T : k <= m
  <2> HIDE DEF T
  <2> QED BY <1>1, LeastNat
<1>3. PICK j \in s : k = n - j
  BY <1>2
<1>4. ASSUME NEW i \in s PROVE j >= i
  <2>1. n - j <= n - i
    BY <1>2, <1>3
  <2> QED BY <2>1, <1>3
<1> QED
  BY <1>3, <1>4 DEF Max

(* A fold over the finite set D takes the elements of a set s one at a time, *)
(* c[s] last: from b, step[s] makes the value for s of the value for the     *)
(* rest.  V says which values are allowed for s.                             *)
Picks(c, D) == \A s \in SUBSET D : s # {} => c[s] \in s

\* P holds of a set when it holds of the set less what c takes from it.
Grows(P, c, D) == \A s \in SUBSET D : s # {} /\ s \ {c[s]} \in P => s \in P

Keeps(V, step, c, D) ==
  \A s \in SUBSET D : s # {} => \A v \in V[s \ {c[s]}] : step[s][v] \in V[s]

IsFold(h, b, step, V, c, D) ==
  /\ h[{}] = b
  /\ \A s \in SUBSET D : s # {} /\ h[s \ {c[s]}] \in V[s \ {c[s]}] =>
                         h[s] = step[s][h[s \ {c[s]}]]

\* A finite set taken apart one element at a time.
LEMMA SubsetInduction ==
  ASSUME NEW D, IsFiniteSet(D), NEW c, Picks(c, D),
         NEW P, {} \in P, Grows(P, c, D)
  PROVE  SUBSET D \subseteq P
<1> USE DEF Picks, Grows
<1> SUFFICES ASSUME NEW k \in SUBSET D, k \notin P PROVE FALSE
  OBVIOUS
<1> DEFINE Bad == (SUBSET D) \ P
           R == StrictSubsetOrdering(D)
<1>1. Bad \subseteq FiniteSubsetsOf(D) /\ Bad # {}
  BY FS_Subset DEF FiniteSubsetsOf
<1>2. \E x \in Bad : \A y \in Bad : ~(<<y, x>> \in R)
  <2>1. IsWellFoundedOn(R, FiniteSubsetsOf(D))
    BY FS_StrictSubsetOrderingWellFounded
  <2> HIDE DEF Bad, R
  <2> QED
    BY <1>1, <2>1, WFMin
<1>3. PICK s \in Bad : \A y \in Bad : ~(<<y, s>> \in R)
  BY <1>2
<1>4. s # {} /\ c[s] \in s /\ s \ {c[s]} \in SUBSET D /\ s \ {c[s]} # s
  BY <1>3
<1>5. <<s \ {c[s]}, s>> \in R
  BY <1>4, <1>3 DEF StrictSubsetOrdering
<1> QED
  BY <1>3, <1>4, <1>5

\* The values a fold takes are allowed ones.
LEMMA FoldKeeps ==
  ASSUME NEW D, IsFiniteSet(D), NEW c, Picks(c, D),
         NEW V, NEW b \in V[{}], NEW step, Keeps(V, step, c, D),
         NEW h, IsFold(h, b, step, V, c, D)
  PROVE  \A s \in SUBSET D : h[s] \in V[s]
<1> DEFINE P == {s \in SUBSET D : h[s] \in V[s]}
<1>1. {} \in P
  BY DEF IsFold
<1>2. Grows(P, c, D)
  BY DEF Grows, IsFold, Keeps
<1> HIDE DEF P
<1>3. SUBSET D \subseteq P
  BY <1>1, <1>2, SubsetInduction
<1> QED
  BY <1>3 DEF P

\* What a fold over a finite set builds exists, and each of its values is one
\* allowed for the elements it has taken.
LEMMA FoldExists ==
  ASSUME NEW D, IsFiniteSet(D), NEW c, Picks(c, D),
         NEW R, NEW V \in [SUBSET D -> SUBSET R], NEW b \in V[{}], NEW step,
         Keeps(V, step, c, D)
  PROVE  \E h \in [SUBSET D -> R] :
           IsFold(h, b, step, V, c, D) /\ \A s \in SUBSET D : h[s] \in V[s]
<1> USE DEF Picks, Keeps, IsFold
<1> DEFINE Upto(n) == {s \in SUBSET D : Cardinality(s) <= n}
           Good(n, h) == /\ h[{}] = b
                         /\ \A s \in Upto(n) : s # {} => h[s] = step[s][h[s \ {c[s]}]]
                         /\ \A s \in Upto(n) : h[s] \in V[s]
           T == {n \in Nat : \E h : Good(n, h)}
<1>0. \A s \in SUBSET D : IsFiniteSet(s) /\ Cardinality(s) \in Nat /\ Cardinality(s) <= Cardinality(D)
  BY FS_Subset, FS_CardinalityType
<1>1. 0 \in T
  <2>1. Upto(0) = {{}}
    BY <1>0, FS_EmptySet
  <2>2. Good(0, [s \in SUBSET D |-> b])
    BY <2>1
  <2> QED BY <2>2
<1>2. ASSUME NEW n \in T PROVE n + 1 \in T
  <2>1. PICK h : Good(n, h)
    OBVIOUS
  <2> DEFINE g == [s \in SUBSET D |-> IF s \in Upto(n) THEN h[s] ELSE step[s][h[s \ {c[s]}]]]
  <2>2. {} \in Upto(n)
    BY FS_EmptySet
  <2>3. ASSUME NEW s \in SUBSET D, s # {}
        PROVE  c[s] \in s /\ c[s] \in D /\ s \ {c[s]} \in SUBSET D
               /\ (s \in Upto(n + 1) => s \ {c[s]} \in Upto(n))
    <3>1. c[s] \in s /\ c[s] \in D /\ s \ {c[s]} \in SUBSET D
      BY <2>3
    <3>2. Cardinality(s \ {c[s]}) = Cardinality(s) - 1
      BY <1>0, <3>1, FS_RemoveElement
    <3> QED BY <1>0, <3>1, <3>2
  <2>4. g[{}] = b
    BY <2>1, <2>2
  <2>5. ASSUME NEW s \in Upto(n + 1), s # {} PROVE g[s] = step[s][g[s \ {c[s]}]]
    <3>1. g[s \ {c[s]}] = h[s \ {c[s]}]
      BY <2>3, <2>5
    <3>2. CASE s \in Upto(n)
      BY <2>1, <2>5, <3>1, <3>2
    <3>3. CASE s \notin Upto(n)
      BY <3>1, <3>3
    <3> QED BY <3>2, <3>3
  <2>6. ASSUME NEW s \in Upto(n + 1) PROVE g[s] \in V[s]
    <3>1. CASE s = {}
      BY <2>4, <3>1
    <3>2. CASE s # {}
      <4>1. s \ {c[s]} \in Upto(n) /\ s \in SUBSET D
        BY <2>3, <3>2
      <4>2. g[s \ {c[s]}] \in V[s \ {c[s]}]
        BY <2>1, <4>1
      <4> HIDE DEF g, Upto
      <4> QED BY <2>5, <3>2, <4>1, <4>2
    <3> QED BY <3>1, <3>2
  <2> HIDE DEF g
  <2>7. Good(n + 1, g)
    BY <2>4, <2>5, <2>6
  <2> HIDE DEF Good
  <2> QED
    BY <2>7
<1>3. Cardinality(D) \in T
  <2> HIDE DEF T
  <2>1. Nat \subseteq T
    BY <1>1, <1>2, NatInductionOver
  <2> QED BY <2>1, <1>0
<1>4. PICK h : Good(Cardinality(D), h)
  BY <1>3
<1>5. Upto(Cardinality(D)) = SUBSET D
  BY <1>0
<1> DEFINE r == [s \in SUBSET D |-> h[s]]
<1>6. \A s \in SUBSET D : r[s] = h[s] /\ (s # {} => s \ {c[s]} \in SUBSET D)
  OBVIOUS
<1>8. r[{}] = b /\ \A s \in SUBSET D : s # {} => r[s] = step[s][r[s \ {c[s]}]]
  BY <1>4, <1>5, <1>6
<1>9. \A s \in SUBSET D : r[s] \in V[s]
  BY <1>4, <1>5, <1>6
<1>10. r \in [SUBSET D -> R]
  BY <1>9
<1> HIDE DEF r
<1> QED
  BY <1>8, <1>9, <1>10
-----------------------------------------------------------------------------
\* h adds up the values of f over each subset of D.
AddsUp(h, f, D) ==
  /\ h \in [SUBSET D -> Int]
  /\ h[{}] = 0
  /\ \A s \in SUBSET D : s # {} =>
       h[s] = f[CHOOSE x \in s : TRUE] + h[s \ {CHOOSE x \in s : TRUE}]

\* The sum of the community modules is what such a function says of the whole.
LEMMA SumAddsUp ==
  ASSUME NEW D, IsFiniteSet(D), NEW f, \A x \in D : f[x] \in Int
  PROVE  \E h : AddsUp(h, f, D) /\ SumFunctionOnSet(f, D) = h[D]
<1> DEFINE c == [s \in SUBSET D |-> CHOOSE x \in s : TRUE]
           V == [s \in SUBSET D |-> Int]
           step == [s \in SUBSET D |-> [v \in Int |-> f[c[s]] + v]]
           Body(g) == [s \in SUBSET D |-> IF s = {} THEN 0
                         ELSE f[CHOOSE x \in s : TRUE] + g[s \ {CHOOSE x \in s : TRUE}]]
           iter == CHOOSE g : g = Body(g)
<1>1. Picks(c, D)
  BY DEF Picks
<1>2. Keeps(V, step, c, D)
  <2>1. \A s \in SUBSET D : s # {} => f[c[s]] \in Int /\ s \ {c[s]} \in SUBSET D
    BY <1>1 DEF Picks
  <2>2. \A s \in SUBSET D : s # {} => \A v \in Int : step[s][v] = f[c[s]] + v
    OBVIOUS
  <2> HIDE DEF c, step
  <2> QED
    BY <2>1, <2>2 DEF Keeps
<1>3. V \in [SUBSET D -> SUBSET Int] /\ 0 \in V[{}]
  OBVIOUS
<1>4. PICK h \in [SUBSET D -> Int] :
        IsFold(h, 0, step, V, c, D) /\ \A s \in SUBSET D : h[s] \in V[s]
  <2> HIDE DEF c, V, step
  <2> QED BY <1>1, <1>2, <1>3, FoldExists
<1>5. h[{}] = 0
  BY <1>4 DEF IsFold
<1>6. ASSUME NEW s \in SUBSET D, s # {}
      PROVE  h[s] = f[CHOOSE x \in s : TRUE] + h[s \ {CHOOSE x \in s : TRUE}]
  <2>1. s \ {c[s]} \in SUBSET D /\ h[s \ {c[s]}] \in Int /\ h[s \ {c[s]}] \in V[s \ {c[s]}]
    BY <1>4
  <2>2. h[s] = step[s][h[s \ {c[s]}]]
    BY <1>4, <1>6, <2>1 DEF IsFold
  <2>3. h[s] = f[c[s]] + h[s \ {c[s]}]
    BY <2>1, <2>2
  <2> QED BY <2>3
<1>7. h = Body(h)
  BY <1>4, <1>5, <1>6
<1>8. iter = Body(iter)
  <2> HIDE DEF Body
  <2> QED BY <1>7
<1>9. SumFunctionOnSet(f, D) = iter[D]
  BY DEF SumFunctionOnSet, FoldFunctionOnSet, MapThenFoldSet
<1> HIDE DEF iter
<1>10. DOMAIN iter = SUBSET D
  BY <1>8
<1>11. iter[{}] = 0
  BY <1>8
<1>12. \A s \in SUBSET D : s # {} =>
         iter[s] = f[CHOOSE x \in s : TRUE] + iter[s \ {CHOOSE x \in s : TRUE}]
  BY <1>8
<1>13. IsFold(iter, 0, step, V, c, D)
  <2>1. ASSUME NEW s \in SUBSET D, s # {}, iter[s \ {c[s]}] \in V[s \ {c[s]}]
        PROVE  iter[s] = step[s][iter[s \ {c[s]}]]
    <3>1. s \ {c[s]} \in SUBSET D
      OBVIOUS
    <3>2. iter[s \ {c[s]}] \in Int
      BY <2>1, <3>1
    <3>3. step[s][iter[s \ {c[s]}]] = f[c[s]] + iter[s \ {c[s]}]
      BY <3>2
    <3> QED BY <1>12, <2>1, <3>3
  <2> HIDE DEF c, step, V
  <2> QED BY <1>11, <2>1 DEF IsFold
<1>14. \A s \in SUBSET D : iter[s] \in V[s]
  <2> HIDE DEF c, step, V
  <2> QED BY <1>1, <1>2, <1>3, <1>13, FoldKeeps
<1>15. \A s \in SUBSET D : iter[s] \in Int
  BY <1>14
<1>16. iter \in [SUBSET D -> Int]
  <2>1. iter = [s \in SUBSET D |-> iter[s]]
    BY <1>8
  <2> QED BY <1>15, <2>1
<1>17. AddsUp(iter, f, D)
  BY <1>11, <1>12, <1>16 DEF AddsUp
<1> QED
  BY <1>9, <1>17

\* There is one such function.
LEMMA SumUnique ==
  ASSUME NEW D, IsFiniteSet(D), NEW f, NEW g, NEW E \in SUBSET D,
         \A x \in E : f[x] = g[x],
         NEW h, AddsUp(h, f, D), NEW k, AddsUp(k, g, E)
  PROVE  k[E] = h[E]
<1> DEFINE P == {s \in SUBSET E : k[s] = h[s]}
           c == [s \in SUBSET E |-> CHOOSE x \in s : TRUE]
<1>0. Picks(c, E) /\ IsFiniteSet(E)
  BY FS_Subset DEF Picks
<1>1. {} \in P
  BY DEF AddsUp
<1>2. ASSUME NEW s \in SUBSET E, s # {}, s \ {c[s]} \in P
      PROVE  s \in P
  <2>1. c[s] \in s /\ s \in SUBSET D /\ c[s] = (CHOOSE x \in s : TRUE)
    BY <1>2
  <2>2. k[s] = g[c[s]] + k[s \ {c[s]}] /\ h[s] = f[c[s]] + h[s \ {c[s]}]
    BY <1>2, <2>1 DEF AddsUp
  <2> HIDE DEF c
  <2> QED BY <1>2, <2>1, <2>2
<1>3. Grows(P, c, E)
  <2> HIDE DEF P, c
  <2> QED BY <1>2 DEF Grows
<1>4. SUBSET E \subseteq P
  <2> HIDE DEF P, c
  <2> QED BY <1>0, <1>1, <1>3, SubsetInduction
<1> QED
  BY <1>4

\* A sum is a number, and looks at the values over the set alone.
LEMMA SumType ==
  ASSUME NEW D, IsFiniteSet(D), NEW f, \A x \in D : f[x] \in Int
  PROVE  SumFunctionOnSet(f, D) \in Int
<1>1. PICK h : AddsUp(h, f, D) /\ SumFunctionOnSet(f, D) = h[D]
  BY SumAddsUp
<1> QED
  BY <1>1 DEF AddsUp

LEMMA SumLocal ==
  ASSUME NEW D, IsFiniteSet(D), NEW f, NEW g, \A x \in D : f[x] \in Int,
         \A x \in D : f[x] = g[x]
  PROVE  SumFunctionOnSet(f, D) = SumFunctionOnSet(g, D)
<1>1. PICK h : AddsUp(h, f, D) /\ SumFunctionOnSet(f, D) = h[D]
  BY SumAddsUp
<1>2. PICK k : AddsUp(k, g, D) /\ SumFunctionOnSet(g, D) = k[D]
  <2>1. \A x \in D : g[x] \in Int
    OBVIOUS
  <2> QED BY <2>1, SumAddsUp
<1> QED
  BY <1>1, <1>2, SumUnique

LEMMA SumEmpty ==
  ASSUME NEW f
  PROVE  SumFunctionOnSet(f, {}) = 0
<1>1. IsFiniteSet({})
  BY FS_EmptySet
<1>2. PICK h : AddsUp(h, f, {}) /\ SumFunctionOnSet(f, {}) = h[{}]
  BY <1>1, SumAddsUp
<1> QED
  BY <1>2 DEF AddsUp

\* What is added up may be taken out in any order.
LEMMA SumTake ==
  ASSUME NEW D, IsFiniteSet(D), NEW f, \A x \in D : f[x] \in Int, NEW x \in D
  PROVE  SumFunctionOnSet(f, D) = f[x] + SumFunctionOnSet(f, D \ {x})
<1> DEFINE sum(s) == SumFunctionOnSet(f, s)
<1>1. PICK h : AddsUp(h, f, D) /\ sum(D) = h[D]
  BY SumAddsUp
<1>2. ASSUME NEW s \in SUBSET D PROVE sum(s) = h[s]
  <2>1. IsFiniteSet(s) /\ \A y \in s : f[y] \in Int
    BY FS_Subset
  <2>2. PICK k : AddsUp(k, f, s) /\ sum(s) = k[s]
    BY <2>1, SumAddsUp
  <2> QED BY <1>1, <2>2, SumUnique
<1> HIDE DEF sum
<1> DEFINE Bad == {s \in SUBSET D : \E y \in s : h[s] # f[y] + h[s \ {y}]}
           R == StrictSubsetOrdering(D)
<1>3. Bad = {}
  <2> SUFFICES ASSUME Bad # {} PROVE FALSE
    OBVIOUS
  <2>1. Bad \subseteq FiniteSubsetsOf(D)
    BY FS_Subset DEF FiniteSubsetsOf
  <2>2. \E s \in Bad : \A r \in Bad : ~(<<r, s>> \in R)
    <3>1. IsWellFoundedOn(R, FiniteSubsetsOf(D))
      BY FS_StrictSubsetOrderingWellFounded
    <3> HIDE DEF Bad, R
    <3> QED BY <2>1, <3>1, WFMin
  <2>3. PICK s \in Bad : \A r \in Bad : ~(<<r, s>> \in R)
    BY <2>2
  <2>4. PICK y \in s : h[s] # f[y] + h[s \ {y}]
    BY <2>3
  <2> DEFINE z == CHOOSE w \in s : TRUE
  <2>5. z \in s /\ h[s] = f[z] + h[s \ {z}]
    BY <1>1, <2>3, <2>4 DEF AddsUp
  <2> HIDE DEF z
  <2>6. y # z
    BY <2>4, <2>5
  <2>7. \A w \in s : s \ {w} \in SUBSET D /\ s \ {w} \notin Bad
    <3> TAKE w \in s
    <3>1. s \in SUBSET D /\ s \ {w} \in SUBSET D /\ s \ {w} # s
      BY <2>3
    <3>2. <<s \ {w}, s>> \in R
      BY <3>1 DEF StrictSubsetOrdering
    <3> HIDE DEF R, Bad
    <3> QED BY <2>3, <3>1, <3>2
  <2>8. h[s \ {z}] = f[y] + h[(s \ {z}) \ {y}]
    BY <2>5, <2>6, <2>7
  <2>9. h[s \ {y}] = f[z] + h[(s \ {y}) \ {z}]
    BY <2>5, <2>6, <2>7
  <2>10. (s \ {z}) \ {y} = (s \ {y}) \ {z}
    OBVIOUS
  <2>11. f[y] \in Int /\ f[z] \in Int /\ h[(s \ {y}) \ {z}] \in Int
    BY <1>1, <2>3, <2>5 DEF AddsUp
  <2>12. ASSUME NEW i \in Int, NEW j \in Int, NEW k \in Int
         PROVE  i + (j + k) = j + (i + k)
    OBVIOUS
  <2>13. f[z] + (f[y] + h[(s \ {y}) \ {z}]) = f[y] + (f[z] + h[(s \ {y}) \ {z}])
    BY <2>11, <2>12, Zenon
  <2> HIDE DEF Bad
  <2> QED BY <2>4, <2>5, <2>8, <2>9, <2>10, <2>13, Zenon
<1>4. h[D] = f[x] + h[D \ {x}]
  BY <1>3
<1>5. D \in SUBSET D /\ D \ {x} \in SUBSET D
  OBVIOUS
<1> QED
  BY <1>2, <1>4, <1>5 DEF sum

\* A sum of natural numbers is one.
LEMMA SumNat ==
  ASSUME NEW D, IsFiniteSet(D), NEW f, \A x \in D : f[x] \in Nat
  PROVE  SumFunctionOnSet(f, D) \in Nat
<1>1. PICK h : AddsUp(h, f, D) /\ SumFunctionOnSet(f, D) = h[D]
  BY SumAddsUp
<1> DEFINE P == {s \in SUBSET D : h[s] \in Nat}
           c == [s \in SUBSET D |-> CHOOSE x \in s : TRUE]
<1>2. Picks(c, D)
  BY DEF Picks
<1>3. {} \in P
  BY <1>1 DEF AddsUp
<1>4. Grows(P, c, D)
  <2>1. ASSUME NEW s \in SUBSET D, s # {}, s \ {c[s]} \in P PROVE s \in P
    <3>1. c[s] \in s /\ c[s] = (CHOOSE x \in s : TRUE)
      BY <2>1
    <3>2. h[s] = f[c[s]] + h[s \ {c[s]}]
      BY <1>1, <2>1, <3>1 DEF AddsUp
    <3> HIDE DEF c
    <3> QED BY <2>1, <3>1, <3>2
  <2> HIDE DEF P, c
  <2> QED BY <2>1 DEF Grows
<1>5. SUBSET D \subseteq P
  <2> HIDE DEF P, c
  <2> QED BY <1>2, <1>3, <1>4, SubsetInduction
<1> QED
  BY <1>1, <1>5
=============================================================================
