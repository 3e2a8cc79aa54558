--------------------------- MODULE BacktestProofs ---------------------------
(***************************************************************************)
(* Proofs about Backtest.  With the stub, what a task of a settled instant *)
(* is scored on can be repeated until someone goes back behind it, and a   *)
(* delta is the memory's.  With any model, a bundle is as full as its      *)
(* limits let it be, and a success is one.  They hold for any tasks,       *)
(* items, orders, faults, channels and log, and whatever the tools and the *)
(* stub's matchers compute.                                                *)
(*                                                                         *)
(* The folds the model is built from are functions on sets of indices; the *)
(* first part turns them into courses, which induction can follow.         *)
(***************************************************************************)
EXTENDS Backtest, FiniteSetTheorems, WellFoundedInduction, TLAPS

-----------------------------------------------------------------------------
\* Induction over the naturals, and the folds over the indices of a sequence.
\* A set of naturals has a least element.
LEMMA Least ==
  ASSUME NEW T \in SUBSET Nat, T # {}
  PROVE  \E n \in T : \A m \in T : n <= m
<1> DEFINE R == OpToRel(<, Nat)
<1>1. IsWellFoundedOn(R, Nat)
  BY NatLessThanWellFounded
<1>2. \A m, n \in Nat : <<m, n>> \in R <=> m < n
  BY DEF OpToRel
<1> HIDE DEF R
<1>3. PICK n \in T : \A m \in T : ~ (<<m, n>> \in R)
  BY <1>1, WFMin
<1>4. \A m \in T : n <= m
  <2> TAKE m \in T
  <2>1. n \in Nat /\ m \in Nat /\ ~ (<<m, n>> \in R)
    BY <1>3
  <2>2. ~ (m < n)
    BY <1>2, <2>1, Zenon
  <2> QED
    BY <2>1, <2>2
<1> QED
  BY <1>4

\* So what holds of zero, and of the successor of each number it holds of, holds of all.
LEMMA Induct ==
  ASSUME NEW T, 0 \in T, \A n \in Nat : n \in T => n + 1 \in T
  PROVE  Nat \subseteq T
<1> DEFINE B == Nat \ T
<1>1. SUFFICES ASSUME B # {} PROVE FALSE
  OBVIOUS
<1>2. PICK n \in B : \A m \in B : n <= m
  BY <1>1, Least
<1>3. n # 0 /\ n - 1 \in Nat /\ n - 1 \notin B
  BY <1>2
<1> QED
  BY <1>2, <1>3

\* The largest of a set, where there is one.
LEMMA MaxIs ==
  ASSUME NEW t \in SUBSET Int, NEW m \in t, \A z \in t : m >= z
  PROVE  Max(t) = m
<1>1. Max(t) \in t /\ \A z \in t : Max(t) >= z
  BY Zenon DEF Max
<1>2. Max(t) \in Int /\ m \in Int /\ Max(t) >= m /\ m >= Max(t)
  BY <1>1
<1> QED
  BY <1>2

\* A fold over the indices up to n, by the largest: F[i] is its turn with index i.
Runs(g, B, base, F, n) ==
  /\ g \in [SUBSET (1 .. n) -> B]
  /\ \A t \in SUBSET (1 .. n) :
       g[t] = IF t = {} THEN base ELSE F[Max(t)][g[t \ {Max(t)}]]

LEMMA FoldExists ==
  ASSUME NEW B, NEW base \in B, NEW n \in Nat, NEW F \in [1 .. n -> [B -> B]]
  PROVE  \E g : Runs(g, B, base, F, n)
<1> DEFINE Can(k) == \E g : Runs(g, B, base, F, k)
           T == {k \in Nat : k <= n => Can(k)}
<1>1. 0 \in T
  <2> DEFINE g == [t \in SUBSET (1 .. 0) |-> base]
  <2>1. /\ g \in [SUBSET (1 .. 0) -> B]
        /\ \A t \in SUBSET (1 .. 0) : t = {} /\ g[t] = base
    OBVIOUS
  <2>2. Runs(g, B, base, F, 0)
    BY <2>1 DEF Runs
  <2> QED
    BY <2>2
<1>2. ASSUME NEW k \in Nat, k \in T
      PROVE  k + 1 \in T
  <2> HIDE DEF Can
  <2> SUFFICES ASSUME k + 1 <= n
               PROVE  Can(k + 1)
    OBVIOUS
  <2>0. Can(k)
    BY <1>2
  <2> USE DEF Can
  <2>1. PICK g : Runs(g, B, base, F, k)
    BY <2>0
  <2>a. /\ g \in [SUBSET (1 .. k) -> B]
        /\ \A t \in SUBSET (1 .. k) :
             g[t] = IF t = {} THEN base ELSE F[Max(t)][g[t \ {Max(t)}]]
    BY <2>1 DEF Runs
  <2> DEFINE Old(t) == t \ {k + 1}
             f == [t \in SUBSET (1 .. k + 1) |->
                     IF k + 1 \in t THEN F[k + 1][g[Old(t)]] ELSE g[t]]
  <2>2. ASSUME NEW t \in SUBSET (1 .. k + 1)
        PROVE  /\ Old(t) \in SUBSET (1 .. k) /\ g[Old(t)] \in B
               /\ k + 1 \notin t => t = Old(t)
    <3>1. Old(t) \in SUBSET (1 .. k)
      OBVIOUS
    <3> QED
      BY <2>a, <3>1
  <2>3. k + 1 \in 1 .. n
    OBVIOUS
  <2>4. ASSUME NEW t \in SUBSET (1 .. k + 1)
        PROVE  f[t] \in B
    <3>1. CASE k + 1 \in t
      <4>1. F[k + 1][g[Old(t)]] \in B
        BY <2>a, <2>2, <2>3
      <4> QED
        BY <3>1, <4>1
    <3>2. CASE k + 1 \notin t
      BY <2>2, <3>2
    <3> QED
      BY <3>1, <3>2
  <2>5. f \in [SUBSET (1 .. k + 1) -> B]
    BY <2>4
  <2>6. ASSUME NEW t \in SUBSET (1 .. k)
        PROVE  f[t] = g[t]
    <3>1. t \in SUBSET (1 .. k + 1) /\ k + 1 \notin t
      OBVIOUS
    <3> QED
      BY <3>1
  <2>7. ASSUME NEW t \in SUBSET (1 .. k + 1)
        PROVE  f[t] = IF t = {} THEN base ELSE F[Max(t)][f[t \ {Max(t)}]]
    <3>1. CASE k + 1 \in t
      <4>1. Max(t) = k + 1
        <5>1. t \in SUBSET Int /\ \A z \in t : k + 1 >= z
          OBVIOUS
        <5> QED
          BY <3>1, <5>1, MaxIs
      <4>2. f[Old(t)] = g[Old(t)]
        BY <2>2, <2>6
      <4> HIDE DEF f
      <4>3. f[t] = F[k + 1][g[Old(t)]]
        BY <3>1 DEF f
      <4> QED
        BY <3>1, <4>1, <4>2, <4>3
    <3>2. CASE k + 1 \notin t
      <4>1. t \in SUBSET (1 .. k)
        BY <3>2
      <4>2. f[t] = g[t] /\ f[t \ {Max(t)}] = g[t \ {Max(t)}]
        BY <4>1, <2>6
      <4> HIDE DEF f
      <4> QED
        BY <2>a, <4>1, <4>2
    <3> QED
      BY <3>1, <3>2
  <2> HIDE DEF f
  <2> QED
    BY <2>5, <2>7 DEF Runs
<1> HIDE DEF T
<1>3. n \in T
  BY <1>1, <1>2, Induct
<1> HIDE DEF Can
<1>4. Can(n)
  BY <1>3 DEF T
<1> QED
  BY <1>4 DEF Can

\* A set of numbers up to n that is not empty has a largest.
LEMMA MaxInside ==
  ASSUME NEW n \in Nat, NEW t \in SUBSET (0 .. n), t # {}
  PROVE  Max(t) \in t /\ \A z \in t : Max(t) >= z
<1> DEFINE D == {d \in Nat : n - d \in t}
<1>1. PICK z \in t : TRUE
  OBVIOUS
<1>2. n - z \in Nat /\ n - (n - z) = z
  BY <1>1
<1>3. D \in SUBSET Nat /\ n - z \in D
  BY <1>1, <1>2
<1>4. PICK d \in D : \A e \in D : d <= e
  BY <1>3, Least
<1>5. n - d \in t /\ d \in Nat
  BY <1>4
<1>6. \A y \in t : n - d >= y
  <2> TAKE y \in t
  <2>1. n - y \in Nat /\ n - (n - y) = y /\ y \in Int
    OBVIOUS
  <2>2. n - y \in D
    BY <2>1
  <2> HIDE DEF D
  <2>3. d <= n - y
    BY <1>4, <2>2
  <2> QED
    BY <1>5, <2>1, <2>3
<1>7. t \in SUBSET Int
  OBVIOUS
<1> QED
  BY <1>5, <1>6, <1>7, MaxIs

\* The last turn of a fold over the first i indices.
LEMMA Prefix ==
  ASSUME NEW i \in Nat, i > 0
  PROVE  Max(1 .. i) = i /\ (1 .. i) \ {i} = 1 .. i - 1 /\ 1 .. i # {}
<1>1. 1 .. i \in SUBSET Int /\ i \in 1 .. i /\ \A z \in 1 .. i : i >= z
  OBVIOUS
<1>2. Max(1 .. i) = i
  BY <1>1, MaxIs
<1> QED
  BY <1>1, <1>2

-----------------------------------------------------------------------------
\* Sorting a finite set.
\* R is a strict total order of D.
TotalOrder(R, D) ==
  /\ \A x \in D : <<x, x>> \notin R
  /\ \A x, y, z \in D : <<x, y>> \in R /\ <<y, z>> \in R => <<x, z>> \in R
  /\ \A x, y \in D : x # y => <<x, y>> \in R \/ <<y, x>> \in R

\* A finite set so ordered has a last element, if any.
LEMMA LastExists ==
  ASSUME NEW R, NEW D, IsFiniteSet(D), D # {}, TotalOrder(R, D)
  PROVE  \E m \in D : \A x \in D \ {m} : <<x, m>> \in R
<1> DEFINE Latest(S) == \E m \in S : \A x \in S \ {m} : <<x, m>> \in R
           T == {n \in Nat : \A S : IsFiniteSet(S) /\ Cardinality(S) = n + 1 /\ TotalOrder(R, S)
                                      => Latest(S)}
<1>1. 0 \in T
  <2> SUFFICES ASSUME NEW S, IsFiniteSet(S), Cardinality(S) = 1
               PROVE  Latest(S)
    OBVIOUS
  <2>1. PICK x : S = {x}
    BY FS_Singleton
  <2> QED
    BY <2>1
<1>2. ASSUME NEW n \in Nat, n \in T
      PROVE  n + 1 \in T
  <2> SUFFICES ASSUME NEW S, IsFiniteSet(S), Cardinality(S) = n + 1 + 1, TotalOrder(R, S)
               PROVE  Latest(S)
    OBVIOUS
  <2>1. S # {}
    BY FS_EmptySet
  <2>2. PICK x \in S : TRUE
    BY <2>1
  <2>3. IsFiniteSet(S \ {x}) /\ Cardinality(S \ {x}) = n + 1
    BY FS_RemoveElement
  <2>4. TotalOrder(R, S \ {x})
    BY DEF TotalOrder
  <2>5. Latest(S \ {x})
    BY <1>2, <2>3, <2>4
  <2>6. PICK m \in S \ {x} : \A y \in (S \ {x}) \ {m} : <<y, m>> \in R
    BY <2>5
  <2>7. CASE <<m, x>> \in R
    <3>1. \A y \in S \ {x} : <<y, x>> \in R
      BY <2>6, <2>7 DEF TotalOrder
    <3> QED
      BY <3>1
  <2>8. CASE <<x, m>> \in R
    <3>1. \A y \in S \ {m} : <<y, m>> \in R
      BY <2>6, <2>8
    <3> QED
      BY <3>1
  <2> QED
    BY <2>7, <2>8 DEF TotalOrder
<1> HIDE DEF T
<1>3. Nat \subseteq T
  BY <1>1, <1>2, Induct
<1>4. Cardinality(D) \in Nat /\ Cardinality(D) # 0
  BY FS_CardinalityType, FS_EmptySet
<1>5. Cardinality(D) - 1 \in Nat /\ Cardinality(D) = (Cardinality(D) - 1) + 1
  BY <1>4
<1>6. Cardinality(D) - 1 \in T
  BY <1>3, <1>5
<1> HIDE DEF Latest
<1>7. Latest(D)
  BY <1>5, <1>6 DEF T
<1> QED
  BY <1>7 DEF Latest

\* S listed in order.
Sorts(s, R, S) ==
  /\ s \in [1 .. Cardinality(S) -> S] /\ ToSet(s) = S
  /\ \A i, j \in DOMAIN s : i < j => <<s[i], s[j]>> \in R

\* A finite set can be listed in a strict total order.
LEMMA SortExists ==
  ASSUME NEW R, NEW D, IsFiniteSet(D), TotalOrder(R, D)
  PROVE  \E s : Sorts(s, R, D)
<1> DEFINE T == {n \in Nat : \A S : IsFiniteSet(S) /\ Cardinality(S) = n /\ TotalOrder(R, S)
                                      => \E s : Sorts(s, R, S)}
<1>1. 0 \in T
  <2> SUFFICES ASSUME NEW S, IsFiniteSet(S), Cardinality(S) = 0
               PROVE  \E s : Sorts(s, R, S)
    OBVIOUS
  <2>1. S = {}
    BY FS_EmptySet
  <2> DEFINE s == [i \in 1 .. 0 |-> i]
  <2>2. s \in [1 .. 0 -> S] /\ ToSet(s) = S /\ DOMAIN s = {}
    BY <2>1 DEF ToSet
  <2> HIDE DEF s
  <2>3. Sorts(s, R, S)
    BY <2>2 DEF Sorts
  <2> QED
    BY <2>3
<1>2. ASSUME NEW n \in Nat, n \in T
      PROVE  n + 1 \in T
  <2> SUFFICES ASSUME NEW S, IsFiniteSet(S), Cardinality(S) = n + 1, TotalOrder(R, S)
               PROVE  \E s : Sorts(s, R, S)
    OBVIOUS
  <2>1. S # {}
    BY FS_EmptySet
  <2>2. PICK m \in S : \A x \in S \ {m} : <<x, m>> \in R
    BY <2>1, LastExists
  <2> DEFINE P == S \ {m}
  <2>3. IsFiniteSet(P) /\ Cardinality(P) = n
    BY FS_RemoveElement
  <2>4. TotalOrder(R, P)
    BY DEF TotalOrder
  <2>5. PICK p : Sorts(p, R, P)
    BY <1>2, <2>3, <2>4
  <2>6. /\ p \in [1 .. n -> P] /\ \A x \in P : \E i \in 1 .. n : p[i] = x
        /\ \A i, j \in 1 .. n : i < j => <<p[i], p[j]>> \in R
    BY <2>3, <2>5 DEF Sorts, ToSet
  <2> DEFINE s == [i \in 1 .. n + 1 |-> IF i = n + 1 THEN m ELSE p[i]]
  <2>7. s[n + 1] = m /\ n + 1 \in 1 .. n + 1
    OBVIOUS
  <2>8. ASSUME NEW i \in 1 .. n
        PROVE  s[i] = p[i] /\ i \in 1 .. n + 1 /\ i # n + 1 /\ p[i] \in P
    BY <2>6
  <2>9. \A i \in 1 .. n + 1 : i = n + 1 \/ i \in 1 .. n
    OBVIOUS
  <2>10. DOMAIN s = 1 .. n + 1
    OBVIOUS
  <2> HIDE DEF s
  <2>11. s \in [1 .. n + 1 -> S]
    <3>1. \A i \in 1 .. n + 1 : s[i] \in S
      BY <2>7, <2>8, <2>9
    <3> QED
      BY <3>1 DEF s
  <2>12. ToSet(s) = S
    <3>1. \A x \in S : \E i \in 1 .. n + 1 : s[i] = x
      BY <2>6, <2>7, <2>8
    <3> QED
      BY <2>10, <2>11, <3>1 DEF ToSet
  <2>13. \A i, j \in 1 .. n + 1 : i < j => <<s[i], s[j]>> \in R
    <3> SUFFICES ASSUME NEW i \in 1 .. n + 1, NEW j \in 1 .. n + 1, i < j
                 PROVE  <<s[i], s[j]>> \in R
      OBVIOUS
    <3>1. i \in 1 .. n /\ s[i] = p[i] /\ p[i] \in P
      BY <2>8, <2>9
    <3>2. CASE j = n + 1
      BY <2>2, <2>7, <3>1, <3>2
    <3>3. CASE j \in 1 .. n
      BY <2>6, <2>8, <3>1, <3>3
    <3> QED
      BY <2>9, <3>2, <3>3
  <2>14. Sorts(s, R, S)
    BY <2>10, <2>11, <2>12, <2>13 DEF Sorts
  <2> QED
    BY <2>14
<1> HIDE DEF T
<1>3. Nat \subseteq T
  BY <1>1, <1>2, Induct
<1>4. Cardinality(D) \in T
  BY <1>3, FS_CardinalityType
<1> QED
  BY <1>4 DEF T

-----------------------------------------------------------------------------
\* The course of a fold.
\* The course of a fold: what it has computed before each turn, and in the end.
Course(h, B, base, F, n) ==
  /\ h \in [0 .. n -> B]
  /\ h[0] = base
  /\ \A i \in 1 .. n : h[i] = F[i][h[i - 1]]

\* f takes these turns on the prefixes.
Follows(f, B, base, F, n) ==
  /\ f[1 .. 0] = base
  /\ \A i \in 1 .. n : f[1 .. i - 1] \in B => f[1 .. i] = F[i][f[1 .. i - 1]]

Ends(f, B, base, F, n) == \E h : Course(h, B, base, F, n) /\ h[n] = f[1 .. n]

LEMMA Turns ==
  ASSUME NEW B, NEW base \in B, NEW n \in Nat, NEW F \in [1 .. n -> [B -> B]],
         NEW f, Follows(f, B, base, F, n)
  PROVE  Ends(f, B, base, F, n)
<1>0. /\ f[1 .. 0] = base
      /\ \A i \in 1 .. n : f[1 .. i - 1] \in B => f[1 .. i] = F[i][f[1 .. i - 1]]
  BY DEF Follows
<1> DEFINE T == {k \in Nat : k <= n => f[1 .. k] \in B}
<1>1. 0 \in T
  BY <1>0
<1>2. ASSUME NEW k \in Nat, k \in T
      PROVE  k + 1 \in T
  <2> SUFFICES ASSUME k + 1 <= n
               PROVE  f[1 .. k + 1] \in B
    OBVIOUS
  <2>1. k <= n /\ k + 1 \in 1 .. n /\ k + 1 - 1 = k
    OBVIOUS
  <2>2. f[1 .. k] \in B
    BY <1>2, <2>1
  <2>3. F[k + 1][f[1 .. k]] \in B
    BY <2>1, <2>2
  <2> QED
    BY <1>0, <2>1, <2>2, <2>3
<1> HIDE DEF T
<1>3. \A k \in 0 .. n : f[1 .. k] \in B
  <2>1. Nat \subseteq T
    BY <1>1, <1>2, Induct
  <2>2. \A k \in 0 .. n : k \in Nat /\ k <= n
    OBVIOUS
  <2> QED
    BY <2>1, <2>2 DEF T
<1> DEFINE h == [i \in 0 .. n |-> f[1 .. i]]
<1>4. h \in [0 .. n -> B]
  BY <1>3
<1>5. h[0] = base /\ h[n] = f[1 .. n]
  BY <1>0
<1>6. ASSUME NEW i \in 1 .. n
      PROVE  h[i] = F[i][h[i - 1]]
  <2>1. i - 1 \in 0 .. n /\ i \in 0 .. n
    OBVIOUS
  <2> QED
    BY <1>0, <1>3, <2>1
<1> HIDE DEF h
<1> QED
  BY <1>4, <1>5, <1>6 DEF Course, Ends

\* What _pack does with the next item.
PackStep(b, x) ==
  IF Len(b.items) >= TopK \/ (b.tokens + x.cost > TokenBudget /\ b.items # <<>>)
  THEN b
  ELSE [b EXCEPT !.items = Append(@, x), !.tokens = @ + x.cost]

Bundles(E) == [items : Seq(E), tokens : Nat]
Nothing == [items |-> <<>>, tokens |-> 0]
PackTurns(E, s) == [i \in 1 .. Len(s) |-> [b \in Bundles(E) |-> PackStep(b, s[i])]]

\* Packing goes from the empty bundle through the ranked items in their order.
LEMMA PackCourse ==
  ASSUME NEW E, \A x \in E : x.cost \in Nat, NEW s \in Seq(E)
  PROVE  /\ PackTurns(E, s) \in [1 .. Len(s) -> [Bundles(E) -> Bundles(E)]]
         /\ \E h : /\ Course(h, Bundles(E), Nothing, PackTurns(E, s), Len(s))
                   /\ h[Len(s)] = Pack(s)
<1> DEFINE n == Len(s)
           B == Bundles(E)
           F == PackTurns(E, s)
           Folds(f) == f = [t \in SUBSET DOMAIN s |->
                              IF t = {} THEN Nothing
                              ELSE PackStep(f[t \ {Max(t)}], s[Max(t)])]
           iter == CHOOSE f : Folds(f)
<1>1. Pack(s) = iter[DOMAIN s]
  BY DEF Pack, FoldLeft, MapThenFoldSet, PackStep, Nothing
<1>2. n \in Nat /\ DOMAIN s = 1 .. n /\ Nothing \in B
  BY DEF Bundles, Nothing
<1>3. ASSUME NEW b \in B, NEW x \in E
      PROVE  PackStep(b, x) \in B
  <2>1. Append(b.items, x) \in Seq(E) /\ b.tokens + x.cost \in Nat
    BY DEF Bundles
  <2> QED
    BY <2>1 DEF PackStep, Bundles
<1> HIDE DEF n, B, F, Folds, iter
<1>4. F \in [1 .. n -> [B -> B]] /\ \A i \in 1 .. n : \A b \in B : F[i][b] = PackStep(b, s[i])
  BY <1>2, <1>3 DEF PackTurns, F, B, n
<1>5. PICK g : Runs(g, B, Nothing, F, n)
  <2>1. n \in Nat /\ Nothing \in B /\ F \in [1 .. n -> [B -> B]]
    BY <1>2, <1>4
  <2> QED
    BY <2>1, FoldExists
<1>6. Folds(g)
  <2>1. ASSUME NEW t \in SUBSET (1 .. n), t # {}
        PROVE  g[t] = PackStep(g[t \ {Max(t)}], s[Max(t)])
    <3>1. Max(t) \in t
      <4>1. t \in SUBSET (0 .. n)
        BY <1>2
      <4> QED
        BY <1>2, <2>1, <4>1, MaxInside
    <3>2. Max(t) \in 1 .. n /\ g[t \ {Max(t)}] \in B
      BY <1>2, <1>5, <2>1, <3>1 DEF Runs
    <3> QED
      BY <1>4, <1>5, <2>1, <3>2 DEF Runs
  <2> QED
    BY <1>2, <1>5, <2>1 DEF Runs, Folds
<1>7. Folds(iter)
  BY <1>6 DEF iter
<1>8. iter[1 .. 0] = Nothing
  BY <1>2, <1>7 DEF Folds
<1>9. \A i \in 1 .. n : iter[1 .. i - 1] \in B => iter[1 .. i] = F[i][iter[1 .. i - 1]]
  <2> SUFFICES ASSUME NEW i \in 1 .. n, iter[1 .. i - 1] \in B
               PROVE  iter[1 .. i] = F[i][iter[1 .. i - 1]]
    OBVIOUS
  <2>1. i \in Nat /\ i > 0 /\ 1 .. i \in SUBSET DOMAIN s
    BY <1>2
  <2>2. Max(1 .. i) = i /\ (1 .. i) \ {i} = 1 .. i - 1 /\ 1 .. i # {}
    BY <2>1, Prefix
  <2>3. iter[1 .. i] = PackStep(iter[1 .. i - 1], s[i])
    BY <1>7, <2>1, <2>2 DEF Folds
  <2> QED
    BY <1>4, <2>3
<1>10. n \in Nat /\ Nothing \in B /\ F \in [1 .. n -> [B -> B]]
  BY <1>2, <1>4
<1>11. \E h : Course(h, B, Nothing, F, n) /\ h[n] = iter[1 .. n]
  <2>1. Follows(iter, B, Nothing, F, n)
    BY <1>8, <1>9 DEF Follows
  <2>2. Ends(iter, B, Nothing, F, n)
    BY <1>10, <2>1, Turns
  <2> QED
    BY <2>2 DEF Ends
<1> QED
  BY <1>1, <1>2, <1>4, <1>11 DEF n, B, F

\* The tokens of a bundle's items.
Tokens(s) == FoldLeft(LAMBDA n, x : n + x.cost, 0, s)
TokenTurns(s) == [i \in 1 .. Len(s) |-> [m \in Nat |-> m + s[i].cost]]

LEMMA TokensCourse ==
  ASSUME NEW E, \A x \in E : x.cost \in Nat, NEW s \in Seq(E)
  PROVE  /\ TokenTurns(s) \in [1 .. Len(s) -> [Nat -> Nat]]
         /\ \E h : Course(h, Nat, 0, TokenTurns(s), Len(s)) /\ h[Len(s)] = Tokens(s)
<1> DEFINE n == Len(s)
           F == TokenTurns(s)
           Folds(f) == f = [t \in SUBSET DOMAIN s |->
                              IF t = {} THEN 0 ELSE f[t \ {Max(t)}] + s[Max(t)].cost]
           iter == CHOOSE f : Folds(f)
<1>1. Tokens(s) = iter[DOMAIN s]
  BY DEF Tokens, FoldLeft, MapThenFoldSet
<1>2. n \in Nat /\ DOMAIN s = 1 .. n /\ \A i \in 1 .. n : s[i].cost \in Nat
  OBVIOUS
<1> HIDE DEF n, F, Folds, iter
<1>3. F \in [1 .. n -> [Nat -> Nat]] /\ \A i \in 1 .. n : \A m \in Nat : F[i][m] = m + s[i].cost
  BY <1>2 DEF TokenTurns, F, n
<1>4. PICK g : Runs(g, Nat, 0, F, n)
  <2>1. n \in Nat /\ 0 \in Nat /\ F \in [1 .. n -> [Nat -> Nat]]
    BY <1>2, <1>3
  <2> QED
    BY <2>1, FoldExists
<1>5. Folds(g)
  <2>1. ASSUME NEW t \in SUBSET (1 .. n), t # {}
        PROVE  g[t] = g[t \ {Max(t)}] + s[Max(t)].cost
    <3>1. Max(t) \in t
      <4>1. t \in SUBSET (0 .. n)
        BY <1>2
      <4> QED
        BY <1>2, <2>1, <4>1, MaxInside
    <3>2. Max(t) \in 1 .. n /\ g[t \ {Max(t)}] \in Nat
      BY <1>2, <1>4, <2>1, <3>1 DEF Runs
    <3> QED
      BY <1>3, <1>4, <2>1, <3>2 DEF Runs
  <2> QED
    BY <1>2, <1>4, <2>1 DEF Runs, Folds
<1>6. Folds(iter)
  BY <1>5 DEF iter
<1>7. Follows(iter, Nat, 0, F, n)
  <2>1. iter[1 .. 0] = 0
    BY <1>2, <1>6 DEF Folds
  <2>2. ASSUME NEW i \in 1 .. n, iter[1 .. i - 1] \in Nat
        PROVE  iter[1 .. i] = F[i][iter[1 .. i - 1]]
    <3>1. i \in Nat /\ i > 0 /\ 1 .. i \in SUBSET DOMAIN s
      BY <1>2
    <3>2. Max(1 .. i) = i /\ (1 .. i) \ {i} = 1 .. i - 1 /\ 1 .. i # {}
      BY <3>1, Prefix
    <3>3. iter[1 .. i] = iter[1 .. i - 1] + s[i].cost
      BY <1>6, <3>1, <3>2 DEF Folds
    <3> QED
      BY <1>3, <2>2, <3>3
  <2> QED
    BY <2>1, <2>2 DEF Follows
<1>8. n \in Nat /\ 0 \in Nat /\ F \in [1 .. n -> [Nat -> Nat]]
  BY <1>2, <1>3
<1>9. \E h : Course(h, Nat, 0, F, n) /\ h[n] = iter[1 .. n]
  <2> DEFINE B == Nat
             base == 0
  <2>1. Follows(iter, B, base, F, n)
    BY <1>7
  <2>2. n \in Nat /\ base \in B /\ F \in [1 .. n -> [B -> B]]
    BY <1>8
  <2> HIDE DEF B, base
  <2>3. Ends(iter, B, base, F, n)
    BY <2>1, <2>2, Turns
  <2> QED
    BY <2>3 DEF B, base, Ends
<1> QED
  BY <1>1, <1>2, <1>3, <1>9 DEF n, F

\* No item has no tokens.
LEMMA NoTokens == Tokens(<<>>) = 0
<1>1. PICK h : Course(h, Nat, 0, TokenTurns(<<>>), Len(<<>>)) /\ h[Len(<<>>)] = Tokens(<<>>)
  <2>1. <<>> \in Seq({}) /\ \A x \in {} : x.cost \in Nat
    OBVIOUS
  <2> QED
    BY <2>1, TokensCourse
<1> QED
  BY <1>1 DEF Course

\* An item more adds its tokens.
LEMMA TokensAppend ==
  ASSUME NEW E, \A x \in E : x.cost \in Nat, NEW s \in Seq(E), NEW x \in E
  PROVE  /\ Tokens(s) \in Nat
         /\ Tokens(Append(s, x)) = Tokens(s) + x.cost
<1> DEFINE n == Len(s)
           r == Append(s, x)
<1>1. /\ n \in Nat /\ r \in Seq(E) /\ Len(r) = n + 1 /\ r[n + 1] = x
      /\ \A i \in 1 .. n : r[i] = s[i]
  OBVIOUS
<1>2. PICK h : Course(h, Nat, 0, TokenTurns(s), n) /\ h[n] = Tokens(s)
  BY TokensCourse
<1>3. PICK k : Course(k, Nat, 0, TokenTurns(r), n + 1) /\ k[n + 1] = Tokens(r)
  <2>1. \E k : Course(k, Nat, 0, TokenTurns(r), Len(r)) /\ k[Len(r)] = Tokens(r)
    BY <1>1, TokensCourse
  <2> QED
    BY <1>1, <2>1
<1> HIDE DEF n, r
<1>4. /\ h \in [0 .. n -> Nat] /\ h[0] = 0
      /\ \A i \in 1 .. n : h[i] = h[i - 1] + s[i].cost
  <2>1. \A i \in 1 .. n : h[i] = TokenTurns(s)[i][h[i - 1]] /\ h[i - 1] \in Nat
    BY <1>1, <1>2 DEF Course
  <2>2. \A i \in 1 .. n : \A m \in Nat : TokenTurns(s)[i][m] = m + s[i].cost
    BY DEF TokenTurns, n
  <2> QED
    BY <1>2, <2>1, <2>2 DEF Course
<1>5. /\ k \in [0 .. n + 1 -> Nat] /\ k[0] = 0
      /\ \A i \in 1 .. n + 1 : k[i] = k[i - 1] + r[i].cost
  <2>1. \A i \in 1 .. n + 1 : k[i] = TokenTurns(r)[i][k[i - 1]] /\ k[i - 1] \in Nat
    BY <1>1, <1>3 DEF Course
  <2>2. \A i \in 1 .. n + 1 : \A m \in Nat : TokenTurns(r)[i][m] = m + r[i].cost
    BY <1>1 DEF TokenTurns
  <2> QED
    BY <1>3, <2>1, <2>2 DEF Course
<1> DEFINE T == {i \in Nat : i <= n => k[i] = h[i]}
<1>6. 0 \in T
  BY <1>4, <1>5
<1>7. ASSUME NEW i \in Nat, i \in T
      PROVE  i + 1 \in T
  <2> SUFFICES ASSUME i + 1 <= n
               PROVE  k[i + 1] = h[i + 1]
    OBVIOUS
  <2>1. i <= n /\ i + 1 \in 1 .. n /\ i + 1 \in 1 .. n + 1 /\ i + 1 - 1 = i
    BY <1>1
  <2>2. k[i] = h[i]
    BY <1>7, <2>1
  <2>3. h[i + 1] = h[i] + s[i + 1].cost /\ k[i + 1] = k[i] + r[i + 1].cost
    BY <1>4, <1>5, <2>1
  <2> QED
    BY <1>1, <2>1, <2>2, <2>3
<1> HIDE DEF T
<1>8. n \in T
  BY <1>1, <1>6, <1>7, Induct
<1>9. k[n] = h[n]
  BY <1>1, <1>8 DEF T
<1>10. k[n + 1] = k[n] + x.cost
  <2>1. n + 1 \in 1 .. n + 1 /\ n + 1 - 1 = n
    BY <1>1
  <2> QED
    BY <1>1, <1>5, <2>1
<1>11. Tokens(s) \in Nat
  BY <1>1, <1>2, <1>4
<1> QED
  BY <1>2, <1>3, <1>9, <1>10, <1>11 DEF r

\* A list without repetition.
Once(s) == \A i, j \in DOMAIN s : s[i] = s[j] => i = j

\* What is true of a bundle when the first i of the ranked items have been considered.
Packed(b, E, s, i) ==
  /\ b \in Bundles(E)
  /\ b.tokens = Tokens(b.items)
  /\ \A y \in ToSet(b.items) : \E j \in 1 .. i : s[j] = y
  /\ Once(s) => Once(b.items)
  /\ Len(b.items) <= TopK
  /\ b.tokens <= TokenBudget \/ Len(b.items) = 1
  /\ \/ Len(b.items) = TopK
     \/ \A j \in 1 .. i : s[j] \in ToSet(b.items) \/ b.tokens + s[j].cost > TokenBudget

LEMMA PackTurn ==
  ASSUME NEW E, \A x \in E : x.cost \in Nat, NEW s \in Seq(E), NEW i \in 1 .. Len(s),
         NEW b, Packed(b, E, s, i - 1)
  PROVE  Packed(PackStep(b, s[i]), E, s, i)
<1> DEFINE x == s[i]
           full == Len(b.items) >= TopK
           over == b.tokens + x.cost > TokenBudget /\ b.items # <<>>
           r == Append(b.items, x)
           c == PackStep(b, x)
<1>1. /\ b.items \in Seq(E) /\ b.tokens \in Nat /\ x \in E /\ x.cost \in Nat
      /\ i \in Nat /\ TopK \in Nat /\ TokenBudget \in Nat /\ Len(b.items) \in Nat
      /\ \A j \in 1 .. i : j = i \/ j \in 1 .. i - 1
      /\ \A j \in 1 .. i : s[j].cost \in Nat
  BY RetrievalAssumption DEF Packed, Bundles
<1>2. CASE full \/ over
  <2>1. c = b
    BY <1>2 DEF PackStep
  <2>2. Len(b.items) = TopK \/ b.tokens + x.cost > TokenBudget
    BY <1>1, <1>2 DEF Packed
  <2> HIDE DEF c
  <2>3. \/ Len(b.items) = TopK
        \/ \A j \in 1 .. i : s[j] \in ToSet(b.items) \/ b.tokens + s[j].cost > TokenBudget
    BY <1>1, <2>2 DEF Packed
  <2>4. \A y \in ToSet(b.items) : \E j \in 1 .. i : s[j] = y
    BY <1>1 DEF Packed
  <2>5. Packed(b, E, s, i)
    BY <2>3, <2>4 DEF Packed
  <2> QED
    BY <2>1, <2>5 DEF c
<1>3. CASE ~ full /\ ~ over
  <2>1. c = [b EXCEPT !.items = r, !.tokens = b.tokens + x.cost]
    BY <1>3 DEF PackStep
  <2> HIDE DEF c
  <2>2. c.items = r /\ c.tokens = b.tokens + x.cost
    BY <2>1 DEF Packed, Bundles
  <2>3. r \in Seq(E) /\ Len(r) = Len(b.items) + 1 /\ b.tokens + x.cost \in Nat
    BY <1>1
  <2>4. c \in Bundles(E)
    BY <2>1, <2>3 DEF Packed, Bundles
  <2>5. c.tokens = Tokens(c.items)
    <3>1. Tokens(r) = Tokens(b.items) + x.cost
      BY <1>1, TokensAppend
    <3> QED
      BY <2>2, <3>1 DEF Packed
  <2>6. ToSet(b.items) \subseteq ToSet(r) /\ x \in ToSet(r)
        /\ ToSet(r) \subseteq ToSet(b.items) \cup {x}
    <3> DEFINE q == b.items
               n == Len(q)
    <3>1. /\ q \in Seq(E) /\ n \in Nat /\ r = Append(q, x) /\ DOMAIN q = 1 .. n
          /\ DOMAIN r = 1 .. n + 1 /\ r[n + 1] = x /\ \A j \in 1 .. n : r[j] = q[j]
          /\ n + 1 \in 1 .. n + 1 /\ \A j \in 1 .. n : j \in 1 .. n + 1
          /\ \A j \in 1 .. n + 1 : j = n + 1 \/ j \in 1 .. n
      BY <1>1
    <3> HIDE DEF q, n, r, x
    <3>2. ToSet(q) \subseteq ToSet(r) /\ x \in ToSet(r)
      BY <3>1 DEF ToSet
    <3>3. ToSet(r) \subseteq ToSet(q) \cup {x}
      BY <3>1 DEF ToSet
    <3> QED
      BY <3>2, <3>3 DEF q
  <2>7. \A y \in ToSet(c.items) : \E j \in 1 .. i : s[j] = y
    <3>1. \A y \in ToSet(b.items) : \E j \in 1 .. i : s[j] = y
      BY <1>1 DEF Packed
    <3>2. i \in 1 .. i
      BY <1>1
    <3> QED
      BY <2>2, <2>6, <3>1, <3>2
  <2>8. Once(s) => Once(c.items)
    <3> SUFFICES ASSUME Once(s)
                 PROVE  Once(r)
      BY <2>2
    <3> DEFINE q == b.items
               n == Len(q)
    <3>1. Once(q) /\ \A y \in ToSet(q) : \E j \in 1 .. i - 1 : s[j] = y
      BY DEF Packed
    <3>2. /\ n \in Nat /\ DOMAIN q = 1 .. n /\ DOMAIN r = 1 .. n + 1 /\ r[n + 1] = x
          /\ \A j \in 1 .. n : r[j] = q[j] /\ q[j] \in ToSet(q)
          /\ \A j \in 1 .. n + 1 : j = n + 1 \/ j \in 1 .. n
      BY <1>1 DEF ToSet
    <3>3. \A j \in 1 .. i - 1 : s[j] # x
      <4> TAKE j \in 1 .. i - 1
      <4>1. j \in DOMAIN s /\ i \in DOMAIN s /\ j # i
        BY <1>1
      <4> QED
        BY <4>1 DEF Once
    <3> HIDE DEF q, n, r, x
    <3>4. \A j \in 1 .. n : r[j] # x
      BY <3>1, <3>2, <3>3
    <3> QED
      BY <3>1, <3>2, <3>4 DEF Once
  <2>9. Len(c.items) <= TopK
    BY <1>1, <1>3, <2>2, <2>3
  <2>10. c.tokens <= TokenBudget \/ Len(c.items) = 1
    <3>1. CASE b.items = <<>>
      BY <2>2, <2>3, <3>1
    <3>2. CASE b.tokens + x.cost <= TokenBudget
      BY <2>2, <3>2
    <3> QED
      BY <1>1, <1>3, <3>1, <3>2
  <2>11. \A j \in 1 .. i : s[j] \in ToSet(c.items) \/ c.tokens + s[j].cost > TokenBudget
    <3> TAKE j \in 1 .. i
    <3>1. CASE j = i
      BY <2>2, <2>6, <3>1
    <3>2. CASE j \in 1 .. i - 1
      <4>1. s[j] \in ToSet(b.items) \/ b.tokens + s[j].cost > TokenBudget
        BY <1>1, <1>3, <3>2 DEF Packed
      <4> QED
        BY <1>1, <2>2, <2>6, <4>1
    <3> QED
      BY <1>1, <3>1, <3>2
  <2>12. Packed(c, E, s, i)
    BY <2>4, <2>5, <2>7, <2>9, <2>10, <2>11, <2>8 DEF Packed
  <2> QED
    BY <2>12 DEF c
<1> QED
  BY <1>2, <1>3

\* A bundle keeps to its limits, holds ranked items only, each once if each is ranked
\* once, and leaves out none that fits.
THEOREM PackIsFull ==
  ASSUME NEW E, \A x \in E : x.cost \in Nat, NEW s \in Seq(E)
  PROVE  Packed(Pack(s), E, s, Len(s))
<1> DEFINE n == Len(s)
           F == PackTurns(E, s)
<1>1. PICK h : Course(h, Bundles(E), Nothing, F, n) /\ h[n] = Pack(s)
  BY PackCourse
<1>2. n \in Nat
  OBVIOUS
<1>3. h[0] = Nothing /\ h \in [0 .. n -> Bundles(E)]
  BY <1>1 DEF Course
<1>4. ASSUME NEW i \in 1 .. n
      PROVE  h[i] = PackStep(h[i - 1], s[i])
  <2>1. i - 1 \in 0 .. n /\ h[i - 1] \in Bundles(E)
    BY <1>2, <1>3
  <2>2. h[i] = F[i][h[i - 1]]
    BY <1>1 DEF Course
  <2> QED
    BY <1>2, <2>1, <2>2 DEF PackTurns
<1> DEFINE T == {i \in Nat : i <= n => Packed(h[i], E, s, i)}
<1> HIDE DEF n, F
<1>5. 0 \in T
  <2>1. /\ Nothing.items = <<>> /\ Nothing.tokens = 0 /\ Nothing \in Bundles(E)
        /\ ToSet(<<>>) = {} /\ Len(<<>>) = 0
    BY DEF Nothing, Bundles, ToSet
  <2>2. Tokens(<<>>) = 0
    BY NoTokens
  <2>3. Once(<<>>)
    BY DEF Once
  <2>4. Packed(Nothing, E, s, 0)
    BY <2>1, <2>2, <2>3, RetrievalAssumption DEF Packed
  <2> QED
    BY <1>3, <2>4
<1>6. ASSUME NEW i \in Nat, i \in T
      PROVE  i + 1 \in T
  <2> SUFFICES ASSUME i + 1 <= n
               PROVE  Packed(h[i + 1], E, s, i + 1)
    OBVIOUS
  <2>1. i <= n /\ i + 1 \in 1 .. n /\ i + 1 - 1 = i
    BY <1>2
  <2>2. Packed(h[i], E, s, i)
    BY <1>6, <2>1
  <2>3. h[i + 1] = PackStep(h[i], s[i + 1])
    BY <1>4, <2>1
  <2>4. i + 1 \in 1 .. Len(s) /\ Packed(h[i], E, s, (i + 1) - 1)
    BY <2>1, <2>2 DEF n
  <2> QED
    BY <2>3, <2>4, PackTurn
<1> HIDE DEF T
<1>7. n \in T
  BY <1>2, <1>5, <1>6, Induct
<1> QED
  BY <1>1, <1>2, <1>7 DEF T, n

-----------------------------------------------------------------------------
\* What the ranking computes.
\* The larger and the smaller of two numbers.
LEMMA OfTwo ==
  ASSUME NEW a \in Int, NEW b \in Int
  PROVE  /\ Max({a, b}) = IF a >= b THEN a ELSE b
         /\ Min({a, b}) = IF a >= b THEN b ELSE a
<1>1. Max({a, b}) = IF a >= b THEN a ELSE b
  <2> DEFINE m == IF a >= b THEN a ELSE b
  <2>1. m \in {a, b} /\ {a, b} \in SUBSET Int /\ \A z \in {a, b} : m >= z
    OBVIOUS
  <2> HIDE DEF m
  <2>2. Max({a, b}) = m
    BY <2>1, MaxIs
  <2> QED
    BY <2>2 DEF m
<1>2. Min({a, b}) = IF a >= b THEN b ELSE a
  <2>1. \E x \in {a, b} : \A y \in {a, b} : x <= y
    OBVIOUS
  <2>2. Min({a, b}) \in {a, b} /\ \A y \in {a, b} : Min({a, b}) <= y
    BY <2>1, Zenon DEF Min
  <2> QED
    BY <2>2
<1> QED
  BY <1>1, <1>2

Rankers == {"user", "team", "project", "app_state"}

LEMMA PriorType ==
  ASSUME NEW cues \in [Rankers -> Nat], NEW namespace
  PROVE  Prior(cues, namespace) \in Int
<1> DEFINE raw == [n \in Rankers |-> 10 + (IF n = "app_state" THEN 40 ELSE 60) * cues[n]]
           total == raw["user"] + raw["team"] + raw["project"] + raw["app_state"]
<1>1. \A n \in Rankers : raw[n] \in Nat \ {0}
  OBVIOUS
<1>2. DOMAIN raw = Rankers
  OBVIOUS
<1>3. Prior(cues, namespace) = IF namespace \in DOMAIN raw THEN (100 * raw[namespace]) \div total
                               ELSE 0
  BY DEF Prior, Rankers
<1> HIDE DEF raw
<1>4. total \in Nat \ {0}
  BY <1>1 DEF Rankers
<1> HIDE DEF total
<1>5. CASE namespace \in Rankers
  <2>1. 100 * raw[namespace] \in Nat
    BY <1>1, <1>5
  <2>2. (100 * raw[namespace]) \div total \in Int
    BY <1>4, <2>1
  <2> QED
    BY <1>2, <1>3, <1>5, <2>2
<1>6. CASE namespace \notin Rankers
  BY <1>2, <1>3, <1>6
<1> QED
  BY <1>5, <1>6

LEMMA FreshnessType ==
  ASSUME NEW x, x.ref \in Int, NEW today \in Int
  PROVE  Freshness(x, today) \in Int
<1> DEFINE e == 100 - (100 * (today - x.ref)) \div 365
           m == Min({100, e})
<1>1. e \in Int
  OBVIOUS
<1> HIDE DEF e
<1>2. m \in Int
  <2>1. 100 \in Int
    OBVIOUS
  <2>2. m = IF 100 >= e THEN e ELSE 100
    BY <1>1, <2>1, OfTwo
  <2> QED
    BY <1>1, <2>2
<1> HIDE DEF m
<1>3. Max({0, m}) \in Int
  <2>1. 0 \in Int
    OBVIOUS
  <2>2. Max({0, m}) = IF 0 >= m THEN 0 ELSE m
    BY <1>2, <2>1, OfTwo
  <2> QED
    BY <1>2, <2>2
<1> QED
  BY <1>3 DEF Freshness, m, e

\* What the items of a compiled set are.
Typed(C) ==
  /\ IsFiniteSet(C)
  /\ \A x \in C : /\ x.conf \in Int /\ x.ref \in Int /\ x.cost \in Nat \ {0}
                  /\ IdOrder[x.id] \in Nat
  /\ \A x, y \in C : IdOrder[x.id] = IdOrder[y.id] => x = y

\* A part of a natural number is no larger.
LEMMA PartOf ==
  ASSUME NEW n \in Nat, NEW k \in Nat \ {0}
  PROVE  n \div k \in 0 .. n
<1> DEFINE q == n \div k
<1>1. q \in Int /\ k * q <= n /\ n < k * q + k
  OBVIOUS
<1> HIDE DEF q
<1>2. q >= 0
  <2>1. SUFFICES ASSUME q <= -1 PROVE FALSE
    BY <1>1
  <2>2. k * q <= k * (-1)
    BY <1>1, <2>1
  <2> QED
    BY <1>1, <2>2
<1>3. q <= k * q
  BY <1>1, <1>2
<1> QED
  BY <1>1, <1>2, <1>3 DEF q

\* The fusion gives every item of either ranking a score, of at most two units.
LEMMA FusedType ==
  ASSUME NEW C, NEW lexical \in Seq(C), NEW dense \in Seq(C)
  PROVE  /\ DOMAIN Fused(lexical, dense) = ToSet(lexical) \cup ToSet(dense)
         /\ \A x \in DOMAIN Fused(lexical, dense) :
              Fused(lexical, dense)[x] \in 0 .. RankUnit + RankUnit
<1> DEFINE Rank(ranking, x)  == CHOOSE i \in DOMAIN ranking : ranking[i] = x
           Share(ranking, x) ==
             IF x \in ToSet(ranking) THEN RankUnit \div (60 + Rank(ranking, x)) ELSE 0
           f == [x \in ToSet(lexical) \cup ToSet(dense) |-> Share(lexical, x) + Share(dense, x)]
<1>1. Fused(lexical, dense) = f
  BY DEF Fused
<1>2. ASSUME NEW ranking \in Seq(C), NEW x
      PROVE  Share(ranking, x) \in 0 .. RankUnit
  <2>1. CASE x \in ToSet(ranking)
    <3>1. Rank(ranking, x) \in 1 .. Len(ranking)
      BY <2>1 DEF ToSet
    <3> HIDE DEF Rank
    <3>2. Rank(ranking, x) \in Nat
      BY <3>1
    <3>3. RankUnit \div (60 + Rank(ranking, x)) \in 0 .. RankUnit
      <4> DEFINE k == 60 + Rank(ranking, x)
      <4>1. k \in Nat \ {0}
        BY <3>2
      <4> HIDE DEF k
      <4>2. RankUnit \div k \in 0 .. RankUnit
        BY <4>1, PartOf, RetrievalAssumption
      <4> QED
        BY <4>2 DEF k
    <3> QED
      BY <2>1, <3>3
  <2>2. CASE x \notin ToSet(ranking)
    BY <2>2, RetrievalAssumption
  <2> QED
    BY <2>1, <2>2
<1> HIDE DEF Share
<1>3. \A x \in ToSet(lexical) \cup ToSet(dense) : f[x] \in 0 .. RankUnit + RankUnit
  BY <1>2, RetrievalAssumption
<1> QED
  BY <1>1, <1>3

\* Every item that was fused has a number for a score.
LEMMA RerankType ==
  ASSUME NEW C, Typed(C), NEW lexical \in Seq(C), NEW dense \in Seq(C),
         NEW cues \in [Rankers -> Nat], NEW today \in Int,
         NEW x \in DOMAIN Fused(lexical, dense)
  PROVE  RerankScore(x, Fused(lexical, dense), cues, today) \in Int
<1> DEFINE fused == Fused(lexical, dense)
           all == {fused[y] : y \in DOMAIN fused}
           best == Max(all)
           weight == 5 * Prior(cues, x.namespace) + 4 * x.conf + 2 * Freshness(x, today)
                     - (IF x.acl = "personal" THEN 90 ELSE 0)
<1>1. x \in C
  <2>1. x \in ToSet(lexical) \cup ToSet(dense)
    BY FusedType
  <2> QED
    BY <2>1 DEF ToSet
<1>2. RankUnit + RankUnit \in Nat /\ all \in SUBSET (0 .. RankUnit + RankUnit)
      /\ fused[x] \in all
  <2>1. \A y \in DOMAIN fused : fused[y] \in 0 .. RankUnit + RankUnit
    BY FusedType
  <2>2. x \in DOMAIN fused
    OBVIOUS
  <2> HIDE DEF fused
  <2> QED
    BY <2>1, <2>2, RetrievalAssumption
<1>3. RerankScore(x, fused, cues, today) = 1500 * fused[x] + best * weight
  BY DEF RerankScore
<1> HIDE DEF fused, all
<1>4. best \in Int /\ fused[x] \in Int
  <2> DEFINE top == RankUnit + RankUnit
  <2>1. top \in Nat /\ all \in SUBSET (0 .. top) /\ all # {} /\ fused[x] \in 0 .. top
    BY <1>2
  <2> HIDE DEF top
  <2>2. best \in all
    BY <2>1, MaxInside
  <2>3. best \in 0 .. top
    BY <2>1, <2>2
  <2> QED
    BY <2>1, <2>3
<1>5. weight \in Int
  <2>1. Prior(cues, x.namespace) \in Int
    BY PriorType
  <2>2. x.conf \in Int /\ Freshness(x, today) \in Int
    BY <1>1, FreshnessType DEF Typed
  <2> DEFINE prior == Prior(cues, x.namespace)
             fresh == Freshness(x, today)
             conf == x.conf
             malus == IF x.acl = "personal" THEN 90 ELSE 0
  <2>3. prior \in Int /\ fresh \in Int /\ conf \in Int /\ malus \in Int
    BY <2>1, <2>2
  <2> HIDE DEF prior, fresh, conf, malus
  <2>4. 5 * prior + 4 * conf + 2 * fresh - malus \in Int
    BY <2>3
  <2> QED
    BY <2>4 DEF prior, fresh, conf, malus
<1> HIDE DEF best, weight
<1>6. 1500 * fused[x] + best * weight \in Int
  BY <1>4, <1>5
<1> QED
  BY <1>3, <1>6 DEF fused

\* The first m of a sequence.
LEMMA FirstOf ==
  ASSUME NEW C, NEW s \in Seq(C), NEW m \in 0 .. Len(s)
  PROVE  /\ SubSeq(s, 1, m) \in Seq(C) /\ ToSet(SubSeq(s, 1, m)) \subseteq ToSet(s)
         /\ m = Len(s) => SubSeq(s, 1, m) = s
<1> DEFINE r == SubSeq(s, 1, m)
<1>1. r = [i \in 1 .. m |-> s[i]]
  OBVIOUS
<1>2. m \in Nat /\ Len(s) \in Nat /\ \A i \in 1 .. m : i \in 1 .. Len(s) /\ s[i] \in C
  OBVIOUS
<1> HIDE DEF r
<1>3. r \in Seq(C)
  BY <1>1, <1>2
<1>4. ToSet(r) \subseteq ToSet(s)
  BY <1>1, <1>2 DEF ToSet
<1>5. m = Len(s) => r = s
  BY <1>1, <1>2
<1> QED
  BY <1>3, <1>4, <1>5 DEF r

\* So many as a ranking contributes, of so many.
LEMMA AtMost ==
  ASSUME NEW k \in Nat, NEW n \in Nat
  PROVE  Min({k, n}) \in 0 .. n /\ (n <= k => Min({k, n}) = n)
<1>1. k \in Int /\ n \in Int
  OBVIOUS
<1>2. Min({k, n}) = IF k >= n THEN n ELSE k
  BY <1>1, OfTwo
<1> QED
  BY <1>2

\* Ranking lists items of the indexed set, each once, and all of them if they are no
\* more than a ranking considers.
LEMMA RankedLists ==
  ASSUME NEW C, Typed(C), NEW lexical \in Seq(C),
         NEW dense \in [1 .. Cardinality(C) -> C], ToSet(dense) = C,
         NEW cues \in [Rankers -> Nat], NEW today \in Int
  PROVE  /\ Ranked(lexical, dense, cues, today) \in Seq(C)
         /\ Once(Ranked(lexical, dense, cues, today))
         /\ Cardinality(C) <= CandidateK => ToSet(Ranked(lexical, dense, cues, today)) = C
<1> DEFINE l == SubSeq(lexical, 1, Min({CandidateK, Len(lexical)}))
           d == SubSeq(dense, 1, Min({CandidateK, Len(dense)}))
           fused == Fused(l, d)
           D == DOMAIN fused
           score == [x \in D |-> RerankScore(x, fused, cues, today)]
           Before(x, y) == \/ score[x] > score[y]
                           \/ score[x] = score[y] /\ IdOrder[x.id] < IdOrder[y.id]
           R == {p \in D \X D : Before(p[1], p[2])}
           sorted == CHOOSE s \in [1 .. Cardinality(D) -> D] :
                       /\ ToSet(s) = D
                       /\ \A i, j \in DOMAIN s : i < j => Before(s[i], s[j])
           m == Min({Max({TopK, CandidateK}), Len(sorted)})
<1>1. Ranked(lexical, dense, cues, today) = SubSeq(sorted, 1, m)
  BY DEF Ranked
<1>2. /\ Cardinality(C) \in Nat /\ dense \in Seq(C) /\ Len(dense) = Cardinality(C)
      /\ CandidateK \in Nat /\ TopK \in Nat
  BY FS_CardinalityType, RetrievalAssumption DEF Typed
<1>3. l \in Seq(C)
  <2>1. Len(lexical) \in Nat
    OBVIOUS
  <2>2. Min({CandidateK, Len(lexical)}) \in 0 .. Len(lexical)
    BY <1>2, <2>1, AtMost
  <2> QED
    BY <2>2, FirstOf
<1>4. d \in Seq(C) /\ (Cardinality(C) <= CandidateK => d = dense)
  <2>1. /\ Min({CandidateK, Len(dense)}) \in 0 .. Len(dense)
        /\ Len(dense) <= CandidateK => Min({CandidateK, Len(dense)}) = Len(dense)
    BY <1>2, AtMost
  <2> QED
    BY <1>2, <2>1, FirstOf
<1> HIDE DEF l, d
<1>5. D = ToSet(l) \cup ToSet(d)
  BY <1>3, <1>4, FusedType
<1>6. D \subseteq C
  BY <1>3, <1>4, <1>5 DEF ToSet
<1>7. Cardinality(C) <= CandidateK => D = C
  BY <1>4, <1>5, <1>6
<1>8. IsFiniteSet(D) /\ Cardinality(D) \in Nat /\ Cardinality(D) <= Cardinality(C)
  BY <1>6, FS_Subset, FS_CardinalityType DEF Typed
<1>9. \A x \in D : score[x] \in Int
  BY <1>3, <1>4, RerankType
<1>10. \A x \in D : IdOrder[x.id] \in Nat
  BY <1>6 DEF Typed
<1>11. \A x, y \in D : IdOrder[x.id] = IdOrder[y.id] => x = y
  BY <1>6 DEF Typed
<1> HIDE DEF D, score
<1>12. \A x, y \in D : <<x, y>> \in R <=> Before(x, y)
  OBVIOUS
<1>13. TotalOrder(R, D)
  <2> HIDE DEF R
  <2>1. \A x \in D : ~ Before(x, x)
    BY <1>9, <1>10
  <2>2. ASSUME NEW x \in D, NEW y \in D, NEW z \in D, Before(x, y), Before(y, z)
        PROVE  Before(x, z)
    BY <1>9, <1>10, <2>2
  <2>3. ASSUME NEW x \in D, NEW y \in D, x # y
        PROVE  Before(x, y) \/ Before(y, x)
    BY <1>9, <1>10, <1>11, <2>3
  <2> HIDE DEF Before
  <2> QED
    BY <1>12, <2>1, <2>2, <2>3 DEF TotalOrder
<1> HIDE DEF R
<1>14. PICK s : Sorts(s, R, D)
  BY <1>8, <1>13, SortExists
<1>15. s \in [1 .. Cardinality(D) -> D] /\ ToSet(s) = D
       /\ \A i, j \in DOMAIN s : i < j => Before(s[i], s[j])
  <2> HIDE DEF Before
  <2> QED
    BY <1>12, <1>14 DEF Sorts
<1> HIDE DEF Before
<1>16. /\ sorted \in [1 .. Cardinality(D) -> D] /\ ToSet(sorted) = D
       /\ \A i, j \in DOMAIN sorted : i < j => Before(sorted[i], sorted[j])
  <2> DEFINE All == [1 .. Cardinality(D) -> D]
             Is(t) == /\ ToSet(t) = D
                      /\ \A i, j \in DOMAIN t : i < j => Before(t[i], t[j])
  <2>1. sorted = CHOOSE t \in All : Is(t)
    OBVIOUS
  <2>2. s \in All /\ Is(s)
    BY <1>15
  <2>3. \A t : Is(t) => /\ ToSet(t) = D
                        /\ \A i, j \in DOMAIN t : i < j => Before(t[i], t[j])
    OBVIOUS
  <2> HIDE DEF All, Is, sorted
  <2>4. sorted \in All /\ Is(sorted)
    BY <2>1, <2>2
  <2> QED
    BY <2>3, <2>4 DEF All
<1> HIDE DEF sorted
<1>17. Once(sorted)
  <2>1. \A x \in D : ~ Before(x, x)
    BY <1>12, <1>13 DEF TotalOrder
  <2>2. \A i, j \in DOMAIN sorted :
          i \in Int /\ j \in Int /\ sorted[i] \in D /\ sorted[j] \in D
    BY <1>8, <1>16
  <2>3. \A i, j \in DOMAIN sorted : i < j => sorted[i] # sorted[j]
    BY <1>16, <2>1, <2>2
  <2> QED
    BY <2>2, <2>3 DEF Once
<1>18. sorted \in Seq(C) /\ Len(sorted) = Cardinality(D)
  <2> DEFINE n == Cardinality(D)
  <2>1. n \in Nat /\ sorted \in [1 .. n -> C]
    BY <1>6, <1>8, <1>16
  <2> HIDE DEF n
  <2>2. sorted \in Seq(C) /\ Len(sorted) = n
    BY <2>1
  <2> QED
    BY <2>2 DEF n
<1>19. m \in 0 .. Len(sorted)
       /\ (Cardinality(C) <= CandidateK => m = Len(sorted))
  <2> DEFINE k == Max({TopK, CandidateK})
  <2>1. k \in Nat /\ k >= CandidateK
    <3>1. TopK \in Int /\ CandidateK \in Int
      BY <1>2
    <3>2. k = IF TopK >= CandidateK THEN TopK ELSE CandidateK
      BY <3>1, OfTwo
    <3> QED
      BY <1>2, <3>2
  <2> HIDE DEF k
  <2>2. Len(sorted) \in Nat /\ (Cardinality(C) <= CandidateK => Len(sorted) <= k)
    BY <1>2, <1>8, <1>18, <2>1
  <2>3. m \in 0 .. Len(sorted) /\ (Len(sorted) <= k => m = Len(sorted))
    <3>1. m = Min({k, Len(sorted)})
      BY DEF k
    <3> HIDE DEF m
    <3>2. /\ Min({k, Len(sorted)}) \in 0 .. Len(sorted)
          /\ Len(sorted) <= k => Min({k, Len(sorted)}) = Len(sorted)
      BY <2>1, <2>2, AtMost
    <3> QED
      BY <3>1, <3>2
  <2> QED
    BY <2>2, <2>3
<1> HIDE DEF m
<1>20. SubSeq(sorted, 1, m) \in Seq(C)
       /\ (Cardinality(C) <= CandidateK => SubSeq(sorted, 1, m) = sorted)
  BY <1>18, <1>19, FirstOf
<1>21. Once(SubSeq(sorted, 1, m))
  <2> DEFINE first == SubSeq(sorted, 1, m)
  <2>1. first = [i \in 1 .. m |-> sorted[i]]
    BY <1>18, <1>19
  <2>2. \A i \in 1 .. m : i \in DOMAIN sorted
    BY <1>18, <1>19
  <2> HIDE DEF first
  <2>3. Once(first)
    BY <1>17, <2>1, <2>2 DEF Once
  <2> QED
    BY <2>3 DEF first
<1> QED
  BY <1>1, <1>7, <1>16, <1>20, <1>21

-----------------------------------------------------------------------------
\* The log the runner reads: its types, and that a settled view keeps its rows until
\* someone goes back behind it.
AbsTypeOK ==
  /\ now \in Nat
  /\ \A r \in rows : r.stamp \in Nat
  /\ open \in [Writers -> Nat \cup {Closed}]

\* The runner never touches the log.
LEMMA LogSteps ==
  [BtNext]_btVars => [AbsNext]_absVars /\ (LogStep \/ UNCHANGED world)
<1>1. Runner => UNCHANGED world
  BY DEF Runner, BuildRunner, ListEntities, ReadPayload, Retrieve, OpenSandbox,
     Respond, OutOfSteps, Judged, ClientFails
<1>2. UNCHANGED btVars => UNCHANGED world
  BY DEF btVars, world
<1>3. LogStep => AbsNext
  BY DEF LogStep
<1>4. UNCHANGED world => UNCHANGED absVars
  BY DEF world, absVars
<1> QED
  BY <1>1, <1>2, <1>3, <1>4 DEF BtNext

LEMMA AbsTypeStep ==
  AbsTypeOK /\ [AbsNext]_absVars => AbsTypeOK'
<1> SUFFICES ASSUME AbsTypeOK, [AbsNext]_absVars
             PROVE  AbsTypeOK'
  OBVIOUS
<1> USE DEF AbsTypeOK
<1>1. CASE Advance
  BY <1>1 DEF Advance
<1>2. CASE LearnMany
  BY <1>2, InstantsAssumption DEF LearnMany
<1>3. ASSUME NEW w \in Writers, BeginAt(w) \/ Learn(w) \/ EndAt(w)
      PROVE  AbsTypeOK'
  BY <1>3, InstantsAssumption DEF BeginAt, Learn, EndAt
<1>4. CASE UNCHANGED absVars
  BY <1>4 DEF absVars
<1> QED
  BY <1>1, <1>2, <1>3, <1>4 DEF AbsNext

\* Every pass under way at a settled instant is stamped later.
LEMMA SettledStep ==
  ASSUME AbsTypeOK, [AbsNext]_absVars, NEW tau \in Nat, Settled(tau), ~ Rewrites(tau)
  PROVE  Settled(tau)' /\ Known(tau)' = Known(tau)
<1> USE DEF AbsTypeOK, Settled, Known
<1>1. CASE Advance
  BY <1>1 DEF Advance
<1>2. CASE LearnMany
  <2>1. \A r \in rows' \ rows : ~ (r.stamp <= tau)
    BY <1>2 DEF Rewrites
  <2>2. rows \subseteq rows' /\ UNCHANGED <<open, now>>
    BY <1>2 DEF LearnMany
  <2> QED
    BY <2>1, <2>2
<1>3. ASSUME NEW w \in Writers, BeginAt(w)
      PROVE  Settled(tau)' /\ Known(tau)' = Known(tau)
  <2>1. PICK ts \in {now} \cup Given : open' = [open EXCEPT ![w] = ts]
    BY <1>3 DEF BeginAt
  <2>2. open[w] = Closed /\ open'[w] = ts /\ rows' = rows /\ now' = now
    BY <1>3, <2>1 DEF BeginAt
  <2>3. ts = Closed \/ ts > tau
    BY <2>1, <2>2, InstantsAssumption DEF Rewrites
  <2> QED
    BY <2>1, <2>2, <2>3
<1>4. ASSUME NEW w \in Writers, Learn(w)
      PROVE  Settled(tau)' /\ Known(tau)' = Known(tau)
  <2>1. PICK e \in Events, n \in 1 .. Highest + 1 :
          rows' = rows \cup {[event |-> e, stamp |-> open[w], seq |-> n]}
    BY <1>4 DEF Learn
  <2>2. open[w] \in Nat /\ open[w] > tau
    BY <1>4 DEF Learn
  <2> QED
    BY <1>4, <2>1, <2>2 DEF Learn
<1>5. ASSUME NEW w \in Writers, EndAt(w)
      PROVE  Settled(tau)' /\ Known(tau)' = Known(tau)
  BY <1>5 DEF EndAt
<1>6. CASE UNCHANGED absVars
  BY <1>6 DEF absVars
<1> QED
  BY <1>1, <1>2, <1>3, <1>4, <1>5, <1>6 DEF AbsNext

-----------------------------------------------------------------------------
\* The runner.
\* What the stub's one call leaves in a condition's sandbox.
StubWrites(c) ==
  <<>> \o Executed(<<>>, <<Decide(This.says, This.project,
                                  Mounted(Claims(bundle), Conditions[c]))>>)

\* The result of a condition so run.
StubResult(c) ==
  LET claims == IF c = 1 THEN <<>> ELSE Claims(bundle)
  IN  [label |-> IF claims = <<>> THEN "without_memory" ELSE "with_memory",
       writes |-> StubWrites(c), claims |-> claims,
       scores |-> Scores(This, StubWrites(c), claims)]

\* Where the runner stands, and how many results it has.
InTask == {"list", "payloads", "sandbox", "agent", "judge"}
InCondition == {"sandbox", "agent", "judge"}

ShapeInv ==
  /\ AbsTypeOK
  /\ steps \in Nat /\ task \in Nat
  /\ pc \in InTask \cup {"start", "done", "dead"}
  /\ cond \in {1, 2}
  /\ pc \in InTask => task \in 1 .. Len(Tasks)
  /\ cond = 2 => pc \in InCondition \cup {"dead"}
  /\ pc = "dead" => report = <<>>
  /\ pc = "start" => report = <<>> /\ task = 1
  /\ pc \in InTask => (\E T : report \in Seq(T))
                      /\ Len(report) = IF cond = 2 THEN task ELSE task - 1

\* A task is steady only once it was seeded, at an instant that was settled and still is.
SteadyInv ==
  \A k \in steady : k \in 1 .. Len(Tasks) /\ k <= task /\ Settled(Tasks[k].ingest)

\* A workspace some of whose names are yet to be read.
SeenNames(t) == UNION {Names(c, t) : c \in Seen(t)}
PartlyRead(ws, t) ==
  /\ ws \in [Seen(t) -> [name : {Unread} \cup SeenNames(t), deleted : BOOLEAN]]
  /\ \A c \in Seen(t) : /\ ws[c].name \in {Unread} \cup Names(c, t)
                        /\ ws[c].deleted \in Tombstones(c, t)

\* The workspace of a steady task is read as it stays.
StateInv ==
  task \in steady =>
    /\ pc = "payloads" => PartlyRead(state, This)
    /\ pc \in InCondition => state \in Workspaces(This)

\* The stub's course through a condition.
AgentInv ==
  llm = "stub" =>
    /\ pc = "agent" => \/ steps = 0 /\ calls = <<>> /\ writes = <<>>
                       \/ steps > 0 /\ calls # <<>> /\ writes = StubWrites(cond)
    /\ pc = "judge" => writes = StubWrites(cond)

\* What one call of the stub leaves on a workspace in a condition of a task.
MadeOn(ws, r, k, i) ==
  r.writes = Writes(ws, Decide(Tasks[k].says, Tasks[k].project,
                               Mounted(r.claims, Conditions[i])))

\* Two results that can be repeated, both on one workspace.
Repeatable(r, s, k) ==
  faults = <<>> /\ k \in steady =>
    \E ws \in Workspaces(Tasks[k]) : MadeOn(ws, r, k, 1) /\ MadeOn(ws, s, k, 2)

\* A task's pair of results: both can be repeated, and they differ by memory only.
GoodPair(k) ==
  \E r, s : /\ report[k] = <<r, s>>
            /\ s.claims = <<>> => r = s
            /\ Repeatable(r, s, k)

ReportInv ==
  llm = "stub" =>
    \A k \in DOMAIN report :
      IF pc \in InTask /\ k = task
      THEN report[k] = <<StubResult(1)>>
      ELSE k \in 1 .. Len(Tasks) /\ GoodPair(k)

\* The inductive invariant.
BtInv == ShapeInv /\ SteadyInv /\ StateInv /\ AgentInv /\ ReportInv

-----------------------------------------------------------------------------
\* What a task is shown depends on its rows only.
SameView(t) ==
  /\ Seen(t)' = Seen(t)
  /\ \A c : Names(c, t)' = Names(c, t) /\ Tombstones(c, t)' = Tombstones(c, t)

LEMMA SameRows ==
  ASSUME NEW t, \A c : Rows(c, t)' = Rows(c, t)
  PROVE  SameView(t)
<1>1. Seen(t)' = Seen(t)
  BY DEF Seen
<1>2. ASSUME NEW c PROVE Names(c, t)' = Names(c, t)
  <2>1. Rows(c, t)' = Rows(c, t)
    OBVIOUS
  <2> QED
    BY <2>1 DEF Names, Final, Precedes
<1>3. ASSUME NEW c PROVE Tombstones(c, t)' = Tombstones(c, t)
  <2>1. Rows(c, t)' = Rows(c, t)
    OBVIOUS
  <2> QED
    BY <2>1 DEF Tombstones, Final, Precedes
<1> QED
  BY <1>1, <1>2, <1>3 DEF SameView

\* So do its workspaces, whole or in part.
LEMMA SameWorkspaces ==
  ASSUME NEW t, SameView(t)
  PROVE  /\ Workspaces(t)' = Workspaces(t)
         /\ PartlyRead(state, t)' <=> PartlyRead(state', t)
<1>1. SeenNames(t)' = SeenNames(t)
  BY DEF SameView, SeenNames
<1>2. Workspaces(t) =
        {ws \in [Seen(t) -> [name : SeenNames(t), deleted : BOOLEAN]] :
           \A c \in Seen(t) : ws[c].name \in Names(c, t) /\ ws[c].deleted \in Tombstones(c, t)}
  BY DEF Workspaces, SeenNames
<1>3. Workspaces(t)' =
        {ws \in [Seen(t)' -> [name : SeenNames(t)', deleted : BOOLEAN]] :
           \A c \in Seen(t)' : ws[c].name \in Names(c, t)' /\ ws[c].deleted \in Tombstones(c, t)'}
  BY DEF Workspaces, SeenNames
<1>4. Workspaces(t)' = Workspaces(t)
  BY <1>1, <1>2, <1>3 DEF SameView
<1>5. PartlyRead(state, t)' <=> PartlyRead(state', t)
  BY <1>1 DEF SameView, PartlyRead
<1> QED
  BY <1>4, <1>5

\* A task that stays steady keeps what it is shown.
LEMMA SteadyView ==
  ASSUME ShapeInv, SteadyInv, [BtNext]_btVars, NEW k \in steady, k \in steady'
  PROVE  Settled(Tasks[k].ingest)' /\ SameView(Tasks[k])
<1>1. k \in 1 .. Len(Tasks) /\ Settled(Tasks[k].ingest)
  BY DEF SteadyInv
<1> DEFINE t == Tasks[k]
           tau == t.ingest
<1>2. tau \in Nat
  BY <1>1, BacktestAssumption
<1>3. AbsTypeOK /\ [AbsNext]_absVars
  BY LogSteps DEF ShapeInv
<1>4. Settled(tau)' /\ Known(tau)' = Known(tau)
  <2>1. CASE LogStep
    <3>1. ~ Rewrites(tau)
      BY <2>1 DEF LogStep
    <3>2. Settled(tau)
      BY <1>1
    <3> HIDE DEF tau
    <3> QED
      BY <1>2, <1>3, <3>1, <3>2, SettledStep
  <2>2. CASE UNCHANGED world
    BY <1>1, <2>2 DEF world, Settled, Known
  <2> QED
    BY <2>1, <2>2, LogSteps
<1>5. \A c : Rows(c, t) = {r \in Known(tau) : r.event.channel = c /\ r.event.validAt <= t.valid}
  BY DEF Rows, Known
<1>6. \A c : Rows(c, t)' = {r \in Known(tau)' : r.event.channel = c /\ r.event.validAt <= t.valid}
  BY DEF Rows, Known
<1>7. \A c : Rows(c, t)' = Rows(c, t)
  BY <1>4, <1>5, <1>6
<1>8. SameView(t)
  <2> HIDE DEF t
  <2> QED
    BY <1>7, SameRows
<1> QED
  BY <1>4, <1>8

\* A call leaves one write or none.
LEMMA WritesOneOrNone ==
  ASSUME NEW s, NEW call
  PROVE  Writes(s, call) = <<>> \/ \E w : Writes(s, call) = <<w>>
BY Zenon DEF Writes

\* The writes of one call without faults are the call's.
LEMMA OneCall ==
  ASSUME NEW call, faults = <<>>
  PROVE  <<>> \o Executed(<<>>, <<call>>) = Writes(state, call)
<1> DEFINE one == [i \in 1 .. Len(<<call>>) |->
                     IF Faulted(faults, <<>> \o SubSeq(<<call>>, 1, i)) THEN <<>>
                     ELSE Writes(state, <<call>>[i])]
<1>1. \A made : ~ Faulted(faults, made)
  BY DEF Faulted
<1>2. one = <<Writes(state, call)>>
  BY <1>1
<1>3. ASSUME NEW w PROVE FlattenSeq(<<w>>) = w
  <2> DEFINE f == CHOOSE f : f = [i \in 1 .. Len(<<w>>) |->
                                    IF i = 1 THEN <<w>>[i] ELSE f[i-1] \o <<w>>[i]]
             g == [i \in 1 .. Len(<<w>>) |-> w]
  <2>1. g = [i \in 1 .. Len(<<w>>) |-> IF i = 1 THEN <<w>>[i] ELSE g[i-1] \o <<w>>[i]]
    OBVIOUS
  <2>2. f = [i \in 1 .. Len(<<w>>) |-> IF i = 1 THEN <<w>>[i] ELSE f[i-1] \o <<w>>[i]]
    BY <2>1
  <2>3. f[1] = w
    BY <2>2
  <2> QED
    BY <2>3 DEF FlattenSeq
<1>4. Executed(<<>>, <<call>>) = Writes(state, call)
  BY <1>2, <1>3 DEF Executed
<1>5. CASE Writes(state, call) = <<>>
  BY <1>4, <1>5
<1>6. CASE \E w : Writes(state, call) = <<w>>
  BY <1>4, <1>6
<1> QED
  BY <1>5, <1>6, WritesOneOrNone

-----------------------------------------------------------------------------
\* Sequences of results.
LEMMA AppendResult ==
  ASSUME NEW T, NEW q \in Seq(T), NEW x
  PROVE  /\ \E S : Append(q, x) \in Seq(S)
         /\ Len(Append(q, x)) = Len(q) + 1
         /\ DOMAIN Append(q, x) = DOMAIN q \cup {Len(q) + 1}
         /\ Append(q, x)[Len(q) + 1] = x
         /\ \A k \in DOMAIN q : Append(q, x)[k] = q[k]
<1>1. q \in Seq(T \cup {x})
  OBVIOUS
<1>2. Append(q, x) \in Seq(T \cup {x})
  BY <1>1
<1> QED
  BY <1>1, <1>2

LEMMA ReplaceResult ==
  ASSUME NEW T, NEW q \in Seq(T), NEW k \in DOMAIN q, NEW x
  PROVE  /\ \E S : [q EXCEPT ![k] = x] \in Seq(S)
         /\ Len([q EXCEPT ![k] = x]) = Len(q)
         /\ DOMAIN [q EXCEPT ![k] = x] = DOMAIN q
<1>1. q \in Seq(T \cup {x})
  OBVIOUS
<1>2. [q EXCEPT ![k] = x] \in Seq(T \cup {x})
  BY <1>1
<1> QED
  BY <1>1, <1>2

LEMMA PairOfResults ==
  ASSUME NEW S, NEW two \in Seq(S), Len(two) = 2
  PROVE  two = <<two[1], two[2]>>
OBVIOUS

\* The second result of a task.
LEMMA SecondResult ==
  ASSUME NEW T, NEW q \in Seq(T), NEW s, Len(q) = 1
  PROVE  Append(q, s) = <<q[1], s>>
<1>1. /\ Len(Append(q, s)) = Len(q) + 1
      /\ Append(q, s)[Len(q) + 1] = s
      /\ \A k \in DOMAIN q : Append(q, s)[k] = q[k]
  BY AppendResult
<1>2. Len(Append(q, s)) = 2 /\ Append(q, s)[2] = s /\ Append(q, s)[1] = q[1]
  BY <1>1
<1>3. PICK S : Append(q, s) \in Seq(S)
  BY AppendResult
<1> QED
  BY <1>2, <1>3, PairOfResults

\* What the runner's steps within a task leave alone, and where they lead.
LEMMA RunnerFrames ==
  /\ ListEntities \/ ReadPayload \/ Retrieve \/ OpenSandbox \/ Respond \/ OutOfSteps =>
       UNCHANGED <<world, llm, faults, task, cond, report>>
  /\ ListEntities => pc = "list" /\ pc' = "payloads" /\ UNCHANGED <<steps, bundle>>
  /\ ReadPayload => pc = "payloads" /\ pc' = "payloads" /\ UNCHANGED <<steps, steady, bundle>>
  /\ Retrieve => pc = "payloads" /\ pc' = "sandbox" /\ UNCHANGED <<steps, state, steady>>
  /\ OpenSandbox => pc = "sandbox" /\ pc' = "agent" /\ steps' = 0
                    /\ UNCHANGED <<state, steady, bundle>>
  /\ Respond => pc = "agent" /\ pc' \in {"agent", "judge"} /\ steps' = steps + 1
                /\ UNCHANGED <<state, steady, bundle>>
  /\ OutOfSteps => pc = "agent" /\ pc' = "judge"
                   /\ UNCHANGED <<steps, calls, writes, state, steady, bundle>>
<1>1. ListEntities => /\ UNCHANGED <<world, llm, faults, task, cond, report, steps, bundle>>
                      /\ pc = "list" /\ pc' = "payloads"
  BY DEF ListEntities
<1>2. ReadPayload => /\ UNCHANGED <<world, llm, faults, task, cond, report, steps, steady, bundle>>
                     /\ pc = "payloads" /\ pc' = "payloads"
  BY DEF ReadPayload
<1>3. Retrieve => /\ UNCHANGED <<world, llm, faults, task, cond, report, steps, state, steady>>
                  /\ pc = "payloads" /\ pc' = "sandbox"
  BY DEF Retrieve
<1>4. OpenSandbox => /\ UNCHANGED <<world, llm, faults, task, cond, report, state, steady, bundle>>
                     /\ pc = "sandbox" /\ pc' = "agent" /\ steps' = 0
  BY DEF OpenSandbox
<1>5. Respond => /\ UNCHANGED <<world, llm, faults, task, cond, report, state, steady, bundle>>
                 /\ pc = "agent" /\ pc' \in {"agent", "judge"} /\ steps' = steps + 1
  BY DEF Respond
<1>6. OutOfSteps => /\ UNCHANGED <<world, llm, faults, task, cond, report, state, steady, bundle,
                                   steps, calls, writes>>
                    /\ pc = "agent" /\ pc' = "judge"
  BY DEF OutOfSteps
<1> QED
  BY <1>1, <1>2, <1>3, <1>4, <1>5, <1>6

\* Every step keeps the shape.
LEMMA ShapeStep ==
  ASSUME ShapeInv, [BtNext]_btVars
  PROVE  ShapeInv'
<1> USE BacktestAssumption DEF ShapeInv, InTask, InCondition
<1>0. AbsTypeOK'
  BY LogSteps, AbsTypeStep
<1>1. CASE LogStep \/ UNCHANGED btVars
  <2>1. UNCHANGED <<pc, task, cond, steps, report>>
    BY <1>1 DEF LogStep, btVars, run
  <2> QED
    BY <1>0, <2>1
<1>2. CASE BuildRunner
  <2>1. <<>> \in Seq({}) /\ Len(<<>>) = 0
    OBVIOUS
  <2>2. /\ pc' = IF Len(Tasks) = 0 THEN "done" ELSE "list"
        /\ report' = <<>> /\ task' = 1 /\ cond' = 1 /\ cond = 1
        /\ UNCHANGED steps
    BY <1>2 DEF BuildRunner, world
  <2> QED
    BY <1>0, <2>1, <2>2
<1>3. CASE ListEntities \/ ReadPayload \/ Retrieve \/ OpenSandbox \/ Respond \/ OutOfSteps
  <2>1. UNCHANGED <<task, cond, report>>
    BY <1>3, RunnerFrames DEF world
  <2>2. pc \in InTask /\ pc' \in InTask /\ (cond = 2 => pc' \in InCondition) /\ steps' \in Nat
    BY <1>3, RunnerFrames
  <2> QED
    BY <1>0, <2>1, <2>2
<1>4. CASE Judged
  <2>1. PICK T : report \in Seq(T)
    BY <1>4 DEF Judged
  <2>2. /\ pc = "judge" /\ task \in 1 .. Len(Tasks) /\ UNCHANGED steps
        /\ Len(report) = IF cond = 2 THEN task ELSE task - 1
    BY <1>4 DEF Judged, world
  <2>3. CASE cond = 1
    <3>1. report' = Append(report, <<Result>>) /\ cond' = 2 /\ pc' = "sandbox" /\ task' = task
      BY <1>4, <2>3 DEF Judged
    <3>2. (\E S : report' \in Seq(S)) /\ Len(report') = Len(report) + 1
      BY <2>1, <3>1, AppendResult
    <3> QED
      BY <1>0, <2>2, <2>3, <3>1, <3>2
  <2>4. CASE cond = 2
    <3>1. /\ report' = [report EXCEPT ![task] = Append(report[task], Result)] /\ cond' = 1
          /\ IF task = Len(Tasks) THEN pc' = "done" /\ task' = task
             ELSE pc' = "list" /\ task' = task + 1
      BY <1>4, <2>4 DEF Judged
    <3>2. task \in DOMAIN report
      BY <2>1, <2>2, <2>4
    <3>3. (\E S : report' \in Seq(S)) /\ Len(report') = Len(report)
      BY <2>1, <3>1, <3>2, ReplaceResult
    <3> QED
      BY <1>0, <2>2, <2>4, <3>1, <3>3
  <2> QED
    BY <2>3, <2>4
<1>5. CASE ClientFails
  BY <1>0, <1>5 DEF ClientFails
<1> QED
  BY <1>1, <1>2, <1>3, <1>4, <1>5 DEF BtNext, Runner

\* A task becomes steady when it is seeded, and goes on being settled while it is.
LEMMA SteadyStep ==
  ASSUME ShapeInv, SteadyInv, [BtNext]_btVars
  PROVE  SteadyInv'
<1>1. ASSUME NEW k \in steady, k \in steady', task <= task', task \in Int, task' \in Int
      PROVE  k \in 1 .. Len(Tasks) /\ k <= task' /\ Settled(Tasks[k].ingest)'
  <2>1. Settled(Tasks[k].ingest)'
    BY <1>1, SteadyView
  <2>2. k \in 1 .. Len(Tasks) /\ k <= task /\ Len(Tasks) \in Nat
    BY BacktestAssumption DEF SteadyInv
  <2> QED
    BY <1>1, <2>1, <2>2
<1>2. CASE ListEntities
  <2>1. /\ task' = task /\ task \in 1 .. Len(Tasks) /\ UNCHANGED world
        /\ steady' = IF Settled(This.ingest) THEN steady \cup {task} ELSE steady
    BY <1>2 DEF ListEntities, ShapeInv, InTask
  <2>2. ASSUME NEW k \in steady', k \notin steady
        PROVE  k \in 1 .. Len(Tasks) /\ k <= task' /\ Settled(Tasks[k].ingest)'
    <3>1. k = task /\ Settled(Tasks[k].ingest)
      BY <2>1, <2>2 DEF This
    <3>2. Settled(Tasks[k].ingest)'
      BY <2>1, <3>1 DEF world, Settled
    <3> QED
      BY <2>1, <3>1, <3>2, BacktestAssumption
  <2> QED
    BY <1>1, <2>1, <2>2, BacktestAssumption DEF SteadyInv
<1>3. CASE ~ ListEntities
  <2>1. steady' \subseteq steady
    BY <1>3 DEF BtNext, Runner, LogStep, BuildRunner, ReadPayload, Retrieve, OpenSandbox,
       Respond, OutOfSteps, Judged, ClientFails, btVars
  <2>2. task' = task \/ task' = task + 1
    BY <1>3 DEF BtNext, Runner, LogStep, run, BuildRunner, ReadPayload, Retrieve, OpenSandbox,
       Respond, OutOfSteps, Judged, ClientFails, btVars
  <2>3. CASE steady' = {}
    BY <2>3 DEF SteadyInv
  <2>4. CASE steady' # {}
    BY <1>1, <2>1, <2>2 DEF SteadyInv, ShapeInv
  <2> QED
    BY <2>3, <2>4
<1> QED
  BY <1>2, <1>3

\* The workspace read for a steady task is one of its instant.
LEMMA StateStep ==
  ASSUME ShapeInv, SteadyInv, StateInv, [BtNext]_btVars
  PROVE  StateInv'
<1> USE DEF InTask, InCondition
<1>1. ASSUME UNCHANGED <<task, state>>, steady' \subseteq steady,
             pc' = pc \/ (pc \in InCondition /\ pc' \in InCondition)
      PROVE  StateInv'
  <2> SUFFICES ASSUME task' \in steady'
               PROVE  StateInv'
    BY DEF StateInv
  <2>1. PICK k \in steady : k = task /\ k \in steady'
    BY <1>1
  <2>2. SameView(Tasks[k])
    BY <2>1, SteadyView
  <2>3. This = Tasks[k] /\ This' = Tasks[k]
    BY <1>1, <2>1 DEF This
  <2>4. /\ pc = "payloads" => PartlyRead(state, Tasks[k])
        /\ pc \in InCondition => state \in Workspaces(Tasks[k])
    BY <2>1, <2>3 DEF StateInv
  <2>5. /\ PartlyRead(state, Tasks[k])' <=> PartlyRead(state', Tasks[k])
        /\ Workspaces(Tasks[k])' = Workspaces(Tasks[k])
    BY <2>2, SameWorkspaces
  <2>6. /\ PartlyRead(state', Tasks[k]) <=> PartlyRead(state, Tasks[k])
    <3>1. state' = state
      BY <1>1
    <3> QED
      BY <3>1 DEF PartlyRead
  <2>7. /\ pc' = "payloads" => PartlyRead(state, Tasks[k])'
        /\ pc' \in InCondition => state' \in Workspaces(Tasks[k])'
    BY <1>1, <2>4, <2>5, <2>6
  <2> QED
    BY <2>3, <2>7 DEF StateInv
<1>2. CASE LogStep \/ UNCHANGED btVars
  <2>1. UNCHANGED <<pc, task, state>> /\ steady' \subseteq steady
    BY <1>2 DEF LogStep, btVars, run
  <2> QED
    BY <1>1, <2>1
<1>3. CASE BuildRunner
  BY <1>3 DEF BuildRunner, StateInv
<1>4. CASE ListEntities
  <2>1. /\ state' \in [Seen(This) -> [name : {Unread}, deleted : BOOLEAN]]
        /\ \A c \in Seen(This) : state'[c].deleted \in Tombstones(c, This)
        /\ pc' = "payloads" /\ UNCHANGED <<world, task>>
    BY <1>4 DEF ListEntities
  <2>2. PartlyRead(state', This)
    BY <2>1 DEF PartlyRead
  <2>3. PICK k : k = task
    OBVIOUS
  <2>4. This = Tasks[k] /\ This' = Tasks[k]
    BY <2>1, <2>3 DEF This
  <2>5. SameView(Tasks[k])
    <3>1. \A c : Rows(c, Tasks[k])' = Rows(c, Tasks[k])
      BY <2>1 DEF Rows, world
    <3> QED
      BY <3>1, SameRows
  <2>6. PartlyRead(state, Tasks[k])'
    BY <2>2, <2>4, <2>5, SameWorkspaces
  <2> QED
    BY <2>1, <2>4, <2>6 DEF StateInv
<1>5. CASE ReadPayload
  <2> SUFFICES ASSUME task' \in steady'
               PROVE  StateInv'
    BY DEF StateInv
  <2>0. PICK c \in DOMAIN state : \E name \in Names(c, This) :
          state' = [state EXCEPT ![c].name = name]
    BY <1>5 DEF ReadPayload
  <2>1. PICK name \in Names(c, This) : state' = [state EXCEPT ![c].name = name]
    BY <2>0
  <2>2. UNCHANGED <<world, task, steady>> /\ pc = "payloads" /\ pc' = "payloads"
    BY <1>5, RunnerFrames
  <2>3. PICK k : k = task
    OBVIOUS
  <2>4. This = Tasks[k] /\ This' = Tasks[k]
    BY <2>2, <2>3 DEF This
  <2>5. SameView(Tasks[k])
    <3>1. \A d : Rows(d, Tasks[k])' = Rows(d, Tasks[k])
      BY <2>2 DEF Rows, world
    <3> QED
      BY <3>1, SameRows
  <2>6. PartlyRead(state, Tasks[k])
    BY <2>2, <2>4 DEF StateInv
  <2>7. PartlyRead(state', Tasks[k])
    <3> DEFINE S == Seen(Tasks[k])
               D == [name : {Unread} \cup SeenNames(Tasks[k]), deleted : BOOLEAN]
    <3>1. c \in S /\ name \in Names(c, Tasks[k]) /\ name \in SeenNames(Tasks[k])
      BY <2>1, <2>4, <2>6 DEF PartlyRead, SeenNames
    <3>2. state \in [S -> D]
      BY <2>6 DEF PartlyRead
    <3>3. /\ DOMAIN state' = S
          /\ \A d \in S : state'[d] = IF d = c THEN [state[d] EXCEPT !.name = name] ELSE state[d]
      BY <2>1, <3>1, <3>2
    <3>4. \A d \in S : state'[d] \in D
      BY <3>1, <3>2, <3>3
    <3>5. state' \in [S -> D]
      <4>1. state' = [d \in S |-> state'[d]]
        BY <2>1, <3>2
      <4> QED
        BY <3>4, <4>1
    <3>6. \A d \in S : /\ state'[d].name \in {Unread} \cup Names(d, Tasks[k])
                       /\ state'[d].deleted \in Tombstones(d, Tasks[k])
      BY <2>6, <3>1, <3>2, <3>3 DEF PartlyRead
    <3> QED
      BY <3>5, <3>6 DEF PartlyRead
  <2>8. PartlyRead(state, Tasks[k])'
    BY <2>5, <2>7, SameWorkspaces
  <2> QED
    BY <2>2, <2>4, <2>8 DEF StateInv
<1>6. CASE Retrieve
  <2> SUFFICES ASSUME task' \in steady'
               PROVE  StateInv'
    BY DEF StateInv
  <2>1. /\ UNCHANGED <<world, task, steady, state>>
        /\ pc = "payloads" /\ pc' = "sandbox"
    BY <1>6, RunnerFrames
  <2>2. \A d \in DOMAIN state : state[d].name # Unread
    BY <1>6 DEF Retrieve
  <2>3. PICK k : k = task
    OBVIOUS
  <2>4. This = Tasks[k] /\ This' = Tasks[k]
    BY <2>1, <2>3 DEF This
  <2>5. SameView(Tasks[k])
    <3>1. \A d : Rows(d, Tasks[k])' = Rows(d, Tasks[k])
      BY <2>1 DEF Rows, world
    <3> QED
      BY <3>1, SameRows
  <2>6. PartlyRead(state, Tasks[k])
    BY <2>1, <2>4 DEF StateInv
  <2>7. state \in Workspaces(Tasks[k])
    <3> DEFINE S == Seen(Tasks[k])
    <3>1. /\ state \in [S -> [name : {Unread} \cup SeenNames(Tasks[k]), deleted : BOOLEAN]]
          /\ \A d \in S : /\ state[d].name \in Names(d, Tasks[k])
                          /\ state[d].deleted \in Tombstones(d, Tasks[k])
      BY <2>2, <2>6 DEF PartlyRead
    <3>2. \A d \in S : state[d] \in [name : SeenNames(Tasks[k]), deleted : BOOLEAN]
      BY <3>1 DEF SeenNames
    <3>3. state \in [S -> [name : SeenNames(Tasks[k]), deleted : BOOLEAN]]
      BY <3>1, <3>2
    <3> QED
      BY <3>1, <3>3 DEF Workspaces, SeenNames
  <2>8. state' \in Workspaces(Tasks[k])'
    BY <2>1, <2>5, <2>7, SameWorkspaces
  <2> QED
    BY <2>1, <2>4, <2>8 DEF StateInv
<1>7. CASE OpenSandbox \/ Respond \/ OutOfSteps
  <2>1. /\ UNCHANGED <<world, task, steady, state>>
        /\ pc \in InCondition /\ pc' \in InCondition
    BY <1>7, RunnerFrames
  <2> QED
    BY <1>1, <2>1
<1>8. CASE Judged
  <2>1. /\ pc = "judge" /\ UNCHANGED <<state, steady>>
        /\ pc' \in {"sandbox", "done", "list"} /\ (pc' = "sandbox" => task' = task)
    BY <1>8 DEF Judged
  <2>2. CASE pc' = "sandbox"
    BY <1>1, <2>1, <2>2
  <2>3. CASE pc' # "sandbox"
    BY <2>1, <2>3 DEF StateInv
  <2> QED
    BY <2>2, <2>3
<1>9. CASE ClientFails
  BY <1>9 DEF ClientFails, StateInv
<1> QED
  BY <1>2, <1>3, <1>4, <1>5, <1>6, <1>7, <1>8, <1>9 DEF BtNext, Runner

\* What the stub would write is fixed while a condition runs.
LEMMA StubFixed ==
  ASSUME UNCHANGED <<task, state, faults, bundle>>, NEW c
  PROVE  /\ StubWrites(c)' = StubWrites(c)
         /\ StubResult(c)' = StubResult(c)
<1>1. This' = This
  BY DEF This
<1>2. ASSUME NEW made, NEW more PROVE Executed(made, more)' = Executed(made, more)
  <2>1. faults' = faults /\ state' = state
    OBVIOUS
  <2> DEFINE Each(i) == IF Faulted(faults, made \o SubSeq(more, 1, i)) THEN <<>>
                        ELSE Writes(state, more[i])
  <2>2. ASSUME NEW i PROVE Each(i)' = Each(i)
    BY <2>1
  <2> HIDE DEF Each
  <2>3. [i \in 1 .. Len(more) |-> Each(i)'] = [i \in 1 .. Len(more) |-> Each(i)]
    BY <2>2
  <2> QED
    BY <2>3 DEF Executed, Each
<1>3. StubWrites(c)' = StubWrites(c)
  BY <1>1, <1>2 DEF StubWrites
<1> QED
  BY <1>1, <1>3 DEF StubResult

\* The stub calls once, then answers with a text; or it is out of steps after its call.
LEMMA AgentStep ==
  ASSUME ShapeInv, AgentInv, [BtNext]_btVars
  PROVE  AgentInv'
<1> USE DEF AgentInv
<1>1. CASE LogStep \/ UNCHANGED btVars
  <2>1. UNCHANGED <<llm, faults, pc, task, state, bundle, cond, steps, calls, writes>>
    BY <1>1 DEF LogStep, btVars, run
  <2>2. StubWrites(cond)' = StubWrites(cond)
    <3>1. \A c : StubWrites(c)' = StubWrites(c)
      BY <2>1, StubFixed
    <3> QED
      BY <2>1, <3>1 DEF StubWrites
  <2> QED
    BY <2>1, <2>2
<1>2. CASE BuildRunner \/ ListEntities \/ ReadPayload \/ Retrieve \/ Judged \/ ClientFails
  <2>1. pc' \notin {"agent", "judge"}
    <3>1. BuildRunner => pc' \in {"done", "list"}
      BY DEF BuildRunner
    <3>2. Judged => pc' \in {"sandbox", "done", "list"}
      BY DEF Judged
    <3>3. ClientFails => pc' = "dead"
      BY DEF ClientFails
    <3> QED
      BY <1>2, <3>1, <3>2, <3>3, RunnerFrames
  <2> QED
    BY <2>1
<1>3. CASE OpenSandbox
  <2>1. pc' = "agent" /\ steps' = 0 /\ calls' = <<>> /\ writes' = <<>>
    BY <1>3 DEF OpenSandbox
  <2> QED
    BY <2>1
<1>4. CASE Respond \/ OutOfSteps
  <2>1. /\ UNCHANGED <<llm, faults, task, cond, state, bundle>>
        /\ pc = "agent" /\ pc' \in {"agent", "judge"}
    BY <1>4, RunnerFrames
  <2>2. StubWrites(cond)' = StubWrites(cond)
    <3>1. \A c : StubWrites(c)' = StubWrites(c)
      BY <2>1, StubFixed
    <3> QED
      BY <2>1, <3>1 DEF StubWrites
  <2> SUFFICES ASSUME llm = "stub"
               PROVE  AgentInv'
    BY <2>1
  <2>3. CASE OutOfSteps
    <3>1. pc' = "judge" /\ writes' = writes /\ steps = MaxSteps
      BY <2>3 DEF OutOfSteps
    <3> QED
      BY <2>1, <2>2, <3>1, BacktestAssumption
  <2>4. CASE Respond
    <3> DEFINE call == Decide(This.says, This.project, Mounted(Claims(bundle), Conditions[cond]))
    <3>1. /\ steps' = steps + 1 /\ steps \in Nat
          /\ IF StubCalls = <<>> THEN pc' = "judge" /\ UNCHANGED <<calls, writes>>
             ELSE /\ calls' = calls \o StubCalls
                  /\ writes' = writes \o Executed(calls, StubCalls)
                  /\ pc' = pc
      BY <2>4 DEF Respond, ShapeInv
    <3>2. CASE calls = <<>>
      <4>1. StubCalls = <<call>>
        BY <3>2 DEF StubCalls
      <4>2. writes = <<>>
        BY <2>1, <3>2
      <4> HIDE DEF call
      <4>3. StubCalls # <<>> /\ <<>> \o StubCalls # <<>>
        BY <4>1
      <4>4. calls' # <<>> /\ pc' = "agent"
        BY <2>1, <3>1, <3>2, <4>3
      <4>5. writes' = <<>> \o Executed(<<>>, <<call>>)
        BY <3>1, <3>2, <4>1, <4>2, <4>3
      <4>6. writes' = StubWrites(cond)
        BY <4>5 DEF StubWrites, call
      <4> QED
        BY <2>1, <2>2, <3>1, <4>4, <4>6
    <3>3. CASE calls # <<>>
      <4>1. StubCalls = <<>>
        BY <3>3 DEF StubCalls
      <4> QED
        BY <2>1, <2>2, <3>1, <3>3, <4>1
    <3> QED
      BY <3>2, <3>3
  <2> QED
    BY <1>4, <2>3, <2>4
<1> QED
  BY <1>1, <1>2, <1>3, <1>4 DEF BtNext, Runner

-----------------------------------------------------------------------------
\* With nothing retrieved the two conditions give one result.
LEMMA NothingMounted ==
  ASSUME Claims(bundle) = <<>>
  PROVE  StubResult(2) = StubResult(1)
<1>1. Mounted(Claims(bundle), Conditions[2]) = Mounted(Claims(bundle), Conditions[1])
  BY DEF Mounted, Conditions
<1>2. StubWrites(2) = StubWrites(1)
  BY <1>1 DEF StubWrites
<1> QED
  BY <1>2 DEF StubResult

\* What the stub did in a condition, it would do again on the same workspace.
LEMMA StubResultMade ==
  ASSUME faults = <<>>, NEW c \in {1, 2}
  PROVE  MadeOn(state, StubResult(c), task, c)
<1>1. Mounted(StubResult(c).claims, Conditions[c]) = Mounted(Claims(bundle), Conditions[c])
  <2>1. StubResult(c).claims = IF c = 1 THEN <<>> ELSE Claims(bundle)
    BY DEF StubResult
  <2>2. CASE c = 1
    BY <2>2 DEF Mounted, Conditions
  <2>3. CASE c = 2
    BY <2>1, <2>3
  <2> QED
    BY <2>2, <2>3
<1> DEFINE call == Decide(This.says, This.project, Mounted(Claims(bundle), Conditions[c]))
<1>2. StubWrites(c) = <<>> \o Executed(<<>>, <<call>>)
  BY DEF StubWrites
<1>3. StubResult(c).writes = StubWrites(c)
  BY DEF StubResult
<1> HIDE DEF call
<1>4. StubWrites(c) = Writes(state, call)
  BY <1>2, OneCall
<1> QED
  BY <1>1, <1>3, <1>4 DEF call, MadeOn, This

\* A pair of results that could be repeated still can.
LEMMA GoodPairStable ==
  ASSUME ShapeInv, SteadyInv, [BtNext]_btVars, NEW k, GoodPair(k),
         report'[k] = report[k], faults' = faults, k \in steady' => k \in steady
  PROVE  GoodPair(k)'
<1>1. PICK r, s : /\ report[k] = <<r, s>>
                  /\ s.claims = <<>> => r = s
                  /\ Repeatable(r, s, k)
  BY DEF GoodPair
<1>2. k \in steady' => Workspaces(Tasks[k])' = Workspaces(Tasks[k])
  <2> SUFFICES ASSUME k \in steady'
               PROVE  Workspaces(Tasks[k])' = Workspaces(Tasks[k])
    OBVIOUS
  <2>1. SameView(Tasks[k])
    BY SteadyView
  <2> QED
    BY <2>1, SameWorkspaces
<1>3. Repeatable(r, s, k)'
  BY <1>1, <1>2 DEF Repeatable, MadeOn
<1> QED
  BY <1>1, <1>3 DEF GoodPair

\* Every step keeps the results, and a task's second result completes a good pair.
LEMMA ReportStep ==
  ASSUME BtInv, [BtNext]_btVars
  PROVE  ReportInv'
<1> USE DEF InTask, InCondition
<1>0. ShapeInv /\ SteadyInv /\ StateInv /\ AgentInv /\ ReportInv
  BY DEF BtInv
<1>1. llm' = llm /\ faults' = faults
  BY DEF BtNext, Runner, LogStep, BuildRunner, ListEntities,
         ReadPayload, Retrieve, OpenSandbox, Respond, OutOfSteps, Judged, ClientFails, btVars
<1> SUFFICES ASSUME llm = "stub", NEW k \in DOMAIN report'
             PROVE  IF pc' \in InTask /\ k = task'
                    THEN report'[k] = <<StubResult(1)'>>
                    ELSE k \in 1 .. Len(Tasks) /\ GoodPair(k)'
  BY <1>1 DEF ReportInv
<1>2. ASSUME k \in DOMAIN report, report'[k] = report[k], ~ (pc \in InTask /\ k = task)
      PROVE  k \in 1 .. Len(Tasks) /\ GoodPair(k)'
  <2>0. k \in steady' => k \in steady
    <3>1. ListEntities => steady' \subseteq steady \cup {task} /\ pc \in InTask
      BY DEF ListEntities
    <3>2. ~ ListEntities => steady' \subseteq steady
      BY DEF BtNext, Runner, LogStep, BuildRunner, ReadPayload, Retrieve, OpenSandbox,
         Respond, OutOfSteps, Judged, ClientFails, btVars
    <3> QED
      BY <1>2, <3>1, <3>2
  <2>1. k \in 1 .. Len(Tasks) /\ GoodPair(k)
    BY <1>0, <1>2 DEF ReportInv
  <2>2. GoodPair(k)'
    BY <1>0, <1>1, <1>2, <2>0, <2>1, GoodPairStable
  <2> QED
    BY <2>1, <2>2
<1>3. ASSUME UNCHANGED <<task, report, state, bundle>>, pc \in InTask, pc' \in InTask
      PROVE  IF pc' \in InTask /\ k = task'
             THEN report'[k] = <<StubResult(1)'>>
             ELSE k \in 1 .. Len(Tasks) /\ GoodPair(k)'
  <2>1. \A c : StubResult(c)' = StubResult(c)
    BY <1>1, <1>3, StubFixed
  <2>2. CASE k = task
    BY <1>0, <1>3, <2>1, <2>2 DEF ReportInv
  <2>3. CASE k # task
    BY <1>2, <1>3, <2>3
  <2> QED
    BY <2>2, <2>3
<1>4. CASE LogStep \/ UNCHANGED btVars
  <2>1. UNCHANGED <<pc, task, report, state, bundle>>
    BY <1>4 DEF LogStep, btVars, run
  <2>2. CASE pc \in InTask
    BY <1>3, <2>1, <2>2
  <2>3. CASE pc \notin InTask
    BY <1>2, <2>1, <2>3
  <2> QED
    BY <2>2, <2>3
<1>5. CASE BuildRunner
  <2>1. report' = <<>>
    BY <1>0, <1>5 DEF BuildRunner, ShapeInv
  <2> QED
    BY <2>1
<1>6. CASE ListEntities \/ ReadPayload \/ Retrieve
  <2>1. pc \in InTask /\ pc' \in InTask /\ pc \notin InCondition /\ UNCHANGED <<task, report>>
    BY <1>6, RunnerFrames
  <2>2. Len(report) = task - 1 /\ task \in Nat /\ \E T : report \in Seq(T)
    BY <1>0, <2>1 DEF ShapeInv
  <2>3. k # task
    BY <2>1, <2>2
  <2> QED
    BY <1>2, <2>1, <2>3
<1>7. CASE OpenSandbox \/ Respond \/ OutOfSteps
  <2>1. pc \in InTask /\ pc' \in InTask /\ UNCHANGED <<task, report, state, bundle>>
    BY <1>7, RunnerFrames
  <2> QED
    BY <1>3, <2>1
<1>8. CASE Judged
  <2>1. PICK T : report \in Seq(T)
    BY <1>0, <1>8 DEF Judged, ShapeInv
  <2>2. /\ pc = "judge" /\ task \in 1 .. Len(Tasks) /\ cond \in {1, 2}
        /\ Len(report) = IF cond = 2 THEN task ELSE task - 1
        /\ UNCHANGED <<world, steady, state, bundle>>
    BY <1>0, <1>8 DEF Judged, ShapeInv
  <2>3. Result = StubResult(cond)
    <3>1. writes = StubWrites(cond)
      BY <1>0, <2>2 DEF AgentInv
    <3> QED
      BY <3>1 DEF Result, StubResult
  <2>4. CASE cond = 1
    <3>1. report' = Append(report, <<StubResult(1)>>) /\ pc' = "sandbox" /\ task' = task
      BY <1>8, <2>3, <2>4 DEF Judged
    <3>2. /\ DOMAIN report' = DOMAIN report \cup {task}
          /\ report'[task] = <<StubResult(1)>>
          /\ \A n \in DOMAIN report : report'[n] = report[n]
      BY <2>1, <2>2, <2>4, <3>1, AppendResult
    <3>3. \A c : StubResult(c)' = StubResult(c)
      BY <1>1, <2>2, <3>1, StubFixed
    <3>4. task \notin DOMAIN report
      BY <2>1, <2>2, <2>4
    <3>5. CASE k = task
      BY <2>2, <3>1, <3>2, <3>3, <3>5
    <3>6. CASE k # task
      BY <1>2, <3>1, <3>2, <3>6
    <3> QED
      BY <3>5, <3>6
  <2>5. CASE cond = 2
    <3>1. /\ report' = [report EXCEPT ![task] = Append(report[task], StubResult(2))]
          /\ ~ (pc' \in InTask /\ task = task')
          /\ pc' \in {"done", "list"} /\ task' \in {task, task + 1}
      BY <1>8, <2>2, <2>3, <2>5 DEF Judged
    <3>2. /\ task \in DOMAIN report /\ DOMAIN report' = DOMAIN report
          /\ DOMAIN report = 1 .. task
      BY <2>1, <2>2, <2>5, <3>1
    <3>3. ~ (pc' \in InTask /\ k = task')
      BY <2>2, <3>1, <3>2
    <3>4. CASE k = task
      <4>a. PICK r : r = StubResult(1)
        OBVIOUS
      <4>b. PICK s : s = StubResult(2)
        OBVIOUS
      <4>1. report[task] = <<r>>
        BY <1>0, <2>2, <3>2, <4>a DEF ReportInv
      <4>2. s.claims = <<>> => r = s
        <5>1. s.claims = Claims(bundle)
          BY <4>b DEF StubResult
        <5> QED
          BY <4>a, <4>b, <5>1, NothingMounted
      <4>3. Repeatable(r, s, k)'
        <5> SUFFICES ASSUME faults = <<>>, k \in steady
                     PROVE  \E ws \in Workspaces(Tasks[k])' : MadeOn(ws, r, k, 1) /\ MadeOn(ws, s, k, 2)
          BY <1>1, <2>2 DEF Repeatable, MadeOn
        <5>1. MadeOn(state, r, k, 1) /\ MadeOn(state, s, k, 2)
          BY <3>4, <4>a, <4>b, StubResultMade
        <5>2. state \in Workspaces(Tasks[k])
          BY <1>0, <2>2, <3>4 DEF StateInv, This
        <5>3. SameView(Tasks[k])
          <6>1. \A c : Rows(c, Tasks[k])' = Rows(c, Tasks[k])
            BY <2>2 DEF Rows, world
          <6> QED
            BY <6>1, SameRows
        <5>4. Workspaces(Tasks[k])' = Workspaces(Tasks[k])
          BY <5>3, SameWorkspaces
        <5> QED
          BY <5>1, <5>2, <5>4
      <4>5. report'[k] = Append(report[k], s)
        BY <3>1, <3>2, <3>4, <4>b
      <4>6. report'[k] = <<r, s>>
        <5>1. (\E S : report[k] \in Seq(S)) /\ Len(report[k]) = 1 /\ report[k][1] = r
          <6>1. <<r>> \in Seq({r})
            OBVIOUS
          <6>2. report[k] = <<r>>
            BY <3>4, <4>1
          <6>3. Len(<<r>>) = 1 /\ <<r>>[1] = r
            OBVIOUS
          <6> QED
            BY <6>1, <6>2, <6>3, Zenon
        <5> QED
          BY <4>5, <5>1, SecondResult
      <4>7. GoodPair(k)'
        BY <4>2, <4>3, <4>6 DEF GoodPair
      <4> QED
        BY <2>2, <3>3, <3>4, <4>7
    <3>5. CASE k # task
      <4>1. k \in DOMAIN report /\ report'[k] = report[k]
        BY <2>1, <3>1, <3>2, <3>5
      <4> QED
        BY <1>2, <3>3, <3>5, <4>1
    <3> QED
      BY <3>4, <3>5
  <2> QED
    BY <2>2, <2>4, <2>5
<1>9. CASE ClientFails
  <2>1. report' = <<>>
    BY <1>9 DEF ClientFails
  <2> QED
    BY <2>1
<1> QED
  BY <1>4, <1>5, <1>6, <1>7, <1>8, <1>9 DEF BtNext, Runner

-----------------------------------------------------------------------------
\* The invariant holds in every reachable state.
LEMMA BtInvHolds ==
  BtSpec => []BtInv
<1>1. BtInit => BtInv
  <2>1. AbsInit => AbsTypeOK
    BY DEF AbsInit, AbsTypeOK
  <2> QED
    BY <2>1 DEF BtInit, BtInv, ShapeInv, SteadyInv, StateInv, AgentInv, ReportInv, InTask, InCondition
<1>2. BtInv /\ [BtNext]_btVars => BtInv'
  BY ShapeStep, SteadyStep, StateStep, AgentStep, ReportStep DEF BtInv
<1> QED
  BY <1>1, <1>2, PTL DEF BtSpec

\* What the invariant says of a result already in the report.
LEMMA ReportedResults ==
  ASSUME BtInv, llm = "stub", NEW k \in DOMAIN report
  PROVE  \/ pc \in InCondition /\ k = task /\ report[k] = <<StubResult(1)>>
         \/ GoodPair(k)
<1>1. CASE pc \in InTask /\ k = task
  <2>1. report[k] = <<StubResult(1)>>
    BY <1>1 DEF BtInv, ReportInv
  <2>2. cond = 2
    <3>1. /\ task \in 1 .. Len(Tasks) /\ (\E T : report \in Seq(T)) /\ cond \in {1, 2}
          /\ Len(report) = IF cond = 2 THEN task ELSE task - 1
      BY <1>1 DEF BtInv, ShapeInv
    <3> QED
      BY <1>1, <3>1, BacktestAssumption
  <2> QED
    BY <1>1, <2>1, <2>2 DEF BtInv, ShapeInv, InTask
<1>2. CASE ~ (pc \in InTask /\ k = task)
  BY <1>2 DEF BtInv, ReportInv
<1> QED
  BY <1>1, <1>2

\* With the stub and no faults, what the conditions of a steady task are scored on is
\* one call on one workspace of its instant, until someone goes back behind it.
THEOREM BacktestReproducible == BtSpec => []Reproducible
<1>1. BtInv => Reproducible
  <2> SUFFICES ASSUME BtInv, llm = "stub", faults = <<>>,
                      NEW k \in DOMAIN report, k \in steady
               PROVE  \E ws \in Workspaces(Tasks[k]) :
                        \A i \in DOMAIN report[k] : MadeOn(ws, report[k][i], k, i)
    BY DEF Reproducible, MadeOn
  <2>1. CASE pc \in InCondition /\ k = task /\ report[k] = <<StubResult(1)>>
    <3>1. DOMAIN report[k] = {1} /\ report[k][1] = StubResult(1)
      BY <2>1
    <3>2. state \in Workspaces(Tasks[k])
      BY <2>1 DEF BtInv, StateInv, This
    <3>3. MadeOn(state, StubResult(1), k, 1)
      BY <2>1, StubResultMade
    <3> QED
      BY <3>1, <3>2, <3>3
  <2>2. CASE GoodPair(k)
    <3>1. PICK r, s : report[k] = <<r, s>> /\ Repeatable(r, s, k)
      BY <2>2 DEF GoodPair
    <3>2. PICK ws \in Workspaces(Tasks[k]) : MadeOn(ws, r, k, 1) /\ MadeOn(ws, s, k, 2)
      BY <3>1 DEF Repeatable
    <3>3. DOMAIN report[k] = {1, 2} /\ report[k][1] = r /\ report[k][2] = s
      BY <3>1
    <3> QED
      BY <3>2, <3>3
  <2> QED
    BY <2>1, <2>2, ReportedResults
<1> QED
  BY <1>1, BtInvHolds, PTL

\* With the stub, a task for which nothing was retrieved has two equal results.
THEOREM DeltaIsMemorys == BtSpec => []NoMemoryNoDelta
<1>1. BtInv => NoMemoryNoDelta
  <2> SUFFICES ASSUME BtInv, llm = "stub", NEW k \in DOMAIN report,
                      Len(report[k]) = 2, report[k][2].claims = <<>>
               PROVE  report[k][1] = report[k][2]
    BY DEF NoMemoryNoDelta
  <2>1. CASE report[k] = <<StubResult(1)>>
    <3>1. Len(<<StubResult(1)>>) = 1
      OBVIOUS
    <3> QED
      BY <2>1, <3>1
  <2>2. CASE GoodPair(k)
    <3>1. PICK r, s : report[k] = <<r, s>> /\ (s.claims = <<>> => r = s)
      BY <2>2 DEF GoodPair
    <3> QED
      BY <3>1
  <2> QED
    BY <2>1, <2>2, ReportedResults
<1> QED
  BY <1>1, BtInvHolds, PTL

-----------------------------------------------------------------------------
\* How full a bundle is.
\* What a bundle retrieved from the index is.
Filled ==
  /\ Len(bundle) <= TopK
  /\ Once(bundle)
  /\ Tokens(bundle) <= TokenBudget \/ Len(bundle) = 1
  /\ \/ Len(bundle) = TopK \/ Cardinality(index) > CandidateK
     \/ \A x \in index \ ToSet(bundle) : Tokens(bundle) + x.cost > TokenBudget

BundleInv ==
  /\ index \in Compiled \cup {{}}
  /\ pc = "start" => bundle = <<>>
  /\ bundle \in Seq(index)
  /\ pc \in InCondition => Filled

\* Retrieving fills the bundle.
LEMMA RetrieveFills ==
  ASSUME ShapeInv, BundleInv, Retrieve
  PROVE  bundle' \in Seq(index) /\ Filled'
<1>1. index' = index
  BY DEF Retrieve
<1>2. CASE index = {}
  <2>1. bundle' = <<>>
    BY <1>2 DEF Retrieve
  <2>2. <<>> \in Seq(index) /\ Len(<<>>) = 0
    OBVIOUS
  <2> QED
    BY <1>1, <1>2, <2>1, <2>2, NoTokens, RetrievalAssumption DEF Filled, Once
<1>3. CASE index # {}
  <2> DEFINE C == index
  <2>1. PICK by \in Orders[index], close \in Orders[index], n \in 0 .. Cardinality(index) :
          bundle' = Pack(Ranked(SubSeq(by, 1, n), close, This.cues, now * DaysPerTick)).items
    BY <1>3 DEF Retrieve
  <2> DEFINE lexical == SubSeq(by, 1, n)
             today == now * DaysPerTick
             ranked == Ranked(lexical, close, This.cues, today)
             b == Pack(ranked)
  <2>2. C \in Compiled
    BY <1>3 DEF BundleInv
  <2>3. Typed(C) /\ \A x \in C : x.cost \in Nat
    BY <2>2, ItemsAssumption DEF Typed
  <2>4. Cardinality(C) \in Nat
    BY <2>3, FS_CardinalityType DEF Typed
  <2>5. /\ by \in [1 .. Cardinality(C) -> C] /\ close \in [1 .. Cardinality(C) -> C]
        /\ ToSet(close) = C
    BY <1>3, <2>2, ItemsAssumption
  <2>6. lexical \in Seq(C)
    <3>1. by \in Seq(C) /\ n \in 0 .. Len(by)
      BY <2>4, <2>5
    <3> QED
      BY <3>1, FirstOf
  <2>7. This.cues \in [Rankers -> Nat]
    <3>1. task \in 1 .. Len(Tasks)
      BY DEF ShapeInv, Retrieve, InTask
    <3> QED
      BY <3>1, TasksAssumption DEF This, Rankers
  <2>8. today \in Int
    BY DEF ShapeInv, AbsTypeOK, DaysPerTick
  <2> HIDE DEF C, lexical, today
  <2>9. ranked \in Seq(C) /\ Once(ranked) /\ (Cardinality(C) <= CandidateK => ToSet(ranked) = C)
    BY <2>3, <2>5, <2>6, <2>7, <2>8, RankedLists
  <2>10. bundle' = b.items
    BY <2>1 DEF lexical, today
  <2> HIDE DEF ranked, b
  <2>11. Packed(b, C, ranked, Len(ranked))
    BY <2>3, <2>9, PackIsFull DEF b
  <2>12. /\ bundle' \in Seq(C) /\ b.tokens = Tokens(bundle')
         /\ Len(bundle') <= TopK /\ (b.tokens <= TokenBudget \/ Len(bundle') = 1)
         /\ Once(bundle')
    BY <2>9, <2>10, <2>11 DEF Packed, Bundles
  <2>13. \/ Len(bundle') = TopK \/ Cardinality(C) > CandidateK
         \/ \A x \in C \ ToSet(bundle') : b.tokens + x.cost > TokenBudget
    <3> SUFFICES ASSUME Cardinality(C) <= CandidateK, Len(bundle') # TopK,
                        NEW x \in C \ ToSet(bundle')
                 PROVE  b.tokens + x.cost > TokenBudget
      BY <2>4, RetrievalAssumption
    <3>1. PICK j \in 1 .. Len(ranked) : ranked[j] = x
      BY <2>9 DEF ToSet
    <3> QED
      BY <2>10, <2>11, <3>1 DEF Packed
  <2> QED
    BY <1>1, <2>12, <2>13 DEF Filled, C
<1> QED
  BY <1>2, <1>3

LEMMA BundleStep ==
  ASSUME ShapeInv, BundleInv, [BtNext]_btVars
  PROVE  BundleInv'
<1>1. ASSUME UNCHANGED <<index, bundle>>, pc' = "start" => pc = "start",
             pc' \in InCondition => pc \in InCondition
      PROVE  BundleInv'
  BY <1>1 DEF BundleInv, Filled
<1>2. CASE LogStep \/ UNCHANGED btVars
  <2>1. UNCHANGED <<pc, index, bundle>>
    BY <1>2 DEF LogStep, btVars, run
  <2> QED
    BY <1>1, <2>1
<1>3. CASE BuildRunner
  <2>1. /\ index' \in Compiled /\ bundle' = <<>> /\ pc' \in {"done", "list"}
    BY <1>3 DEF BuildRunner, BundleInv
  <2>2. <<>> \in Seq(index')
    OBVIOUS
  <2> QED
    BY <2>1, <2>2 DEF BundleInv, InCondition
<1>4. CASE Retrieve
  <2>1. bundle' \in Seq(index) /\ Filled'
    BY <1>4, RetrieveFills
  <2>2. index' = index /\ pc' = "sandbox"
    BY <1>4 DEF Retrieve
  <2> QED
    BY <2>1, <2>2 DEF BundleInv
<1>5. CASE ListEntities \/ ReadPayload
  <2>1. UNCHANGED <<index, bundle>> /\ pc' = "payloads"
    BY <1>5 DEF ListEntities, ReadPayload
  <2> QED
    BY <1>1, <2>1 DEF InCondition
<1>6. CASE OpenSandbox \/ Respond \/ OutOfSteps
  <2>1. UNCHANGED <<index, bundle>>
    BY <1>6 DEF OpenSandbox, Respond, OutOfSteps
  <2>2. pc \in InCondition /\ pc' \in InCondition
    BY <1>6, RunnerFrames DEF InCondition
  <2> QED
    BY <1>1, <2>1, <2>2 DEF InCondition
<1>7. CASE Judged
  <2>1. UNCHANGED <<index, bundle>> /\ pc = "judge" /\ pc' \in {"sandbox", "done", "list"}
    BY <1>7 DEF Judged
  <2> QED
    BY <1>1, <2>1 DEF InCondition
<1>8. CASE ClientFails
  <2>1. UNCHANGED <<index, bundle>> /\ pc' = "dead"
    BY <1>8 DEF ClientFails
  <2> QED
    BY <1>1, <2>1 DEF InCondition
<1> QED
  BY <1>2, <1>3, <1>4, <1>5, <1>6, <1>7, <1>8 DEF BtNext, Runner

\* The bundle's invariant holds in every reachable state.
LEMMA BundleInvHolds == BtSpec => []BundleInv
<1>1. BtInit => BundleInv
  <2>1. <<>> \in Seq({})
    OBVIOUS
  <2> QED
    BY <2>1 DEF BtInit, BundleInv, InCondition
<1>2. BtInv /\ BundleInv /\ [BtNext]_btVars => BundleInv'
  BY BundleStep DEF BtInv
<1> QED
  BY <1>1, <1>2, BtInvHolds, PTL DEF BtSpec

\* A bundle is as full as its limits let it be, for any items, costs and orders.
THEOREM BundleAlwaysFull == BtSpec => []BundleIsFull
<1>1. BundleInv => BundleIsFull
  BY DEF BundleInv, BundleIsFull, Filled, InCondition, Tokens, Once
<1> QED
  BY <1>1, BundleInvHolds, PTL

-----------------------------------------------------------------------------
\* What a success is.
\* The share p of m parts is the whole only if it is all of them.
LEMMA WholeShare ==
  ASSUME NEW p \in Nat, NEW m \in Nat \ {0}, p <= m
  PROVE  (Whole * p) \div m = Whole <=> p = m
<1> DEFINE q == (Whole * p) \div m
<1>1. Whole \in Nat /\ Whole > 0
  BY WholeAssumption
<1>2. Whole * p \in Nat
  BY <1>1
<1>3. q \in Int /\ m * q <= Whole * p /\ Whole * p < m * q + m
  BY <1>2
<1> HIDE DEF q
<1>4. CASE p = m
  <2>1. m * q <= m * Whole /\ m * Whole < m * q + m
    BY <1>1, <1>3, <1>4
  <2>2. q <= Whole
    <3>1. SUFFICES ASSUME q >= Whole + 1 PROVE FALSE
      BY <1>1, <1>3
    <3>2. m * q >= m * (Whole + 1)
      BY <1>1, <1>3, <3>1
    <3>3. m * (Whole + 1) = m * Whole + m
      BY <1>1
    <3> QED
      BY <1>1, <1>3, <2>1, <3>2, <3>3
  <2>3. q >= Whole
    <3>1. SUFFICES ASSUME q + 1 <= Whole PROVE FALSE
      BY <1>1, <1>3
    <3>2. m * (q + 1) <= m * Whole
      BY <1>1, <1>3, <3>1
    <3>3. m * (q + 1) = m * q + m
      BY <1>3
    <3> QED
      BY <1>1, <1>3, <2>1, <3>2, <3>3
  <2> QED
    BY <1>1, <1>3, <1>4, <2>2, <2>3 DEF q
<1>5. CASE p < m
  <2>1. Whole * p < Whole * m
    BY <1>1, <1>5
  <2>2. q # Whole
    <3>1. SUFFICES ASSUME q = Whole PROVE FALSE
      OBVIOUS
    <3>2. m * q = Whole * m
      BY <1>1, <3>1
    <3> QED
      BY <1>1, <1>3, <2>1, <3>2
  <2> QED
    BY <1>5, <2>2 DEF q
<1> QED
  BY <1>4, <1>5

\* A result per expected write: the outcome is whole exactly if all of them passed.
LEMMA OutcomeWhole ==
  ASSUME NEW k \in 1 .. Len(Tasks), NEW w
  PROVE  Outcome(Tasks[k], w) = Whole
           <=> \A e \in ToSet(Tasks[k].expected) : WriteMade(w, e)
<1> DEFINE t == Tasks[k]
           E == t.expected
           Made(i) == [of |-> i, name |-> E[i].described, passed |-> WriteMade(w, E[i])]
           Clean(i) == [of |-> i, name |-> "no_forbidden",
                        passed |-> \A j \in DOMAIN w : w[j].action \notin t.forbidden]
           S == {Made(i) : i \in DOMAIN E}
           made == {r \in Results(t, w) : r.name \notin {"no_forbidden", "single_action"}}
           passed == {r \in made : r.passed}
<1>1. /\ E \in Seq(ToSet(E))
      /\ \A i \in DOMAIN E : E[i].described \notin {"no_forbidden", "single_action"}
  BY TasksAssumption DEF ToSet
<1>2. made = S
  <2>1. Results(t, w) = S \cup {Clean(i) : i \in {j \in DOMAIN E : t.forbidden # {}}}
    BY DEF Results
  <2>2. \A i \in DOMAIN E : Made(i).name \notin {"no_forbidden", "single_action"}
    BY <1>1
  <2>3. \A i : Clean(i).name = "no_forbidden"
    OBVIOUS
  <2> HIDE DEF Made, Clean, E
  <2> QED
    BY <2>1, <2>2, <2>3
<1>3. Outcome(t, w) =
        IF made # {} THEN (Whole * Cardinality(passed)) \div Cardinality(made)
        ELSE IF w # <<>> \/ E = <<>> THEN Whole ELSE 0
  BY DEF Outcome
<1> HIDE DEF made
<1>4. CASE E = <<>>
  <2>1. DOMAIN E = {} /\ ToSet(E) = {}
    BY <1>4 DEF ToSet
  <2>2. made = {}
    BY <1>2, <2>1
  <2> QED
    BY <1>3, <1>4, <2>1, <2>2
<1>5. CASE E # <<>>
  <2> DEFINE f == [i \in DOMAIN E |-> Made(i)]
  <2>1. DOMAIN E = 1 .. Len(E) /\ Len(E) \in Nat /\ DOMAIN E # {}
    BY <1>1, <1>5
  <2>2. IsFiniteSet(DOMAIN E)
    <3>1. 1 \in Int /\ Len(E) \in Int
      BY <2>1
    <3>2. IsFiniteSet(1 .. Len(E))
      BY <3>1, FS_Interval
    <3> QED
      BY <2>1, <3>2
  <2>3. f \in Surjection(DOMAIN E, S)
    BY DEF Surjection
  <2> HIDE DEF f, S, E
  <2>4. IsFiniteSet(S)
    BY <2>2, <2>3, FS_Surjection
  <2> USE DEF S
  <2>5. S # {}
    BY <2>1
  <2> HIDE DEF S
  <2>6. IsFiniteSet(made) /\ Cardinality(made) \in Nat \ {0} /\ made # {}
    BY <1>2, <2>4, <2>5, FS_CardinalityType, FS_EmptySet
  <2>7. passed \in SUBSET made
    OBVIOUS
  <2>8. /\ IsFiniteSet(passed) /\ Cardinality(passed) \in Nat
        /\ Cardinality(passed) <= Cardinality(made)
        /\ Cardinality(made) = Cardinality(passed) => made = passed
    BY <2>6, <2>7, FS_Subset, FS_CardinalityType
  <2> HIDE DEF passed
  <2>9. Outcome(t, w) = Whole <=> passed = made
    <3>1. (Whole * Cardinality(passed)) \div Cardinality(made) = Whole
            <=> Cardinality(passed) = Cardinality(made)
      BY <2>6, <2>8, WholeShare
    <3> QED
      BY <1>3, <2>6, <2>8, <3>1
  <2>10. passed = made <=> \A i \in DOMAIN E : WriteMade(w, E[i])
    <3>1. \A i \in DOMAIN E : Made(i).passed = WriteMade(w, E[i])
      OBVIOUS
    <3>2. passed = {r \in S : r.passed}
      BY <1>2 DEF passed
    <3> HIDE DEF Made
    <3> QED
      BY <1>2, <3>1, <3>2 DEF S
  <2>11. (\A i \in DOMAIN E : WriteMade(w, E[i])) <=> \A e \in ToSet(E) : WriteMade(w, e)
    BY DEF ToSet
  <2> QED
    BY <2>9, <2>10, <2>11 DEF E
<1> QED
  BY <1>4, <1>5

\* What success means, for any writes of a condition.
LEMMA SuccessMeans ==
  ASSUME NEW k \in 1 .. Len(Tasks), NEW T, NEW w \in Seq(T), NEW claims
  PROVE  Success(Scores(Tasks[k], w, claims)) <=>
           /\ \A e \in ToSet(Tasks[k].expected) : WriteMade(w, e)
           /\ \A j \in DOMAIN w : w[j].action \notin Tasks[k].forbidden
           /\ Len(w) <= Tasks[k].maxWrites
<1> DEFINE t == Tasks[k]
<1>1. Success(Scores(t, w, claims)) <=> Outcome(t, w) = Whole /\ Validity(t, w) = Whole
  BY DEF Success, Scores
<1>2. Whole \in Nat /\ Whole > 0 /\ Whole \div 2 # Whole
  BY WholeAssumption
<1>3. Len(w) \in Nat /\ t.maxWrites \in Nat
  BY TasksAssumption
<1>4. Validity(t, w) = Whole <=>
        /\ \A j \in DOMAIN w : w[j].action \notin t.forbidden
        /\ Len(w) <= t.maxWrites
  <2> HIDE DEF t
  <2> QED
    BY <1>2, <1>3 DEF Validity
<1> QED
  BY <1>1, <1>4, OutcomeWhole

-----------------------------------------------------------------------------
\* The writes of an agent.
\* f is the concatenation of the first sequences of ss, of each number of them up to n.
Joins(f, ss, n) ==
  f = [i \in 1 .. n |-> IF i = 1 THEN ss[i] ELSE f[i - 1] \o ss[i]]

LEMMA JoinsExist ==
  ASSUME NEW ss, NEW n \in Nat
  PROVE  \E f : Joins(f, ss, n)
<1> DEFINE T == {k \in Nat : \E f : Joins(f, ss, k)}
<1>1. 0 \in T
  <2> DEFINE f == [i \in 1 .. 0 |-> ss[i]]
  <2>1. Joins(f, ss, 0)
    BY DEF Joins
  <2> QED
    BY <2>1
<1>2. ASSUME NEW k \in Nat, k \in T
      PROVE  k + 1 \in T
  <2>1. PICK f : Joins(f, ss, k)
    BY <1>2
  <2>2. /\ DOMAIN f = 1 .. k
        /\ \A i \in 1 .. k : f[i] = IF i = 1 THEN ss[i] ELSE f[i - 1] \o ss[i]
    BY <2>1 DEF Joins
  <2> DEFINE more == IF k + 1 = 1 THEN ss[k + 1] ELSE f[k] \o ss[k + 1]
             U == {more} \cup {f[i] : i \in 1 .. k}
             g == [i \in 1 .. k + 1 |-> IF i = k + 1 THEN more ELSE f[i]]
  <2> HIDE DEF more
  <2>3. /\ \A i \in 1 .. k : g[i] = f[i] /\ i \in 1 .. k + 1
        /\ g[k + 1] = more /\ g \in [1 .. k + 1 -> U]
        /\ \A i \in 1 .. k + 1 : i = k + 1 \/ i \in 1 .. k
    <3>1. \A i \in 1 .. k : i # k + 1 /\ i \in 1 .. k + 1
      OBVIOUS
    <3>2. k + 1 \in 1 .. k + 1 /\ \A i \in 1 .. k + 1 : i = k + 1 \/ i \in 1 .. k
      OBVIOUS
    <3> QED
      BY <3>1, <3>2
  <2> HIDE DEF g, U
  <2> USE DEF more
  <2>4. \A i \in 1 .. k + 1 : g[i] = IF i = 1 THEN ss[i] ELSE g[i - 1] \o ss[i]
    <3> TAKE i \in 1 .. k + 1
    <3>1. CASE i = k + 1
      <4>1. CASE k = 0
        BY <2>3, <3>1, <4>1
      <4>2. CASE k # 0
        <5>1. i # 1 /\ i - 1 = k /\ k \in 1 .. k
          BY <3>1, <4>2
        <5>2. g[i - 1] = f[k]
          BY <2>3, <5>1
        <5> QED
          BY <2>3, <3>1, <5>1, <5>2
      <4> QED
        BY <4>1, <4>2
    <3>2. CASE i \in 1 .. k
      <4>1. i = 1 \/ i - 1 \in 1 .. k
        BY <3>2
      <4> QED
        BY <2>2, <2>3, <3>2, <4>1
    <3> QED
      BY <2>3, <3>1, <3>2
  <2> HIDE DEF more
  <2>5. Joins(g, ss, k + 1)
    BY <2>3, <2>4 DEF Joins
  <2> QED
    BY <2>5
<1> HIDE DEF T
<1>3. n \in T
  BY <1>1, <1>2, Induct
<1> QED
  BY <1>3 DEF T

\* Sequences over a set, one after the other, are one over that set.
LEMMA FlattenType ==
  ASSUME NEW T, NEW ss \in Seq(Seq(T))
  PROVE  FlattenSeq(ss) \in Seq(T)
<1> DEFINE n == Len(ss)
           flatten == CHOOSE f : Joins(f, ss, n)
<1>1. n \in Nat /\ \A i \in 1 .. n : ss[i] \in Seq(T)
  OBVIOUS
<1>2. FlattenSeq(ss) = IF n = 0 THEN ss ELSE flatten[n]
  BY DEF FlattenSeq, Joins
<1> HIDE DEF n
<1>3. Joins(flatten, ss, n)
  <2>1. \E f : Joins(f, ss, n)
    BY <1>1, JoinsExist
  <2> QED
    BY <2>1
<1> HIDE DEF flatten
<1>4. \A i \in 1 .. n : flatten[i] = IF i = 1 THEN ss[i] ELSE flatten[i - 1] \o ss[i]
  BY <1>3 DEF Joins
<1> DEFINE K == {k \in Nat : k + 1 <= n => flatten[k + 1] \in Seq(T)}
<1>5. 0 \in K
  <2>1. 0 + 1 <= n => 0 + 1 \in 1 .. n /\ 0 + 1 = 1
    BY <1>1
  <2> QED
    BY <1>1, <1>4, <2>1
<1>6. ASSUME NEW k \in Nat, k \in K
      PROVE  k + 1 \in K
  <2> SUFFICES ASSUME (k + 1) + 1 <= n
               PROVE  flatten[(k + 1) + 1] \in Seq(T)
    OBVIOUS
  <2>1. k + 1 <= n /\ (k + 1) + 1 \in 1 .. n /\ (k + 1) + 1 # 1 /\ ((k + 1) + 1) - 1 = k + 1
    BY <1>1
  <2>2. flatten[k + 1] \in Seq(T) /\ ss[(k + 1) + 1] \in Seq(T)
    BY <1>1, <1>6, <2>1
  <2>3. flatten[(k + 1) + 1] = flatten[k + 1] \o ss[(k + 1) + 1]
    BY <1>4, <2>1
  <2> QED
    BY <2>2, <2>3
<1> HIDE DEF K
<1>7. CASE n = 0
  <2>1. ss = <<>>
    BY <1>7 DEF n
  <2> QED
    BY <1>2, <1>7, <2>1
<1>8. CASE n # 0
  <2>1. n - 1 \in Nat /\ (n - 1) + 1 = n
    BY <1>1, <1>8
  <2>2. n - 1 \in K
    BY <1>5, <1>6, <2>1, Induct
  <2> QED
    BY <1>2, <1>8, <2>1, <2>2 DEF K
<1> QED
  BY <1>7, <1>8

\* What an agent's calls leave behind is a sequence of writes.
LEMMA ExecutedType ==
  ASSUME NEW made, NEW S, NEW more \in Seq(S)
  PROVE  \E T : Executed(made, more) \in Seq(T)
<1> DEFINE n == Len(more)
           W(i) == Writes(state, more[i])
           T == {W(i)[1] : i \in 1 .. n}
           ss == [i \in 1 .. n |->
                    IF Faulted(faults, made \o SubSeq(more, 1, i)) THEN <<>> ELSE W(i)]
<1>1. Executed(made, more) = FlattenSeq(ss)
  BY DEF Executed
<1>2. n \in Nat
  OBVIOUS
<1> HIDE DEF n
<1>3. ASSUME NEW i \in 1 .. n
      PROVE  ss[i] \in Seq(T)
  <2>1. <<>> \in Seq(T)
    OBVIOUS
  <2>2. W(i) \in Seq(T)
    <3>1. CASE W(i) = <<>>
      BY <2>1, <3>1
    <3>2. CASE \E x : W(i) = <<x>>
      <4>1. PICK x : W(i) = <<x>>
        BY <3>2
      <4>2. <<x>>[1] = x /\ \A U : x \in U => <<x>> \in Seq(U)
        OBVIOUS
      <4>3. x \in T
        BY <4>1, <4>2
      <4> HIDE DEF T, W
      <4> QED
        BY <4>1, <4>2, <4>3
    <3> QED
      BY <3>1, <3>2, WritesOneOrNone
  <2>3. ss[i] = <<>> \/ ss[i] = W(i)
    OBVIOUS
  <2> HIDE DEF ss, W, T
  <2> QED
    BY <2>1, <2>2, <2>3
<1> HIDE DEF T
<1>4. ss \in [1 .. n -> Seq(T)]
  <2>1. ss = [i \in 1 .. n |-> ss[i]]
    OBVIOUS
  <2> HIDE DEF ss
  <2> QED
    BY <1>3, <2>1
<1> HIDE DEF ss
<1>5. ss \in Seq(Seq(T))
  BY <1>2, <1>4
<1>6. FlattenSeq(ss) \in Seq(T)
  BY <1>5, FlattenType
<1> QED
  BY <1>1, <1>6

-----------------------------------------------------------------------------
\* The results in the report.
\* A result whose scores are those of its writes and claims.
Scored(r, k) ==
  /\ r.scores = Scores(Tasks[k], r.writes, r.claims)
  /\ \E T : r.writes \in Seq(T)

\* The results of each task in the report: both, or the first only while the second
\* condition is run.
ScoredOne(x, k)  == \E r : x = <<r>> /\ Scored(r, k)
ScoredPair(x, k) == \E r, s : x = <<r, s>> /\ Scored(r, k) /\ Scored(s, k)

ResultsInv ==
  /\ \E T : writes \in Seq(T)
  /\ \A k \in DOMAIN report :
       IF pc \in InTask /\ k = task THEN ScoredOne(report[k], k)
       ELSE k \in 1 .. Len(Tasks) /\ ScoredPair(report[k], k)

LEMMA WritesStep ==
  ASSUME \E T : writes \in Seq(T), BtNext \/ UNCHANGED btVars
  PROVE  \E T : writes' \in Seq(T)
<1>1. CASE Respond
  <2>1. CASE UNCHANGED writes
    BY <2>1
  <2>2. CASE ~ UNCHANGED writes
    <3>1. PICK more \in (IF llm = "stub" THEN {StubCalls} ELSE Responses) :
            more # <<>> /\ writes' = writes \o Executed(calls, more)
      BY <1>1, <2>2 DEF Respond
    <3>2. \E S : more \in Seq(S)
      <4>1. CASE llm = "stub"
        <5>1. more = StubCalls
          BY <3>1, <4>1
        <5>2. \E x : StubCalls \in {<<>>, <<x>>}
          BY Zenon DEF StubCalls
        <5>3. PICK x : more \in {<<>>, <<x>>}
          BY <5>1, <5>2
        <5>4. <<>> \in Seq({x}) /\ <<x>> \in Seq({x})
          OBVIOUS
        <5> QED
          BY <5>3, <5>4
      <4>2. CASE llm # "stub"
        BY <3>1, <4>2, ResponsesAssumption
      <4> QED
        BY <4>1, <4>2
    <3>3. PICK T : Executed(calls, more) \in Seq(T)
      BY <3>2, ExecutedType
    <3>4. PICK U : writes \in Seq(U)
      OBVIOUS
    <3>5. \A v \in Seq(U), w \in Seq(T) : v \o w \in Seq(U \cup T)
      <4> TAKE v \in Seq(U), w \in Seq(T)
      <4>1. v \in Seq(U \cup T) /\ w \in Seq(U \cup T)
        OBVIOUS
      <4> QED
        BY <4>1
    <3>6. writes' \in Seq(U \cup T)
      BY <3>1, <3>3, <3>4, <3>5
    <3> QED
      BY <3>6
  <2> QED
    BY <2>1, <2>2
<1>2. CASE OpenSandbox
  <2>1. writes' = <<>> /\ <<>> \in Seq({})
    BY <1>2 DEF OpenSandbox
  <2> QED
    BY <2>1
<1>3. CASE ~ Respond /\ ~ OpenSandbox
  <2>1. UNCHANGED writes
    BY <1>3 DEF BtNext, Runner, LogStep, BuildRunner,
       ListEntities, ReadPayload, Retrieve, OutOfSteps, Judged, ClientFails, btVars, run
  <2> QED
    BY <2>1
<1> QED
  BY <1>1, <1>2, <1>3

\* What judging does with the report.
LEMMA JudgedReport ==
  ASSUME ShapeInv, Judged
  PROVE  /\ task \in 1 .. Len(Tasks)
         /\ cond = 1 => /\ report' = Append(report, <<Result>>) /\ Len(report') = task
                        /\ DOMAIN report' = DOMAIN report \cup {task} /\ task \notin DOMAIN report
                        /\ report'[task] = <<Result>>
                        /\ \A k \in DOMAIN report : report'[k] = report[k]
                        /\ pc' = "sandbox" /\ task' = task /\ cond' = 2
         /\ cond = 2 => /\ DOMAIN report' = DOMAIN report /\ task \in DOMAIN report
                        /\ DOMAIN report = 1 .. task /\ Len(report') = task
                        /\ report'[task] = Append(report[task], Result)
                        /\ \A k \in DOMAIN report : k # task => report'[k] = report[k]
                        /\ cond' = 1
                        /\ \/ pc' = "done" /\ task = Len(Tasks) /\ task' = task
                           \/ pc' = "list" /\ task' = task + 1 /\ task' \in 1 .. Len(Tasks)
<1>1. PICK T : report \in Seq(T)
  BY DEF Judged, ShapeInv, InTask
<1>2. /\ pc = "judge" /\ task \in 1 .. Len(Tasks) /\ Len(Tasks) \in Nat
      /\ Len(report) = IF cond = 2 THEN task ELSE task - 1
  BY BacktestAssumption DEF Judged, ShapeInv, InTask
<1>3. ASSUME cond = 1
      PROVE  /\ report' = Append(report, <<Result>>) /\ Len(report') = task
             /\ DOMAIN report' = DOMAIN report \cup {task} /\ task \notin DOMAIN report
             /\ report'[task] = <<Result>>
             /\ \A k \in DOMAIN report : report'[k] = report[k]
             /\ pc' = "sandbox" /\ task' = task /\ cond' = 2
  <2>1. report' = Append(report, <<Result>>) /\ pc' = "sandbox" /\ task' = task /\ cond' = 2
    BY <1>3 DEF Judged
  <2>2. Len(report) = task - 1 /\ Len(report) + 1 = task
    BY <1>2, <1>3
  <2>3. task \notin DOMAIN report
    BY <1>1, <2>2
  <2> QED
    BY <1>1, <2>1, <2>2, <2>3, AppendResult
<1>4. ASSUME cond = 2
      PROVE  /\ DOMAIN report' = DOMAIN report /\ task \in DOMAIN report
             /\ DOMAIN report = 1 .. task /\ Len(report') = task
             /\ report'[task] = Append(report[task], Result)
             /\ \A k \in DOMAIN report : k # task => report'[k] = report[k]
             /\ cond' = 1
             /\ \/ pc' = "done" /\ task = Len(Tasks) /\ task' = task
                \/ pc' = "list" /\ task' = task + 1 /\ task' \in 1 .. Len(Tasks)
  <2>1. /\ report' = [report EXCEPT ![task] = Append(report[task], Result)] /\ cond' = 1
        /\ IF task = Len(Tasks) THEN pc' = "done" /\ task' = task
           ELSE pc' = "list" /\ task' = task + 1
    BY <1>4 DEF Judged
  <2>2. task \in DOMAIN report /\ DOMAIN report = 1 .. task
    BY <1>1, <1>2, <1>4
  <2>3. Len(report') = Len(report) /\ DOMAIN report' = DOMAIN report
    BY <1>1, <2>1, <2>2, ReplaceResult
  <2>4. /\ report'[task] = Append(report[task], Result)
        /\ \A k \in DOMAIN report : k # task => report'[k] = report[k]
    BY <2>1, <2>2
  <2> QED
    BY <1>2, <1>4, <2>1, <2>2, <2>3, <2>4
<1> QED
  BY <1>2, <1>3, <1>4

LEMMA ResultsStep ==
  ASSUME ShapeInv, ResultsInv, [BtNext]_btVars
  PROVE  ResultsInv'
<1>0. \E T : writes' \in Seq(T)
  BY WritesStep DEF ResultsInv
<1> DEFINE Fine == \A k \in DOMAIN report :
                     IF pc \in InTask /\ k = task THEN ScoredOne(report[k], k)
                     ELSE k \in 1 .. Len(Tasks) /\ ScoredPair(report[k], k)
<1>a. Fine
  BY DEF ResultsInv
<1>b. SUFFICES Fine'
  BY <1>0 DEF ResultsInv
<1>1. CASE LogStep \/ UNCHANGED btVars
  <2>1. UNCHANGED <<pc, task, report>>
    BY <1>1 DEF LogStep, btVars, run
  <2> QED
    BY <1>a, <2>1
<1>2. CASE BuildRunner \/ ClientFails
  <2>1. report' = <<>>
    BY <1>2 DEF BuildRunner, ClientFails, ShapeInv
  <2> QED
    BY <2>1
<1>3. CASE ListEntities \/ ReadPayload \/ Retrieve \/ OpenSandbox \/ Respond \/ OutOfSteps
  <2>1. UNCHANGED <<task, report>> /\ pc \in InTask /\ pc' \in InTask
    BY <1>3, RunnerFrames DEF InTask
  <2> QED
    BY <1>a, <2>1
<1>4. CASE Judged
  <2>1. Scored(Result, task)
    <3>1. PICK T : writes \in Seq(T)
      BY DEF ResultsInv
    <3>2. Result.writes = writes /\ Result.scores = Scores(Tasks[task], writes, Result.claims)
      BY DEF Result, This
    <3> QED
      BY <3>1, <3>2 DEF Scored
  <2>2. pc = "judge" /\ pc \in InTask
    BY <1>4 DEF Judged, InTask
  <2>3. CASE cond = 1
    <3> SUFFICES ASSUME NEW k \in DOMAIN report'
                 PROVE  IF pc' \in InTask /\ k = task' THEN ScoredOne(report'[k], k)
                        ELSE k \in 1 .. Len(Tasks) /\ ScoredPair(report'[k], k)
      OBVIOUS
    <3>1. CASE k = task
      <4>1. report'[k] = <<Result>> /\ pc' \in InTask /\ task' = task
        BY <1>4, <2>3, <3>1, JudgedReport DEF InTask
      <4> QED
        BY <2>1, <3>1, <4>1 DEF ScoredOne
    <3>2. CASE k # task
      <4>1. k \in DOMAIN report /\ report'[k] = report[k] /\ task' = task
        BY <1>4, <2>3, <3>2, JudgedReport
      <4> QED
        BY <1>a, <3>2, <4>1
    <3> QED
      BY <3>1, <3>2
  <2>4. CASE cond = 2
    <3> SUFFICES ASSUME NEW k \in DOMAIN report'
                 PROVE  ~ (pc' \in InTask /\ k = task') /\ k \in 1 .. Len(Tasks)
                        /\ ScoredPair(report'[k], k)
      OBVIOUS
    <3>1. /\ k \in DOMAIN report /\ DOMAIN report = 1 .. task /\ task \in 1 .. Len(Tasks)
          /\ (pc' = "done" \/ task' = task + 1)
      BY <1>4, <2>4, JudgedReport
    <3>2. ~ (pc' \in InTask /\ k = task') /\ k \in 1 .. Len(Tasks)
      BY <3>1, BacktestAssumption DEF InTask
    <3>3. CASE k = task
      <4>1. PICK r : report[k] = <<r>> /\ Scored(r, k)
        BY <1>a, <2>2, <3>1, <3>3 DEF ScoredOne
      <4>2. report'[k] = Append(<<r>>, Result)
        BY <1>4, <2>4, <3>3, <4>1, JudgedReport
      <4>3. Append(<<r>>, Result) = <<r, Result>>
        <5>1. <<r>> \in Seq({r}) /\ Len(<<r>>) = 1 /\ <<r>>[1] = r
          OBVIOUS
        <5>2. Append(<<r>>, Result) = << <<r>>[1], Result >>
          BY <5>1, SecondResult
        <5> QED
          BY <5>1, <5>2
      <4> QED
        BY <2>1, <3>2, <3>3, <4>1, <4>2, <4>3 DEF ScoredPair
    <3>4. CASE k # task
      <4>1. report'[k] = report[k]
        BY <1>4, <2>4, <3>1, <3>4, JudgedReport
      <4> QED
        BY <1>a, <3>1, <3>2, <3>4, <4>1
    <3> QED
      BY <3>3, <3>4
  <2> QED
    BY <2>3, <2>4 DEF ShapeInv
<1> QED
  BY <1>1, <1>2, <1>3, <1>4 DEF BtNext, Runner

LEMMA ResultsInvHolds == BtSpec => []ResultsInv
<1>1. BtInit => ResultsInv
  <2>1. <<>> \in Seq({}) /\ DOMAIN <<>> = {}
    OBVIOUS
  <2> QED
    BY <2>1 DEF BtInit, ResultsInv
<1>2. BtInv /\ ResultsInv /\ [BtNext]_btVars => ResultsInv'
  BY ResultsStep DEF BtInv
<1> QED
  BY <1>1, <1>2, BtInvHolds, PTL DEF BtSpec

\* A condition counts as a success exactly if it was one.
THEOREM SuccessAlwaysReal == BtSpec => []SuccessIsReal
<1>1. BtInv /\ ResultsInv => SuccessIsReal
  <2> SUFFICES ASSUME BtInv, ResultsInv, NEW k \in DOMAIN report, NEW i \in DOMAIN report[k]
               PROVE  LET w == report[k][i].writes
                          t == Tasks[k]
                      IN  Success(report[k][i].scores) <=>
                            /\ \A e \in ToSet(t.expected) : WriteMade(w, e)
                            /\ \A j \in DOMAIN w : w[j].action \notin t.forbidden
                            /\ Len(w) <= t.maxWrites
    BY DEF SuccessIsReal
  <2>1. k \in 1 .. Len(Tasks) /\ Scored(report[k][i], k)
    <3>1. CASE pc \in InTask /\ k = task
      <4>1. PICK r : report[k] = <<r>> /\ Scored(r, k)
        BY <3>1 DEF ResultsInv, ScoredOne
      <4>2. report[k][i] = r
        BY <4>1
      <4> QED
        BY <3>1, <4>1, <4>2 DEF BtInv, ShapeInv
    <3>2. CASE ~ (pc \in InTask /\ k = task)
      <4>1. k \in 1 .. Len(Tasks) /\ ScoredPair(report[k], k)
        BY <3>2 DEF ResultsInv
      <4>2. PICK r, s : report[k] = <<r, s>> /\ Scored(r, k) /\ Scored(s, k)
        BY <4>1 DEF ScoredPair
      <4>3. report[k][i] = r \/ report[k][i] = s
        BY <4>2
      <4> QED
        BY <4>1, <4>2, <4>3
    <3> QED
      BY <3>1, <3>2
  <2> DEFINE x == report[k][i]
  <2>2. PICK T : x.writes \in Seq(T)
    BY <2>1 DEF Scored
  <2>3. x.scores = Scores(Tasks[k], x.writes, x.claims)
    BY <2>1 DEF Scored
  <2> HIDE DEF x
  <2>4. Success(x.scores) <=>
           /\ \A e \in ToSet(Tasks[k].expected) : WriteMade(x.writes, e)
           /\ \A j \in DOMAIN x.writes : x.writes[j].action \notin Tasks[k].forbidden
           /\ Len(x.writes) <= Tasks[k].maxWrites
    BY <2>1, <2>2, <2>3, SuccessMeans
  <2> QED
    BY <2>4 DEF x
<1> QED
  BY <1>1, BtInvHolds, ResultsInvHolds, PTL

-----------------------------------------------------------------------------
\* Types.
\* What else the type invariant says.
PlaceInv ==
  /\ llm \in {"stub", "live"} /\ faults \in Faults
  /\ task = 1 \/ task \in 1 .. Len(Tasks)
  /\ steps \in 0 .. MaxSteps
  /\ DOMAIN state \subseteq Channels
  /\ pc = "done" => Len(report) = Len(Tasks)

LEMMA PlaceStep ==
  ASSUME ShapeInv, PlaceInv, [BtNext]_btVars
  PROVE  PlaceInv'
<1> USE BacktestAssumption DEF PlaceInv
<1>1. CASE LogStep \/ UNCHANGED btVars
  <2>1. UNCHANGED <<llm, faults, pc, task, steps, state, report>>
    BY <1>1 DEF LogStep, btVars, run
  <2> QED
    BY <2>1
<1>2. CASE BuildRunner
  <2>1. /\ UNCHANGED <<llm, faults, task, steps, state>> /\ report' = <<>>
        /\ pc' = IF Len(Tasks) = 0 THEN "done" ELSE "list"
    BY <1>2 DEF BuildRunner, ShapeInv
  <2>2. Len(<<>>) = 0
    OBVIOUS
  <2> QED
    BY <2>1, <2>2
<1>3. CASE ListEntities
  <2>1. /\ UNCHANGED <<llm, faults, task, steps>> /\ pc' = "payloads"
        /\ DOMAIN state' = Seen(This)
    BY <1>3 DEF ListEntities
  <2>2. Seen(This) \subseteq Channels
    BY DEF Seen
  <2> QED
    BY <2>1, <2>2
<1>4. CASE ReadPayload
  <2>1. /\ UNCHANGED <<llm, faults, task, steps>> /\ pc' = "payloads"
        /\ DOMAIN state' = DOMAIN state
    BY <1>4 DEF ReadPayload
  <2> QED
    BY <2>1
<1>5. CASE Retrieve \/ OpenSandbox \/ Respond \/ OutOfSteps
  <2>1. UNCHANGED <<llm, faults, task, state>> /\ pc' # "done"
    BY <1>5 DEF Retrieve, OpenSandbox, Respond, OutOfSteps
  <2>2. steps' \in 0 .. MaxSteps
    <3>1. Retrieve \/ OutOfSteps => steps' = steps
      BY DEF Retrieve, OutOfSteps
    <3>2. OpenSandbox => steps' = 0
      BY DEF OpenSandbox
    <3>3. Respond => steps < MaxSteps /\ steps' = steps + 1
      BY DEF Respond
    <3> QED
      BY <1>5, <3>1, <3>2, <3>3
  <2> QED
    BY <2>1, <2>2
<1>6. CASE Judged
  <2>1. UNCHANGED <<llm, faults, steps, state>>
    BY <1>6 DEF Judged
  <2>2. task \in 1 .. Len(Tasks) /\ cond \in {1, 2}
    BY <1>6, JudgedReport DEF ShapeInv
  <2>3. CASE cond = 1
    <3>1. pc' = "sandbox" /\ task' = task
      BY <1>6, <2>3, JudgedReport
    <3> QED
      BY <2>1, <2>2, <3>1
  <2>4. CASE cond = 2
    <3>1. /\ Len(report') = task
          /\ \/ pc' = "done" /\ task = Len(Tasks) /\ task' = task
             \/ pc' = "list" /\ task' = task + 1 /\ task' \in 1 .. Len(Tasks)
      BY <1>6, <2>4, JudgedReport
    <3> QED
      BY <2>1, <2>2, <3>1
  <2> QED
    BY <2>2, <2>3, <2>4
<1>7. CASE ClientFails
  <2>1. UNCHANGED <<llm, faults, task, steps, state>> /\ pc' = "dead"
    BY <1>7 DEF ClientFails
  <2> QED
    BY <2>1
<1> QED
  BY <1>1, <1>2, <1>3, <1>4, <1>5, <1>6, <1>7 DEF BtNext, Runner

LEMMA PlacesHold == BtSpec => []PlaceInv
<1>1. BtInit => PlaceInv
  <2> SUFFICES ASSUME BtInit PROVE PlaceInv
    OBVIOUS
  <2>1. /\ llm \in {"stub", "live"} /\ faults \in Faults /\ task = 1 /\ steps = 0
        /\ state = <<>> /\ pc = "start"
    BY DEF BtInit
  <2>2. DOMAIN state = {}
    BY <2>1
  <2>3. 0 \in 0 .. MaxSteps
    BY BacktestAssumption
  <2> QED
    BY <2>1, <2>2, <2>3 DEF PlaceInv
<1>2. BtInv /\ PlaceInv /\ [BtNext]_btVars => PlaceInv'
  BY PlaceStep DEF BtInv
<1> QED
  BY <1>1, <1>2, BtInvHolds, PTL DEF BtSpec

\* Every variable has its type, and every task that was finished its two results.
THEOREM BtTypeCorrect == BtSpec => []BtTypeOK
<1>1. BtInv /\ BundleInv /\ ResultsInv /\ PlaceInv => BtTypeOK
  <2> SUFFICES ASSUME BtInv, BundleInv, ResultsInv, PlaceInv
               PROVE  BtTypeOK
    OBVIOUS
  <2>1. ToSet(bundle) \subseteq index
    BY DEF BundleInv, ToSet
  <2>2. ASSUME NEW k \in DOMAIN report
        PROVE  Len(report[k]) = IF k = task /\ pc # "done" THEN 1 ELSE 2
    <3>1. CASE pc \in InTask
      <4>1. CASE k = task
        <5>1. PICK r : report[k] = <<r>>
          BY <3>1, <4>1 DEF ResultsInv, ScoredOne
        <5> QED
          BY <3>1, <4>1, <5>1 DEF InTask
      <4>2. CASE k # task
        <5>1. PICK r, s : report[k] = <<r, s>>
          BY <4>2 DEF ResultsInv, ScoredPair
        <5> QED
          BY <4>2, <5>1
      <4> QED
        BY <4>1, <4>2
    <3>2. CASE pc = "done"
      <4>1. PICK r, s : report[k] = <<r, s>>
        BY <3>2 DEF ResultsInv, ScoredPair, InTask
      <4> QED
        BY <3>2, <4>1
    <3>3. CASE pc \in {"start", "dead"}
      <4>1. report = <<>>
        BY <3>3 DEF BtInv, ShapeInv
      <4> QED
        BY <4>1
    <3> QED
      BY <3>1, <3>2, <3>3 DEF BtInv, ShapeInv
  <2>3. pc \notin {"done", "dead"} => Len(report) = IF cond = 2 THEN task ELSE task - 1
    <3>1. CASE pc = "start"
      <4>1. report = <<>> /\ task = 1 /\ cond # 2 /\ Len(<<>>) = 0
        BY <3>1 DEF BtInv, ShapeInv, InCondition
      <4> QED
        BY <4>1
    <3>2. CASE pc # "start"
      BY <3>2 DEF BtInv, ShapeInv
    <3> QED
      BY <3>1, <3>2
  <2>4. /\ pc \in {"start", "list", "payloads", "sandbox", "agent", "judge", "done", "dead"}
        /\ cond \in {1, 2}
    BY DEF BtInv, ShapeInv, InTask
  <2>5. steady \subseteq 1 .. task
    BY BacktestAssumption DEF BtInv, SteadyInv, ShapeInv
  <2>6. /\ now \in Nat /\ open \in [Writers -> Nat \cup {Closed}]
        /\ \A r \in rows : r.stamp \in Nat
    BY DEF BtInv, ShapeInv, AbsTypeOK
  <2> QED
    BY <2>1, <2>2, <2>3, <2>4, <2>5, <2>6 DEF BundleInv, PlaceInv, BtTypeOK
<1> QED
  BY <1>1, BtInvHolds, BundleInvHolds, ResultsInvHolds, PlacesHold, PTL

=============================================================================
