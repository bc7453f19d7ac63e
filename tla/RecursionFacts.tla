--------------------------- MODULE RecursionFacts ---------------------------
(***************************************************************************)
(* Facts about numbers and recursive functions that the proofs of several   *)
(* components rest on: the library's induction theorems take an operator,   *)
(* which the provers can not instantiate, so these argue with least numbers. *)
(***************************************************************************)
EXTENDS Integers, FiniteSetTheorems, WellFoundedInduction, TLAPS

\* Every set of numbers that has a member has a least one.
LEMMA LeastNumber ==
    ASSUME NEW S, S \subseteq Nat, S # {}
    PROVE  \E n \in S : \A m \in S : n <= m
  <1> DEFINE R == StrictSubsetOrdering(Nat)
             F == FiniteSubsetsOf(Nat)
             D == {0 .. n : n \in S}
  <1>1. \A n \in S : 0 .. n \in F
    BY FS_Interval DEF FiniteSubsetsOf
  <1>2. D \subseteq F /\ D # {}
    BY <1>1
  <1>3. PICK d \in D : \A e \in D : ~ (<<e, d>> \in R)
    <2> HIDE DEF D, R, F
    <2>1. IsWellFoundedOn(R, F)
      BY FS_StrictSubsetOrderingWellFounded DEF R, F
    <2> QED BY <2>1, WFMin, <1>2
  <1>4. PICK x \in S : d = 0 .. x
    OBVIOUS
  <1>5. \A y \in S : y < x => <<0 .. y, 0 .. x>> \in R
    BY DEF StrictSubsetOrdering
  <1>6. \A y \in S : ~(y < x)
    <2> SUFFICES ASSUME NEW y \in S, y < x PROVE FALSE
      OBVIOUS
    <2>1. 0 .. y \in D
      OBVIOUS
    <2> HIDE DEF R
    <2> QED BY <2>1, <1>3, <1>4, <1>5
  <1> QED BY <1>6

\* Induction up to a number, with a set for the predicate.
LEMMA UpTo ==
    ASSUME NEW n \in Nat, NEW T, 0 \in T, \A k \in 1 .. n : k - 1 \in T => k \in T
    PROVE  0 .. n \subseteq T
  <1> DEFINE S == {k \in 0 .. n : k \notin T}
  <1>1. SUFFICES ASSUME S # {} PROVE FALSE
    OBVIOUS
  <1>2. S \subseteq Nat
    OBVIOUS
  <1>3. PICK k \in S : \A m \in S : k <= m
    <2> HIDE DEF S
    <2> QED BY <1>1, <1>2, LeastNumber
  <1>4. k \in 1 .. n /\ k - 1 \in 0 .. n
    OBVIOUS
  <1>5. k - 1 \in T
    BY <1>3, <1>4
  <1> QED BY <1>4, <1>5

\* f is the function on 0 .. n that starts with x and goes on with F.
Recursion(f, n, x, F) == f = [k \in 0 .. n |-> IF k = 0 THEN x ELSE F[k][f[k - 1]]]

\* A function that is defined by recursion on the number before exists.
LEMMA RecursiveFunction ==
    ASSUME NEW n \in Nat, NEW X, NEW x \in X, NEW F \in [1 .. n -> [X -> X]]
    PROVE  \E f : Recursion(f, n, x, F)
  <1> DEFINE Upto(m, f) == /\ f \in [0 .. m -> X]
                           /\ \A k \in 0 .. m : f[k] = IF k = 0 THEN x ELSE F[k][f[k - 1]]
             T == {m \in 0 .. n : \E f : Upto(m, f)}
  <1>1. 0 \in T
    <2>1. Upto(0, [k \in 0 .. 0 |-> x])
      OBVIOUS
    <2> HIDE DEF Upto
    <2> QED BY <2>1
  <1>2. ASSUME NEW m \in 1 .. n, m - 1 \in T PROVE m \in T
    <2>1. PICK f : Upto(m - 1, f)
      BY <1>2
    <2>2. f \in [0 .. m - 1 -> X] /\ m - 1 \in 0 .. m - 1
      BY <2>1
    <2>3. PICK y : y = F[m][f[m - 1]]
      OBVIOUS
    <2>4. y \in X
      BY <2>2, <2>3
    <2>5. PICK g : g = [k \in 0 .. m |-> IF k = m THEN y ELSE f[k]]
      OBVIOUS
    <2>6. g \in [0 .. m -> X] /\ g[m] = y /\ \A k \in 0 .. m - 1 : g[k] = f[k]
      BY <2>2, <2>4, <2>5
    <2>7. ASSUME NEW k \in 0 .. m PROVE g[k] = IF k = 0 THEN x ELSE F[k][g[k - 1]]
      <3>1. CASE k = m
        <4>1. g[m - 1] = f[m - 1] /\ k # 0
          BY <2>2, <2>6, <3>1
        <4> QED BY <2>3, <2>6, <3>1, <4>1
      <3>2. CASE k # m
        <4>1. k \in 0 .. m - 1 /\ (k # 0 => k - 1 \in 0 .. m - 1)
          BY <3>2
        <4>2. f[k] = IF k = 0 THEN x ELSE F[k][f[k - 1]]
          BY <2>1, <4>1
        <4> QED BY <2>6, <4>1, <4>2
      <3> QED BY <3>1, <3>2
    <2>8. Upto(m, g)
      BY <2>6, <2>7
    <2>9. m \in 0 .. n
      OBVIOUS
    <2> HIDE DEF Upto
    <2> QED BY <2>8, <2>9
  <1>3. n \in T
    <2> HIDE DEF T
    <2>1. 0 .. n \subseteq T
      BY <1>1, <1>2, UpTo
    <2> QED BY <2>1
  <1>4. PICK f : Upto(n, f)
    BY <1>3
  <1>5. f = [k \in 0 .. n |-> f[k]]
    BY <1>4
  <1> QED BY <1>4, <1>5 DEF Recursion

-----------------------------------------------------------------------------
(* What is gathered along the edges of a graph: f[m] is what m has itself,  *)
(* and what f gives for each place that m draws from.                       *)

Gathers(f, S, own, from) == f = [m \in S |-> own[m] \cup UNION {f[p] : p \in from[m]}]

\* Induction over a set of numbers.
LEMMA Upwards ==
    ASSUME NEW S, S \subseteq Nat, NEW T,
           \A m \in S : (\A p \in S : p < m => p \in T) => m \in T
    PROVE  S \subseteq T
  <1> DEFINE R == S \ T
  <1>1. SUFFICES ASSUME R # {} PROVE FALSE
    OBVIOUS
  <1>2. R \subseteq Nat
    OBVIOUS
  <1>3. PICK m \in R : \A p \in R : m <= p
    <2> HIDE DEF R
    <2> QED BY <1>1, <1>2, LeastNumber
  <1>4. \A p \in S : p < m => p \in T
    BY <1>2, <1>3
  <1> QED BY <1>4

\* Such a function exists, cycles or not: the least one.
LEMMA GathererExists ==
    ASSUME NEW S, NEW X, NEW own \in [S -> SUBSET X], NEW from \in [S -> SUBSET S]
    PROVE  \E f : Gathers(f, S, own, from)
  <1> DEFINE Closed(R) ==
               \A m \in S : /\ \A x \in own[m] : <<m, x>> \in R
                           /\ \A p \in from[m] : \A x \in X : <<p, x>> \in R => <<m, x>> \in R
             L == {e \in S \X X : \A R \in SUBSET (S \X X) : Closed(R) => e \in R}
             K == {e \in S \X X : \/ e[2] \in own[e[1]]
                                  \/ \E p \in from[e[1]] : <<p, e[2]>> \in L}
  <1>1. Closed(L)
    <2>1. ASSUME NEW m \in S, NEW x \in own[m] PROVE <<m, x>> \in L
      OBVIOUS
    <2>2. ASSUME NEW m \in S, NEW p \in from[m], NEW x \in X, <<p, x>> \in L
          PROVE  <<m, x>> \in L
      <3>1. ASSUME NEW R \in SUBSET (S \X X), Closed(R) PROVE <<m, x>> \in R
        <4>1. <<p, x>> \in R
          BY <2>2, <3>1
        <4> HIDE DEF L, K
        <4> QED BY <3>1, <4>1
      <3>2. <<m, x>> \in S \X X
        OBVIOUS
      <3> HIDE DEF Closed
      <3> QED BY <3>1, <3>2
    <2> HIDE DEF L
    <2> QED BY <2>1, <2>2
  <1>2. K \subseteq L
    <2> SUFFICES ASSUME NEW e \in K PROVE e \in L
      OBVIOUS
    <2>1. PICK m \in S, x \in X : e = <<m, x>>
      OBVIOUS
    <2>2. x \in own[m] \/ \E p \in from[m] : <<p, x>> \in L
      <3> HIDE DEF L
      <3> QED BY <2>1
    <2> HIDE DEF L, K
    <2>3. CASE x \in own[m]
      BY <1>1, <2>1, <2>3
    <2>4. CASE \E p \in from[m] : <<p, x>> \in L
      BY <1>1, <2>1, <2>4
    <2> QED BY <2>2, <2>3, <2>4
  <1>3. Closed(K)
    <2>1. ASSUME NEW m \in S, NEW x \in own[m] PROVE <<m, x>> \in K
      OBVIOUS
    <2>2. ASSUME NEW m \in S, NEW p \in from[m], NEW x \in X, <<p, x>> \in K
          PROVE  <<m, x>> \in K
      <3>1. <<p, x>> \in L
        <4> HIDE DEF K, L
        <4> QED BY <1>2, <2>2
      <3> HIDE DEF L
      <3> QED BY <3>1
    <2> HIDE DEF K
    <2> QED BY <2>1, <2>2
  <1>4. L \subseteq K
    <2>1. K \in SUBSET (S \X X)
      OBVIOUS
    <2> HIDE DEF K, Closed
    <2> QED BY <1>3, <2>1
  <1>5. \A m \in S : \A x \in X :
          <<m, x>> \in L <=> x \in own[m] \/ \E p \in from[m] : <<p, x>> \in L
    <2> SUFFICES ASSUME NEW m \in S, NEW x \in X
                 PROVE  <<m, x>> \in K <=> x \in own[m] \/ \E p \in from[m] : <<p, x>> \in L
      <3> HIDE DEF L, K
      <3> QED BY <1>2, <1>4
    <2> HIDE DEF L
    <2> QED OBVIOUS
  <1> HIDE DEF L
  <1>6. PICK f : f = [m \in S |-> {x \in X : <<m, x>> \in L}]
    OBVIOUS
  <1>7. ASSUME NEW m \in S PROVE f[m] = own[m] \cup UNION {f[p] : p \in from[m]}
    <2>1. \A p \in from[m] : p \in S /\ f[p] = {x \in X : <<p, x>> \in L}
      BY <1>6
    <2>2. own[m] \subseteq X
      OBVIOUS
    <2>3. \A x \in X : x \in f[m] <=> x \in own[m] \/ \E p \in from[m] : x \in f[p]
      BY <1>5, <1>6, <2>1
    <2>4. f[m] \subseteq X /\ \A p \in from[m] : f[p] \subseteq X
      BY <1>6, <2>1
    <2> QED BY <2>2, <2>3, <2>4
  <1>8. f = [m \in S |-> own[m] \cup UNION {f[p] : p \in from[m]}]
    BY <1>6, <1>7
  <1> QED BY <1>8 DEF Gathers
=============================================================================
