------------------------------ MODULE FoldLemmas ------------------------------
(***************************************************************************)
(* Induction and the folds of the community modules, in the form the       *)
(* proofs about Sizing cite.  What is proved by induction is a set, not a  *)
(* predicate, and what a fold applies is a function, not an operator.      *)
(***************************************************************************)
EXTENDS Integers, SequencesExt, FiniteSetTheorems, WellFoundedInduction, TLAPS

LEMMA NatSetLeast ==
    ASSUME NEW T \in SUBSET Nat, T # {}
    PROVE  \E n \in T : \A m \in T : n <= m
  <1> DEFINE R == {pair \in Nat \X Nat : pair[1] < pair[2]}
  <1>1. IsWellFoundedOn(R, Nat)
    BY NatLessThanWellFounded DEF OpToRel
  <1> HIDE DEF R
  <1>2. PICK n \in T : \A m \in T : ~(<<m, n>> \in R)
    BY <1>1, WFMin
  <1>3. \A m \in T : m \in Nat /\ n \in Nat /\ ~(m < n)
    BY <1>2 DEF R
  <1> QED BY <1>3

LEMMA NatSetInduction ==
    ASSUME NEW T, 0 \in T, \A n \in Nat : n \in T => n + 1 \in T
    PROVE  Nat \subseteq T
  <1> SUFFICES ASSUME Nat \ T # {} PROVE FALSE
    OBVIOUS
  <1>1. PICK n \in Nat \ T : \A m \in Nat \ T : n <= m
    BY NatSetLeast
  <1>2. n - 1 \in Nat
    BY <1>1
  <1>3. n - 1 \in T
    BY <1>1, <1>2
  <1>4. (n - 1) + 1 \in T
    BY <1>2, <1>3
  <1> QED BY <1>1, <1>4

-----------------------------------------------------------------------------
(* What a fold is given: pick chooses the element to take out of a set, step *)
(* what to make of it and of the fold of the rest.                           *)
Foldable(S, V, base, pick, step) ==
    /\ IsFiniteSet(S)
    /\ base \in V
    /\ \A T \in SUBSET S : T # {} => pick[T] \in T
    /\ step \in [S \X V -> V]

IsFold(S, V, base, pick, step, h) ==
    /\ h \in [SUBSET S -> V]
    /\ \A T \in SUBSET S :
         h[T] = IF T = {} THEN base ELSE step[<<pick[T], h[T \ {pick[T]}]>>]

\* A function that is defined on the subsets of a finite set by taking one
\* element out at a time exists.
LEMMA FoldExists ==
    ASSUME NEW S, NEW V, NEW base, NEW pick, NEW step,
           Foldable(S, V, base, pick, step)
    PROVE  \E h : IsFold(S, V, base, pick, step, h)
  <1> USE DEF Foldable, IsFold
  <1> DEFINE Upto(n) == {T \in SUBSET S : Cardinality(T) <= n}
             Folds(n, h) ==
               \A T \in Upto(n) :
                 h[T] = IF T = {} THEN base ELSE step[<<pick[T], h[T \ {pick[T]}]>>]
             Good == {n \in Nat : \E h \in [Upto(n) -> V] : Folds(n, h)}
  <1>1. \A T \in SUBSET S : IsFiniteSet(T) /\ Cardinality(T) \in Nat
                            /\ (Cardinality(T) = 0 <=> T = {})
    BY FS_Subset, FS_CardinalityType, FS_EmptySet
  <1>2. \A T \in SUBSET S : T # {} => Cardinality(T \ {pick[T]}) = Cardinality(T) - 1
    BY <1>1, FS_RemoveElement
  <1>3. 0 \in Good
    <2>1. \A T \in Upto(0) : T = {}
      BY <1>1
    <2>2. [T \in Upto(0) |-> base] \in [Upto(0) -> V] /\ Folds(0, [T \in Upto(0) |-> base])
      BY <2>1
    <2> QED BY <2>2
  <1>4. ASSUME NEW n \in Nat, n \in Good PROVE n + 1 \in Good
    <2>1. PICK h \in [Upto(n) -> V] : Folds(n, h)
      BY <1>4
    <2> DEFINE k == [T \in Upto(n + 1) |->
                       IF T = {} THEN base
                       ELSE step[<<pick[T], h[T \ {pick[T]}]>>]]
    <2>2. ASSUME NEW T \in Upto(n + 1), T # {}
          PROVE  T \ {pick[T]} \in Upto(n) /\ T \ {pick[T]} \in Upto(n + 1)
      BY <1>1, <1>2, <2>2
    <2>3. \A T \in Upto(n) : T \in Upto(n + 1) /\ k[T] = h[T]
      BY <1>1, <2>1
    <2>4. k \in [Upto(n + 1) -> V]
      BY <2>2
    <2>5. Folds(n + 1, k)
      BY <2>2, <2>3
    <2> HIDE DEF k, Upto, Folds
    <2>6. n + 1 \in Nat
      OBVIOUS
    <2> QED BY <2>4, <2>5, <2>6
  <1> HIDE DEF Good
  <1>5. Nat \subseteq Good
    BY <1>3, <1>4, NatSetInduction
  <1>6. Cardinality(S) \in Good
    BY <1>1, <1>5
  <1>7. PICK h \in [Upto(Cardinality(S)) -> V] : Folds(Cardinality(S), h)
    BY <1>6 DEF Good
  <1>8. Upto(Cardinality(S)) = SUBSET S
    BY FS_Subset
  <1> QED BY <1>7, <1>8

\* FoldLeft takes the elements out from the last to the first.
LEMMA MaxOfRange ==
    ASSUME NEW n \in Nat
    PROVE  /\ \A T \in SUBSET (1..n) : T # {} => Max(T) \in T
           /\ \A k \in 1..n : /\ Max(1..k) = k /\ (1..k) \ {k} = 1..(k - 1)
                              /\ 1..k \subseteq 1..n /\ k \in 1..k
  <1>1. ASSUME NEW T \in SUBSET (1..n), T # {} PROVE Max(T) \in T
    <2> DEFINE Below == {n - x : x \in T}
    <2>0. \A x \in T : n - x \in Nat
      OBVIOUS
    <2>1. Below \in SUBSET Nat /\ Below # {}
      BY <1>1, <2>0
    <2>2. PICK m \in Below : \A k \in Below : m <= k
      BY <2>1, NatSetLeast
    <2>3. PICK x \in T : m = n - x
      BY <2>2
    <2>4. \A y \in T : n - x <= n - y
      BY <2>2, <2>3
    <2>5. \A y \in T : x >= y
      BY <2>4
    <2> QED BY <2>5 DEF Max
  <1>2. ASSUME NEW k \in 1..n
        PROVE  /\ Max(1..k) = k /\ (1..k) \ {k} = 1..(k - 1)
               /\ 1..k \subseteq 1..n /\ k \in 1..k
    <2>1. k \in 1..k /\ \A y \in 1..k : k >= y
      OBVIOUS
    <2>2. \A x \in 1..k : (\A y \in 1..k : x >= y) => x = k
      BY <2>1
    <2>3. Max(1..k) = k
      BY <2>1, <2>2 DEF Max
    <2> QED BY <2>3
  <1> QED BY <1>1, <1>2

-----------------------------------------------------------------------------
(* The sum of a function's values, which takes the elements out in any order. *)

LEMMA SumIsNat ==
    ASSUME NEW S, IsFiniteSet(S), NEW f \in [S -> Nat]
    PROVE  SumFunction(f) \in Nat
  <1> DEFINE pick == [T \in SUBSET S |-> CHOOSE x \in T : TRUE]
             step == [e \in S \X Nat |-> f[e[1]] + e[2]]
  <1>1. \A T \in SUBSET S : T # {} => (CHOOSE x \in T : TRUE) \in T
    OBVIOUS
  <1>2. step \in [S \X Nat -> Nat]
    OBVIOUS
  <1>3. PICK h : IsFold(S, Nat, 0, pick, step, h)
    <2>1. Foldable(S, Nat, 0, pick, step)
      BY <1>1, <1>2 DEF Foldable
    <2> HIDE DEF pick, step
    <2> QED BY <2>1, FoldExists
  <1> DEFINE Solves(g) ==
               g = [T \in SUBSET S |->
                     IF T = {} THEN 0
                     ELSE f[CHOOSE x \in T : TRUE] + g[T \ {CHOOSE x \in T : TRUE}]]
             sum == CHOOSE g : Solves(g)
  <1>4. Solves(h)
    <2>1. ASSUME NEW T \in SUBSET S, T # {}
          PROVE  step[<<pick[T], h[T \ {pick[T]}]>>]
                   = f[CHOOSE x \in T : TRUE] + h[T \ {CHOOSE x \in T : TRUE}]
      <3>1. (CHOOSE x \in T : TRUE) \in S /\ T \ {CHOOSE x \in T : TRUE} \in SUBSET S
        BY <1>1, <2>1
      <3> DEFINE c == CHOOSE x \in T : TRUE
      <3>2. h[T \ {c}] \in Nat
        BY <1>3, <3>1 DEF IsFold
      <3>3. pick[T] = c /\ c \in S
        BY <3>1
      <3> HIDE DEF c, pick
      <3>4. step[<<c, h[T \ {c}]>>] = f[c] + h[T \ {c}]
        BY <3>2, <3>3
      <3>5. step[<<pick[T], h[T \ {pick[T]}]>>] = f[c] + h[T \ {c}]
        BY <3>3, <3>4
      <3> QED BY <3>5 DEF c
    <2> QED BY <1>3, <2>1 DEF IsFold
  <1>5. Solves(sum)
    BY <1>4
  <1>6. SumFunction(f) = sum[S]
    BY DEF SumFunction, SumFunctionOnSet, FoldFunctionOnSet, MapThenFoldSet
  <1> HIDE DEF sum
  <1> DEFINE Good == {n \in Nat : \A T \in SUBSET S :
                        Cardinality(T) <= n => sum[T] \in Nat}
  <1>7. \A T \in SUBSET S : IsFiniteSet(T) /\ Cardinality(T) \in Nat
                            /\ (Cardinality(T) = 0 <=> T = {})
    BY FS_Subset, FS_CardinalityType, FS_EmptySet
  <1>8. sum[{}] = 0
    BY <1>5
  <1>9. 0 \in Good
    BY <1>7, <1>8
  <1>10. ASSUME NEW n \in Nat, n \in Good PROVE n + 1 \in Good
    <2> SUFFICES ASSUME NEW T \in SUBSET S, Cardinality(T) <= n + 1
                 PROVE  sum[T] \in Nat
      OBVIOUS
    <2>0. CASE T = {}
      BY <1>8, <2>0
    <2> SUFFICES ASSUME T # {} PROVE sum[T] \in Nat
      BY <2>0
    <2> DEFINE x == CHOOSE x \in T : TRUE
    <2>1. x \in T /\ x \in S /\ T \ {x} \in SUBSET S
      BY <1>1
    <2>2. sum[T] = f[x] + sum[T \ {x}]
      BY <1>5
    <2> HIDE DEF x
    <2>3. Cardinality(T \ {x}) = Cardinality(T) - 1
      BY <1>7, <2>1, FS_RemoveElement
    <2>4. sum[T \ {x}] \in Nat
      BY <1>7, <1>10, <2>1, <2>3
    <2> QED BY <2>1, <2>2, <2>4
  <1> HIDE DEF Good
  <1>11. \A n \in Nat : n \in Good
    BY <1>9, <1>10, NatSetInduction
  <1>12. Cardinality(S) \in Nat /\ S \in SUBSET S
    BY FS_CardinalityType
  <1>13. Cardinality(S) \in Good
    BY <1>11, <1>12
  <1>14. sum[S] \in Nat
    BY <1>12, <1>13 DEF Good
  <1> QED BY <1>6, <1>14
=============================================================================
