---------------------------- MODULE Sums_proofs ----------------------------
(***************************************************************************)
(* What the sums of the models (SumFunctionOnSet of the community module   *)
(* Functions) do when an element is added.  The sum is a fold that takes   *)
(* its elements in an order nobody knows; that the order does not matter   *)
(* is shown by comparing it with a function on sets that obeys the         *)
(* equations of a sum for every element at once.                           *)
(***************************************************************************)
EXTENDS Functions, FiniteSetTheorems, WellFoundedInduction, TLAPS

(* A total takes any element of a set off first. *)
IsTotal(total, w, D) ==
  /\ total \in [SUBSET D -> Int]
  /\ total[{}] = 0
  /\ \A S \in SUBSET D : \A x \in S : total[S] = w[x] + total[S \ {x}]

(* Among subsets of a finite set there is a smallest one. *)
LEMMA SmallestSubset ==
  ASSUME NEW D, IsFiniteSet(D), NEW Family, Family \subseteq SUBSET D, Family # {}
  PROVE  \E S \in Family : \A U \in Family : U \subseteq S => U = S
<1>1. IsWellFoundedOn(StrictSubsetOrdering(D), SUBSET D)
  BY FS_StrictSubsetOrderingWellFounded, FS_FiniteSubsetsOfFinite
<1>2. PICK S \in Family : \A U \in Family : ~ (<<U, S>> \in StrictSubsetOrdering(D))
  BY <1>1, WFMin
<1> QED BY <1>2 DEF StrictSubsetOrdering

(* Every finite set has a total: the smallest set that had none would get  *)
(* one from the set with an element less.                                  *)
LEMMA TotalExists ==
  ASSUME NEW D, IsFiniteSet(D), NEW w, \A x \in D : w[x] \in Int
  PROVE  \E total : IsTotal(total, w, D)
<1> DEFINE Without == {S \in SUBSET D : ~ \E total : IsTotal(total, w, S)}
<1>1. SUFFICES ASSUME Without # {} PROVE FALSE
  OBVIOUS
<1>2. PICK S \in Without : \A U \in Without : U \subseteq S => U = S
  <2>1. Without \subseteq SUBSET D
    OBVIOUS
  <2> HIDE DEF Without
  <2> QED BY <1>1, <2>1, SmallestSubset
<1>3. S # {}
  <2> DEFINE zero == [U \in SUBSET {} |-> 0]
  <2>1. IsTotal(zero, w, {})
    BY DEF IsTotal
  <2> QED BY <2>1, <1>2
<1>4. PICK x : x \in S
  BY <1>3
<1>5. PICK less : IsTotal(less, w, S \ {x})
  BY <1>2, <1>4
<1> DEFINE more == [U \in SUBSET S |-> IF x \in U THEN w[x] + less[U \ {x}] ELSE less[U]]
<1>6. w[x] \in Int /\ \A y \in S : w[y] \in Int
  BY <1>4
<1>7. ASSUME NEW U \in SUBSET S PROVE U \ {x} \in SUBSET (S \ {x}) /\ (x \notin U => U \in SUBSET (S \ {x}))
  OBVIOUS
<1>8. more \in [SUBSET S -> Int] /\ more[{}] = 0
  BY <1>5, <1>6, <1>7 DEF IsTotal
<1>9. ASSUME NEW U \in SUBSET S, NEW y \in U PROVE more[U] = w[y] + more[U \ {y}]
  <2>1. CASE y = x
    BY <2>1
  <2>2. CASE y # x /\ x \notin U
    <3>1. less[U] = w[y] + less[U \ {y}]
      BY <2>2, <1>5, <1>7 DEF IsTotal
    <3> QED BY <3>1, <2>2
  <2>3. CASE y # x /\ x \in U
    <3> DEFINE V == U \ {x}
    <3>1. V \in SUBSET (S \ {x}) /\ y \in V
      BY <2>3
    <3>2. less[V] = w[y] + less[V \ {y}]
      BY <3>1, <1>5 DEF IsTotal
    <3>3. V \ {y} = (U \ {y}) \ {x}
      OBVIOUS
    <3>4. more[U] = w[x] + less[V] /\ more[U \ {y}] = w[x] + less[V \ {y}]
      BY <2>3, <3>3
    <3>5. V \ {y} \in SUBSET (S \ {x}) /\ less[V \ {y}] \in Int
      BY <3>1, <1>5 DEF IsTotal
    <3> HIDE DEF more, V
    <3> QED BY <3>2, <3>4, <3>5, <1>6, <1>9
  <2> QED BY <2>1, <2>2, <2>3
<1>10. IsTotal(more, w, S)
  BY <1>8, <1>9 DEF IsTotal
<1> QED BY <1>10, <1>2

(* The sum, whatever order it takes, is the total. *)
LEMMA SumIsTotal ==
  ASSUME NEW D, IsFiniteSet(D), NEW w, NEW total, IsTotal(total, w, D), NEW S \in SUBSET D
  PROVE  SumFunctionOnSet(w, S) = total[S]
<1> DEFINE first(U) == CHOOSE x \in U : TRUE
           step(g) == [U \in SUBSET S |-> IF U = {} THEN 0 ELSE w[first(U)] + g[U \ {first(U)}]]
           iter == CHOOSE g : g = step(g)
           part == [U \in SUBSET S |-> total[U]]
<1>1. SumFunctionOnSet(w, S) = iter[S]
  BY DEF SumFunctionOnSet, FoldFunctionOnSet, MapThenFoldSet
<1>2. \A U : U # {} => first(U) \in U
  OBVIOUS
<1>3. part = step(part)
  BY <1>2 DEF IsTotal
<1>4. iter = step(iter)
  <2> HIDE DEF step
  <2> QED BY <1>3
<1>5. \A U \in SUBSET S : iter[U] = IF U = {} THEN 0 ELSE w[first(U)] + iter[U \ {first(U)}]
  <2> HIDE DEF iter
  <2> QED BY <1>4
<1> HIDE DEF iter, first
<1>6. ASSUME \E U \in SUBSET S : iter[U] # total[U] PROVE FALSE
  <2> DEFINE Wrong == {U \in SUBSET S : iter[U] # total[U]}
  <2>1. PICK U \in Wrong : \A V \in Wrong : V \subseteq U => V = U
    <3>1. IsFiniteSet(S) /\ Wrong \subseteq SUBSET S /\ Wrong # {}
      BY <1>6, FS_Subset
    <3> HIDE DEF Wrong
    <3> QED BY <3>1, SmallestSubset
  <2>2. U # {}
    BY <2>1, <1>5 DEF IsTotal
  <2>3. first(U) \in U
    BY <2>2, <1>2
  <2>4. iter[U \ {first(U)}] = total[U \ {first(U)}]
    BY <2>1, <2>3
  <2>5. total[U] = w[first(U)] + total[U \ {first(U)}]
    BY <2>1, <2>3 DEF IsTotal
  <2>6. iter[U] = w[first(U)] + iter[U \ {first(U)}]
    BY <2>1, <2>2, <1>5
  <2> QED BY <2>1, <2>4, <2>5, <2>6
<1> QED BY <1>1, <1>6

(* Nothing adds up to zero. *)
LEMMA SumOfNone ==
  ASSUME NEW w
  PROVE  SumFunctionOnSet(w, {}) = 0
<1>1. IsFiniteSet({})
  BY FS_EmptySet
<1>2. PICK total : IsTotal(total, w, {})
  BY <1>1, TotalExists
<1>3. SumFunctionOnSet(w, {}) = total[{}]
  BY <1>1, <1>2, SumIsTotal
<1> QED BY <1>2, <1>3 DEF IsTotal

(* An element more adds its weight. *)
LEMMA SumWithOneMore ==
  ASSUME NEW S, IsFiniteSet(S), NEW x, x \notin S, NEW w, \A y \in S \cup {x} : w[y] \in Int
  PROVE  /\ SumFunctionOnSet(w, S) \in Int
         /\ SumFunctionOnSet(w, S \cup {x}) = SumFunctionOnSet(w, S) + w[x]
<1> DEFINE D == S \cup {x}
<1>1. IsFiniteSet(D)
  BY FS_AddElement
<1>2. PICK total : IsTotal(total, w, D)
  BY <1>1, TotalExists
<1>3. SumFunctionOnSet(w, D) = total[D] /\ SumFunctionOnSet(w, S) = total[S]
  BY <1>1, <1>2, SumIsTotal
<1>4. D \ {x} = S /\ x \in D /\ S \in SUBSET D /\ D \in SUBSET D
  OBVIOUS
<1>5. total[D] = w[x] + total[S] /\ total[S] \in Int /\ w[x] \in Int
  BY <1>2, <1>4 DEF IsTotal
<1> QED BY <1>3, <1>5

(* Weights that agree on a set give it the same sum. *)
LEMMA SumOfEqualWeights ==
  ASSUME NEW S, IsFiniteSet(S), NEW w, NEW v, \A y \in S : w[y] \in Int /\ v[y] = w[y]
  PROVE  SumFunctionOnSet(v, S) = SumFunctionOnSet(w, S)
<1>1. PICK total : IsTotal(total, w, S)
  BY TotalExists
<1>2. IsTotal(total, v, S)
  BY <1>1 DEF IsTotal
<1> QED BY <1>1, <1>2, SumIsTotal

=============================================================================
