---------------------------- MODULE SumTheorems ----------------------------
(***************************************************************************)
(* What SumFunctionOnSet of the community modules computes: the sum of a   *)
(* function of integers over a finite set, whatever the order in which its *)
(* fold picks the elements.  The models sum quantities of position rows    *)
(* and counts of failures with it.                                         *)
(*                                                                         *)
(* Each induction looks at a least counterexample, which exists because    *)
(* the order of the naturals and of finite sets is well founded.           *)
(***************************************************************************)
EXTENDS Integers, FiniteSets, Functions, FiniteSetTheorems, WellFoundedInduction, TLAPS

(* One turn of the fold, and the function the fold defines. *)
Pick(s)          == CHOOSE x \in s : TRUE
OneTurn(f, g, s)    == IF s = {} THEN 0 ELSE f[Pick(s)] + g[s \ {Pick(s)}]
IsFold(f, S, g)   == g = [s \in SUBSET S |-> OneTurn(f, g, s)]
IntegersOn(f, S) == \A x \in S : f[x] \in Int

(* The element a fold picks is one of the set. *)
LEMMA PickOne == ASSUME NEW s, s # {} PROVE Pick(s) \in s
  BY DEF Pick

(* A set of naturals with an element has a least one. *)
LEMMA LeastNatural ==
  ASSUME NEW N \in SUBSET Nat, N # {}
  PROVE  \E n \in N : \A m \in N : n <= m
<1>1. PICK n \in N : \A m \in N : <<m, n>> \notin OpToRel(<, Nat)
  BY NatLessThanWellFounded, WFMin, Zenon
<1>2. \A m \in N : ~(m < n)
  BY <1>1 DEF OpToRel
<1> QED
  BY <1>2

(* A collection of subsets of a finite set has a member none of whose proper *)
(* subsets is a member.                                                      *)
LEMMA LeastSubset ==
  ASSUME NEW S, IsFiniteSet(S), NEW C \in SUBSET (SUBSET S), C # {}
  PROVE  \E T \in C : \A U \in C : U \subseteq T => U = T
<1>1. IsWellFoundedOn(StrictSubsetOrdering(S), FiniteSubsetsOf(S))
  BY FS_StrictSubsetOrderingWellFounded
<1>2. FiniteSubsetsOf(S) = SUBSET S
  BY FS_FiniteSubsetsOfFinite
<1>3. PICK T \in C : \A U \in C : <<U, T>> \notin StrictSubsetOrdering(S)
  BY <1>1, <1>2, WFMin
<1> QED
  BY <1>3 DEF StrictSubsetOrdering

(* The function that the fold defines by recursion on sets exists ... *)
LEMMA FoldExists ==
  ASSUME NEW S, IsFiniteSet(S), NEW f, IntegersOn(f, S)
  PROVE  \E g \in [SUBSET S -> Int] : IsFold(f, S, g)
<1> DEFINE Upto(n, g) == \A s \in SUBSET S : Cardinality(s) <= n => g[s] = OneTurn(f, g, s)
           Missing    == {n \in Nat : ~\E g \in [SUBSET S -> Int] : Upto(n, g)}
<1>1. \A s \in SUBSET S : IsFiniteSet(s) /\ Cardinality(s) \in Nat /\ Cardinality(s) <= Cardinality(S)
  BY FS_Subset, FS_CardinalityType
<1>2. \A s \in SUBSET S : s # {} => /\ Pick(s) \in s
                                    /\ s \ {Pick(s)} \in SUBSET S
                                    /\ Cardinality(s \ {Pick(s)}) = Cardinality(s) - 1
  BY <1>1, PickOne, FS_RemoveElement
<1>3. \A g \in [SUBSET S -> Int], s \in SUBSET S : OneTurn(f, g, s) \in Int
  <2> SUFFICES ASSUME NEW g \in [SUBSET S -> Int], NEW s \in SUBSET S, s # {}
               PROVE  f[Pick(s)] + g[s \ {Pick(s)}] \in Int
    BY DEF OneTurn
  <2>1. f[Pick(s)] \in Int /\ g[s \ {Pick(s)}] \in Int
    BY <1>2 DEF IntegersOn
  <2> QED
    BY <2>1
<1>4. ASSUME NEW n \in Missing, \A m \in Missing : n <= m PROVE FALSE
  <2>0. n \in Nat /\ ~\E g \in [SUBSET S -> Int] : Upto(n, g)
    BY <1>4
  <2>1. \E g \in [SUBSET S -> Int] : n > 0 => Upto(n - 1, g)
    <3> HIDE DEF Upto
    <3>1. CASE n = 0
      <4>1. [s \in SUBSET S |-> 0] \in [SUBSET S -> Int]
        OBVIOUS
      <4>2. ~(n > 0)
        BY <3>1
      <4> QED
        BY <4>1, <4>2
    <3>2. CASE n > 0
      <4>1. n - 1 \in Nat /\ ~(n <= n - 1)
        BY <2>0, <3>2
      <4>2. n - 1 \notin Missing
        BY <1>4, <4>1
      <4> QED
        BY <4>1, <4>2
    <3>3. n = 0 \/ n > 0
      BY <2>0
    <3> QED
      BY <3>1, <3>2, <3>3
  <2>2. PICK g \in [SUBSET S -> Int] : n > 0 => Upto(n - 1, g)
    BY <2>1
  <2> DEFINE h == [s \in SUBSET S |-> IF Cardinality(s) < n THEN g[s] ELSE OneTurn(f, g, s)]
  <2>3. h \in [SUBSET S -> Int]
    BY <1>3
  <2>4. ASSUME NEW s \in SUBSET S, Cardinality(s) <= n PROVE h[s] = OneTurn(f, h, s)
    <3>1. h[s] = OneTurn(f, g, s)
      BY <1>1, <2>0, <2>2, <2>4
    <3>2. s # {} => h[s \ {Pick(s)}] = g[s \ {Pick(s)}]
      BY <1>1, <1>2, <2>0, <2>4
    <3> QED
      BY <3>1, <3>2 DEF OneTurn
  <2> HIDE DEF h
  <2> QED
    BY <2>0, <2>3, <2>4
<1>5. Missing = {}
  BY <1>4, LeastNatural
<1>6. PICK g \in [SUBSET S -> Int] : Upto(Cardinality(S), g)
  BY <1>1, <1>5
<1>7. g = [s \in SUBSET S |-> OneTurn(f, g, s)]
  BY <1>1, <1>6
<1> QED
  BY <1>7 DEF IsFold

(* ... and is unique, on a smaller set as well. *)
LEMMA FoldUnique ==
  ASSUME NEW S, IsFiniteSet(S), NEW f, NEW g, IsFold(f, S, g),
         NEW T \in SUBSET S, NEW h, IsFold(f, T, h)
  PROVE  h[T] = g[T]
<1> DEFINE Different == {s \in SUBSET T : h[s] # g[s]}
<1>1. IsFiniteSet(T)
  BY FS_Subset
<1>2. ASSUME NEW s \in Different, \A u \in Different : u \subseteq s => u = s PROVE FALSE
  <2>1. h[s] = OneTurn(f, h, s) /\ g[s] = OneTurn(f, g, s)
    BY DEF IsFold
  <2>2. s # {} => h[s \ {Pick(s)}] = g[s \ {Pick(s)}]
    BY <1>2, PickOne
  <2> QED
    BY <2>1, <2>2 DEF OneTurn
<1>3. Different = {}
  <2>1. Different \in SUBSET (SUBSET T)
    OBVIOUS
  <2> HIDE DEF Different
  <2> QED
    BY <1>1, <1>2, <2>1, LeastSubset
<1> QED
  BY <1>3

(* SumFunctionOnSet is that function, at the set. *)
LEMMA SumIsFold ==
  ASSUME NEW S, IsFiniteSet(S), NEW f, IntegersOn(f, S), NEW g, IsFold(f, S, g),
         NEW T \in SUBSET S
  PROVE  SumFunctionOnSet(f, T) = g[T]
<1> DEFINE h == CHOOSE k : IsFold(f, T, k)
<1>1. SumFunctionOnSet(f, T) = h[T]
  BY DEF SumFunctionOnSet, FoldFunctionOnSet, MapThenFoldSet, IsFold, OneTurn, Pick
<1>2. IsFiniteSet(T) /\ IntegersOn(f, T)
  BY FS_Subset DEF IntegersOn
<1>3. \E k : IsFold(f, T, k)
  BY <1>2, FoldExists
<1>4. IsFold(f, T, h)
  BY <1>3
<1> QED
  BY <1>1, <1>4, FoldUnique

-----------------------------------------------------------------------------
(* The facts the models need *)

(* A sum is the value at any chosen element, plus the sum of the rest. *)
LEMMA SumPicked ==
  ASSUME NEW S, IsFiniteSet(S), NEW f, IntegersOn(f, S)
  PROVE  /\ SumFunctionOnSet(f, S) \in Int
         /\ SumFunctionOnSet(f, S) =
              IF S = {} THEN 0 ELSE f[Pick(S)] + SumFunctionOnSet(f, S \ {Pick(S)})
<1>1. PICK g \in [SUBSET S -> Int] : IsFold(f, S, g)
  BY FoldExists
<1>2. \A T \in SUBSET S : SumFunctionOnSet(f, T) = g[T]
  BY <1>1, SumIsFold
<1>3. g[S] = OneTurn(f, g, S)
  BY <1>1 DEF IsFold
<1> QED
  BY <1>2, <1>3 DEF OneTurn

(* The sum of nothing *)
LEMMA SumEmpty == ASSUME NEW f PROVE SumFunctionOnSet(f, {}) = 0
  BY SumPicked, FS_EmptySet DEF IntegersOn

(* It does not matter which element is taken out first. *)
LEMMA SumRemove ==
  ASSUME NEW S, IsFiniteSet(S), NEW f, IntegersOn(f, S), NEW x \in S
  PROVE  SumFunctionOnSet(f, S) = f[x] + SumFunctionOnSet(f, S \ {x})
<1> DEFINE Sum(T) == SumFunctionOnSet(f, T)
           Wrong  == {T \in SUBSET S : \E y \in T : Sum(T) # f[y] + Sum(T \ {y})}
<1>1. ASSUME NEW T \in Wrong, \A U \in Wrong : U \subseteq T => U = T PROVE FALSE
  <2>1. PICK y \in T : Sum(T) # f[y] + Sum(T \ {y})
    OBVIOUS
  <2> DEFINE z == Pick(T)
  <2>2. z \in T
    BY <2>1, PickOne
  <2>3. \A U \in SUBSET T : IsFiniteSet(U) /\ IntegersOn(f, U)
    BY FS_Subset DEF IntegersOn
  <2>4. \A U \in SUBSET T : Sum(U) \in Int
    BY <2>3, SumPicked
  <2>5. Sum(T) = f[z] + Sum(T \ {z})
    BY <2>1, <2>3, SumPicked
  <2>6. y # z
    BY <2>1, <2>5
  <2>7. ASSUME NEW u \in T, NEW v \in T, u # v
        PROVE  Sum(T \ {u}) = f[v] + Sum((T \ {u}) \ {v})
    <3> HIDE DEF Sum
    <3>1. T \ {u} \in SUBSET S /\ T \ {u} \subseteq T /\ T \ {u} # T
      OBVIOUS
    <3>2. T \ {u} \notin Wrong
      <4> HIDE DEF Wrong
      <4> QED
        BY <1>1, <3>1
    <3>3. v \in T \ {u}
      BY <2>7
    <3> QED
      BY <3>1, <3>2, <3>3
  <2>8. /\ Sum(T \ {z}) = f[y] + Sum((T \ {z}) \ {y})
        /\ Sum(T \ {y}) = f[z] + Sum((T \ {y}) \ {z})
    BY <2>2, <2>6, <2>7
  <2>9. (T \ {z}) \ {y} = (T \ {y}) \ {z}
    OBVIOUS
  <2>10. f[y] \in Int /\ f[z] \in Int
    BY <2>1, <2>2 DEF IntegersOn
  <2> HIDE DEF Sum, z
  <2> QED
    BY <2>1, <2>4, <2>5, <2>8, <2>9, <2>10
<1>2. Wrong = {}
  <2>1. Wrong \in SUBSET (SUBSET S)
    OBVIOUS
  <2> HIDE DEF Wrong
  <2> QED
    BY <1>1, <2>1, LeastSubset
<1> QED
  BY <1>2

(* One element more *)
LEMMA SumAdd ==
  ASSUME NEW S, IsFiniteSet(S), NEW f, NEW x, x \notin S, IntegersOn(f, S \cup {x})
  PROVE  SumFunctionOnSet(f, S \cup {x}) = SumFunctionOnSet(f, S) + f[x]
<1>1. IsFiniteSet(S \cup {x}) /\ (S \cup {x}) \ {x} = S
  BY FS_AddElement
<1>2. SumFunctionOnSet(f, S \cup {x}) = f[x] + SumFunctionOnSet(f, S)
  BY <1>1, SumRemove
<1>3. SumFunctionOnSet(f, S) \in Int /\ f[x] \in Int
  BY SumPicked DEF IntegersOn
<1> QED
  BY <1>2, <1>3

(* No term of a sum of naturals exceeds the sum. *)
LEMMA SumBounds ==
  ASSUME NEW S, IsFiniteSet(S), NEW f, \A x \in S : f[x] \in Nat
  PROVE  /\ SumFunctionOnSet(f, S) \in Nat
         /\ \A x \in S : f[x] <= SumFunctionOnSet(f, S)
<1> DEFINE Sum(T)   == SumFunctionOnSet(f, T)
           Negative == {T \in SUBSET S : Sum(T) \notin Nat}
<1>1. \A T \in SUBSET S : IsFiniteSet(T) /\ IntegersOn(f, T)
  BY FS_Subset DEF IntegersOn
<1>2. ASSUME NEW T \in Negative, \A U \in Negative : U \subseteq T => U = T PROVE FALSE
  <2>1. T # {}
    BY SumEmpty
  <2>2. PICK x \in T : TRUE
    BY <2>1
  <2>3. Sum(T) = f[x] + Sum(T \ {x})
    BY <1>1, SumRemove
  <2>4. Sum(T \ {x}) \in Nat /\ f[x] \in Nat
    BY <1>2
  <2> HIDE DEF Sum
  <2> QED
    BY <1>2, <2>3, <2>4
<1>3. Negative = {}
  <2>1. Negative \in SUBSET (SUBSET S)
    OBVIOUS
  <2> HIDE DEF Negative
  <2> QED
    BY <1>2, <2>1, LeastSubset
<1>4. \A T \in SUBSET S : Sum(T) \in Nat
  BY <1>3
<1>5. ASSUME NEW x \in S PROVE f[x] <= Sum(S)
  <2>1. Sum(S) = f[x] + Sum(S \ {x})
    BY <1>1, SumRemove
  <2>2. Sum(S \ {x}) \in Nat /\ f[x] \in Nat
    BY <1>4
  <2> HIDE DEF Sum
  <2> QED
    BY <2>1, <2>2
<1> QED
  BY <1>4, <1>5

=============================================================================
