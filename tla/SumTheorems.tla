----------------------------- MODULE SumTheorems -----------------------------
(* Facts about SumFunctionOnSet(f, S), the sum of f[x] over the x in a       *)
(* finite set S, for numbers f[x] that are natural.  The operator is a fold: *)
(* it takes the elements of S in an order of its own choosing, by recursion. *)
(* What it computes is shown first: the number of elements of a set with     *)
(* f[x] elements for every x in S (SumIsCardinality).  Everything else then  *)
(* follows from facts about cardinality.                                     *)
EXTENDS Functions, FiniteSetTheorems, TLAPS

\* A set with f[x] elements for every x in S.
Units(f, S) == UNION {{x} \X (1 .. f[x]) : x \in S}

\* The body of the fold, where h stands for the fold of the smaller sets, and
\* the function on the subsets of S that the recursion defines.
Step(f, h, s) ==
    IF s = {} THEN 0 ELSE f[CHOOSE x \in s : TRUE] + h[s \ {CHOOSE x \in s : TRUE}]
Iter(f, S) == CHOOSE h : h = [s \in SUBSET S |-> Step(f, h, s)]

-------------------------------------------------------------------------------
(* What the fold computes. *)

LEMMA SumIsIter ==
    ASSUME NEW f, NEW S
    PROVE  SumFunctionOnSet(f, S) = Iter(f, S)[S]
BY DEF SumFunctionOnSet, FoldFunctionOnSet, MapThenFoldSet, Iter, Step

LEMMA CanPick == ASSUME NEW s, s # {} PROVE (CHOOSE x \in s : TRUE) \in s
OBVIOUS

\* The units of a finite set are finite, and each element has its own.
LEMMA UnitsOf ==
    ASSUME NEW S, IsFiniteSet(S), NEW f, \A x \in S : f[x] \in Nat
    PROVE  /\ IsFiniteSet(Units(f, S))
           /\ Cardinality(Units(f, {})) = 0
           /\ \A x \in S : Cardinality(Units(f, S))
                             = f[x] + Cardinality(Units(f, S \ {x}))
<1>1. ASSUME NEW x \in S
      PROVE  /\ IsFiniteSet({x} \X (1 .. f[x]))
             /\ Cardinality({x} \X (1 .. f[x])) = f[x]
  <2>1. IsFiniteSet({x}) /\ Cardinality({x}) = 1
    BY FS_Singleton
  <2>2. IsFiniteSet(1 .. f[x]) /\ Cardinality(1 .. f[x]) = f[x]
    BY FS_Interval
  <2>. QED
    BY <2>1, <2>2, FS_Product
<1>2. ASSUME NEW T \in SUBSET S
      PROVE  IsFiniteSet(Units(f, T))
  <2>. DEFINE M == [x \in S |-> {x} \X (1 .. f[x])]
              P == {M[x] : x \in T}
  <2>1. IsFiniteSet(P)
    <3>1. [x \in T |-> M[x]] \in Surjection(T, P)
      BY DEF Surjection
    <3>. QED
      BY <3>1, FS_Subset, FS_Surjection
  <2>2. \A U \in P : IsFiniteSet(U)
    BY <1>1
  <2>3. Units(f, T) = UNION P
    BY DEF Units
  <2>. QED
    BY <2>1, <2>2, <2>3, FS_UNION
<1>3. Units(f, {}) = {}
  BY DEF Units
<1>4. ASSUME NEW x \in S
      PROVE  Cardinality(Units(f, S)) = f[x] + Cardinality(Units(f, S \ {x}))
  <2>. DEFINE B == {x} \X (1 .. f[x])
  <2>1. /\ Units(f, S) = Units(f, S \ {x}) \cup B
        /\ Units(f, S \ {x}) \cap B = {}
    BY DEF Units
  <2>2. IsFiniteSet(Units(f, S \ {x})) /\ IsFiniteSet(B) /\ Cardinality(B) = f[x]
    BY <1>1, <1>2
  <2>3. Cardinality(Units(f, S \ {x})) \in Nat /\ Cardinality({}) = 0
    BY <2>2, FS_CardinalityType, FS_EmptySet
  <2>. HIDE DEF B
  <2>4. Cardinality(Units(f, S))
          = Cardinality(Units(f, S \ {x})) + Cardinality(B) - Cardinality({})
    BY SMTT(30), <2>1, <2>2, FS_Union
  <2>. QED
    BY <2>2, <2>3, <2>4
<1>. QED
  BY <1>2, <1>3, <1>4, FS_EmptySet

\* A sum is the number of its units.  The counts of the units solve the
\* recursion's equation, and nothing else does: of the sets where another
\* solution differs, take one without a smaller one.
THEOREM SumIsCardinality ==
    ASSUME NEW S, IsFiniteSet(S), NEW f, \A x \in S : f[x] \in Nat
    PROVE  SumFunctionOnSet(f, S) = Cardinality(Units(f, S))
<1>. DEFINE g == [s \in SUBSET S |-> Cardinality(Units(f, s))]
            h == Iter(f, S)
            differ == {s \in SUBSET S : h[s] # g[s]}
<1>1. g = [s \in SUBSET S |-> Step(f, g, s)]
  <2>1. ASSUME NEW s \in SUBSET S
        PROVE  Cardinality(Units(f, s)) = Step(f, g, s)
    <3>1. IsFiniteSet(s)
      BY FS_Subset
    <3>2. CASE s = {}
      BY <3>1, <3>2, UnitsOf DEF Step
    <3>3. CASE s # {}
      <4>. DEFINE x == CHOOSE x \in s : TRUE
      <4>1. x \in s
        BY <3>3, CanPick
      <4>2. Step(f, g, s) = f[x] + g[s \ {x}]
        BY <3>3 DEF Step
      <4>. HIDE DEF x
      <4>. QED
        BY <3>1, <4>1, <4>2, UnitsOf
    <3>. QED
      BY <3>2, <3>3
  <2>. QED
    BY <2>1
<1>2. h = [s \in SUBSET S |-> Step(f, h, s)]
  <2>. HIDE DEF g
  <2>. QED
    BY <1>1 DEF Iter
<1>. HIDE DEF h
<1>3. ASSUME differ # {} PROVE FALSE
  <2>1. FiniteSubsetsOf(S) = SUBSET S
    BY FS_FiniteSubsetsOfFinite
  <2>2. IsWellFoundedOn(StrictSubsetOrdering(S), SUBSET S)
    BY <2>1, FS_StrictSubsetOrderingWellFounded
  <2>3. PICK s \in differ : \A t \in differ : <<t, s>> \notin StrictSubsetOrdering(S)
    <3>1. differ \subseteq SUBSET S
      OBVIOUS
    <3>. HIDE DEF differ
    <3>. QED
      BY <1>3, <2>2, <3>1, WFMin
  <2>4. s \in SUBSET S /\ h[s] = Step(f, h, s) /\ g[s] = Step(f, g, s)
    BY <1>1, <1>2
  <2>5. s # {}
    BY <2>4 DEF Step
  <2>. DEFINE x == CHOOSE x \in s : TRUE
  <2>6. x \in s
    BY <2>5, CanPick
  <2>7. h[s] = f[x] + h[s \ {x}] /\ g[s] = f[x] + g[s \ {x}]
    BY <2>4, <2>5 DEF Step
  <2>. HIDE DEF x, g
  <2>8. <<s \ {x}, s>> \in StrictSubsetOrdering(S)
    BY <2>4, <2>6 DEF StrictSubsetOrdering
  <2>9. h[s \ {x}] = g[s \ {x}]
    BY <2>3, <2>4, <2>8
  <2>. QED
    BY <2>7, <2>9
<1>4. h[S] = g[S]
  <2>. HIDE DEF g
  <2>. QED
    BY <1>3
<1>. QED
  BY <1>4, SumIsIter DEF h

-------------------------------------------------------------------------------
(* The facts that proofs about sums use. *)

\* A sum of natural numbers is one; of no numbers it is 0.
LEMMA SumNat ==
    ASSUME NEW S, IsFiniteSet(S), NEW f, \A x \in S : f[x] \in Nat
    PROVE  SumFunctionOnSet(f, S) \in Nat
BY SumIsCardinality, UnitsOf, FS_CardinalityType

LEMMA SumOfNothing == \A f : SumFunctionOnSet(f, {}) = 0
BY SumIsCardinality, UnitsOf, FS_EmptySet

\* A sum is the number of one element and the sum of the others.
LEMMA SumSplits ==
    ASSUME NEW S, IsFiniteSet(S), NEW f, \A x \in S : f[x] \in Nat, NEW x \in S
    PROVE  SumFunctionOnSet(f, S) = f[x] + SumFunctionOnSet(f, S \ {x})
<1>1. IsFiniteSet(S \ {x})
  BY FS_RemoveElement
<1>. QED
  BY <1>1, SumIsCardinality, UnitsOf

\* Functions that agree on the set have the same sum.
LEMMA SumSame ==
    ASSUME NEW S, IsFiniteSet(S), NEW f, NEW g,
           \A x \in S : f[x] \in Nat /\ g[x] = f[x]
    PROVE  SumFunctionOnSet(g, S) = SumFunctionOnSet(f, S)
<1>1. Units(g, S) = Units(f, S)
  BY DEF Units
<1>. QED
  BY <1>1, SumIsCardinality

\* Two sets that agree but for x, and functions that agree but for x: the sums
\* differ by what x adds to each.
LEMMA SumsDiffer ==
    ASSUME NEW S, IsFiniteSet(S), NEW T, NEW x, S \ {x} = T \ {x},
           NEW f, \A y \in S : f[y] \in Nat,
           NEW g, \A y \in T : g[y] \in Nat,
           \A y \in S \ {x} : g[y] = f[y]
    PROVE  SumFunctionOnSet(g, T) + (IF x \in S THEN f[x] ELSE 0)
             = SumFunctionOnSet(f, S) + (IF x \in T THEN g[x] ELSE 0)
<1>1. IsFiniteSet(S \ {x})
  BY FS_RemoveElement
<1>2. IsFiniteSet(T)
  <2>1. T = S \ {x} \/ T = (S \ {x}) \cup {x}
    OBVIOUS
  <2>2. IsFiniteSet((S \ {x}) \cup {x})
    BY <1>1, FS_AddElement
  <2>. QED
    BY <1>1, <2>1, <2>2
<1>3. /\ SumFunctionOnSet(g, S \ {x}) = SumFunctionOnSet(f, S \ {x})
      /\ SumFunctionOnSet(f, S \ {x}) \in Nat
  BY <1>1, SumSame, SumNat
<1>4. SumFunctionOnSet(f, S)
        = SumFunctionOnSet(f, S \ {x}) + (IF x \in S THEN f[x] ELSE 0)
  <2>1. CASE x \in S
    BY <1>3, <2>1, SumSplits
  <2>2. CASE x \notin S
    <3>1. S \ {x} = S
      BY <2>2
    <3>. QED
      BY <1>3, <2>2, <3>1
  <2>. QED
    BY <2>1, <2>2
<1>5. SumFunctionOnSet(g, T)
        = SumFunctionOnSet(g, S \ {x}) + (IF x \in T THEN g[x] ELSE 0)
  <2>1. CASE x \in T
    BY <1>2, <1>3, <2>1, SumSplits
  <2>2. CASE x \notin T
    <3>1. T \ {x} = T
      BY <2>2
    <3>. QED
      BY <1>3, <2>2, <3>1
  <2>. QED
    BY <2>1, <2>2
<1>6. (x \in S => f[x] \in Nat) /\ (x \in T => g[x] \in Nat)
  OBVIOUS
<1>. QED
  BY <1>3, <1>4, <1>5, <1>6

\* Numbers that are no larger have a sum that is no larger.
LEMMA SumMonotone ==
    ASSUME NEW S, IsFiniteSet(S), NEW f, NEW g,
           \A x \in S : f[x] \in Nat /\ g[x] \in Nat /\ f[x] <= g[x]
    PROVE  SumFunctionOnSet(f, S) <= SumFunctionOnSet(g, S)
<1>1. Units(f, S) \subseteq Units(g, S)
  BY DEF Units
<1>2. IsFiniteSet(Units(g, S))
  BY UnitsOf
<1>3. Cardinality(Units(f, S)) <= Cardinality(Units(g, S))
  BY <1>1, <1>2, FS_Subset
<1>. QED
  BY <1>3, SumIsCardinality

\* A sum of zeros is 0.
LEMMA SumOfZeros ==
    ASSUME NEW S, IsFiniteSet(S), NEW f, \A x \in S : f[x] = 0
    PROVE  SumFunctionOnSet(f, S) = 0
<1>1. Units(f, S) = {}
  BY DEF Units
<1>. QED
  BY <1>1, SumIsCardinality, FS_EmptySet

-------------------------------------------------------------------------------
(* Counting. *)

\* Two finite sets that agree but for x have cardinalities that do.
LEMMA CountsDiffer ==
    ASSUME NEW S, IsFiniteSet(S), NEW T, NEW x, S \ {x} = T \ {x}
    PROVE  /\ Cardinality(S) \in Nat /\ Cardinality(T) \in Nat
           /\ Cardinality(T) + (IF x \in S THEN 1 ELSE 0)
                = Cardinality(S) + (IF x \in T THEN 1 ELSE 0)
<1>1. IsFiniteSet(S \ {x}) /\ Cardinality(S \ {x}) \in Nat
  BY FS_RemoveElement, FS_CardinalityType
<1>2. \A U : U = U \ {x} \/ U = (U \ {x}) \cup {x}
  OBVIOUS
<1>3. Cardinality(S) = Cardinality(S \ {x}) + (IF x \in S THEN 1 ELSE 0)
  <2>1. CASE x \in S
    BY <1>1, <2>1, FS_RemoveElement, FS_CardinalityType
  <2>2. CASE x \notin S
    BY <1>1, <1>2, <2>2
  <2>. QED
    BY <2>1, <2>2
<1>4. Cardinality(T) = Cardinality(S \ {x}) + (IF x \in T THEN 1 ELSE 0)
  <2>1. CASE x \in T
    <3>1. T = (S \ {x}) \cup {x}
      BY <1>2, <2>1
    <3>. QED
      BY <1>1, <2>1, <3>1, FS_AddElement
  <2>2. CASE x \notin T
    <3>1. T = S \ {x}
      BY <2>2
    <3>. QED
      BY <1>1, <2>2, <3>1
  <2>. QED
    BY <2>1, <2>2
<1>. QED
  BY <1>1, <1>3, <1>4
===============================================================================
