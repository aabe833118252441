----------------------------- MODULE FiniteSums -----------------------------
(***************************************************************************)
(* Induction over the naturals, and facts about SumFunctionOnSet(f, S),    *)
(* the sum of f[x] over the elements x of a finite set S, from which the   *)
(* proofs about totals, budgets and voting weights follow.  The library    *)
(* defines the sum as a recursive function that takes an element away at a *)
(* time; induction over the subsets of S is by a minimal counterexample,   *)
(* which needs no operator as a parameter.                                 *)
(***************************************************************************)
EXTENDS Functions, FiniteSetTheorems, TLAPS

-----------------------------------------------------------------------------
(* Natural numbers *)

\* Induction over the naturals, for a set of them.
LEMMA NaturalInduction ==
    ASSUME NEW G, 0 \in G, \A n \in Nat : n \in G => n + 1 \in G
    PROVE  \A n \in Nat : n \in G
<1> DEFINE B == {n \in Nat : n \notin G}
<1> SUFFICES ASSUME B # {} PROVE FALSE
  OBVIOUS
<1>1. PICK n \in B : \A m \in B : ~(<<m, n>> \in OpToRel(<, Nat))
  <2>1. B \subseteq Nat
    OBVIOUS
  <2> HIDE DEF B, OpToRel
  <2> QED BY <2>1, NatLessThanWellFounded, WFMin
<1>2. n # 0 /\ n - 1 \in Nat /\ n - 1 < n
  OBVIOUS
<1>3. n - 1 \notin B
  BY <1>1, <1>2 DEF OpToRel
<1>4. n - 1 \in G
  BY <1>2, <1>3
<1>5. (n - 1) + 1 \in G
  BY <1>2, <1>4
<1> QED BY <1>2, <1>5

-----------------------------------------------------------------------------
(* Sums *)

\* The element the library takes away first.
Pick(s) == CHOOSE x \in s : TRUE

\* g is a solution of the recursion that defines the sum: g[s] is the sum over s.
IsPartialSums(f, g, S) ==
    g = [s \in SUBSET S |-> IF s = {} THEN 0 ELSE f[Pick(s)] + g[s \ {Pick(s)}]]

\* Every nonempty family of subsets of a finite set has a minimal member.
LEMMA MinimalSubset ==
    ASSUME NEW S, IsFiniteSet(S), NEW B, B \subseteq SUBSET S, B # {}
    PROVE  \E T \in B : \A U \in B : U \subseteq T => U = T
<1>1. IsWellFoundedOn(StrictSubsetOrdering(S), FiniteSubsetsOf(S))
  BY FS_StrictSubsetOrderingWellFounded
<1>2. B \subseteq FiniteSubsetsOf(S)
  BY FS_FiniteSubsetsOfFinite
<1>3. PICK T \in B : \A U \in B : <<U, T>> \notin StrictSubsetOrdering(S)
  BY <1>1, <1>2, WFMin, Zenon
<1> QED BY <1>3 DEF StrictSubsetOrdering

\* What is taken away is an element.
LEMMA PickInSet == ASSUME NEW S, S # {} PROVE Pick(S) \in S
BY DEF Pick

\* The library's definition, unfolded.
LEMMA SumIsChosen ==
    ASSUME NEW f, NEW S
    PROVE  SumFunctionOnSet(f, S) = (CHOOSE g : IsPartialSums(f, g, S))[S]
BY Zenon DEF SumFunctionOnSet, FoldFunctionOnSet, MapThenFoldSet, IsPartialSums, Pick

\* A solution read at one subset.
LEMMA PartialSumsAt ==
    ASSUME NEW f, NEW g, NEW S, IsPartialSums(f, g, S), NEW s \in SUBSET S
    PROVE  g[s] = IF s = {} THEN 0 ELSE f[Pick(s)] + g[s \ {Pick(s)}]
BY Zenon DEF IsPartialSums

\* The recursion has at most one solution.
LEMMA PartialSumsUnique ==
    ASSUME NEW f, NEW S, IsFiniteSet(S), NEW g, NEW h,
           IsPartialSums(f, g, S), IsPartialSums(f, h, S)
    PROVE  g = h
<1> DEFINE B == {s \in SUBSET S : g[s] # h[s]}
<1>1. B = {}
  <2> SUFFICES ASSUME B # {} PROVE FALSE
    OBVIOUS
  <2>1. PICK s \in B : \A U \in B : U \subseteq s => U = s
    <3>1. B \subseteq SUBSET S
      OBVIOUS
    <3> HIDE DEF B
    <3> QED BY <3>1, MinimalSubset
  <2>2. /\ g[s] = IF s = {} THEN 0 ELSE f[Pick(s)] + g[s \ {Pick(s)}]
        /\ h[s] = IF s = {} THEN 0 ELSE f[Pick(s)] + h[s \ {Pick(s)}]
    <3>1. s \in SUBSET S
      OBVIOUS
    <3> QED BY <3>1, PartialSumsAt
  <2>3. s # {}
    BY <2>2
  <2>4. s \ {Pick(s)} \notin B
    BY <2>1, <2>3, PickInSet
  <2>5. g[s \ {Pick(s)}] = h[s \ {Pick(s)}]
    BY <2>4
  <2> QED BY <2>2, <2>5
<1>2. /\ g = [s \in SUBSET S |-> g[s]]
      /\ h = [s \in SUBSET S |-> h[s]]
  BY Zenon DEF IsPartialSums
<1>3. [s \in SUBSET S |-> g[s]] = [s \in SUBSET S |-> h[s]]
  BY <1>1
<1> QED BY <1>2, <1>3, Zenon

\* A solution for a set solves the recursion for its subsets.
LEMMA PartialSumsRestrict ==
    ASSUME NEW f, NEW S, NEW g, IsPartialSums(f, g, S), NEW T \in SUBSET S
    PROVE  IsPartialSums(f, [s \in SUBSET T |-> g[s]], T)
<1> DEFINE h == [s \in SUBSET T |-> g[s]]
<1>1. \A s \in SUBSET T : h[s] = g[s]
  OBVIOUS
<1>2. ASSUME NEW s \in SUBSET T
      PROVE  h[s] = IF s = {} THEN 0 ELSE f[Pick(s)] + h[s \ {Pick(s)}]
  <2>1. g[s] = IF s = {} THEN 0 ELSE f[Pick(s)] + g[s \ {Pick(s)}]
    BY PartialSumsAt
  <2>2. s \ {Pick(s)} \in SUBSET T
    OBVIOUS
  <2> HIDE DEF h
  <2> QED BY <1>1, <2>1, <2>2
<1>3. h = [s \in SUBSET T |-> h[s]]
  OBVIOUS
<1> HIDE DEF h
<1>4. h = [s \in SUBSET T |-> IF s = {} THEN 0 ELSE f[Pick(s)] + h[s \ {Pick(s)}]]
  BY <1>2, <1>3, Zenon
<1> QED BY <1>4 DEF IsPartialSums, h

\* The values of a solution are sums.
LEMMA PartialSumIsSum ==
    ASSUME NEW f, NEW S, IsFiniteSet(S), NEW g, IsPartialSums(f, g, S),
           NEW T \in SUBSET S
    PROVE  g[T] = SumFunctionOnSet(f, T)
<1> DEFINE h == [s \in SUBSET T |-> g[s]]
<1>1. IsPartialSums(f, h, T)
  BY PartialSumsRestrict
<1>2. h[T] = g[T]
  OBVIOUS
<1> HIDE DEF h
<1> DEFINE c == CHOOSE k : IsPartialSums(f, k, T)
<1>3. IsPartialSums(f, c, T)
  BY <1>1, Zenon
<1>4. SumFunctionOnSet(f, T) = c[T]
  BY SumIsChosen, Zenon
<1> HIDE DEF c
<1>5. IsFiniteSet(T)
  BY FS_Subset
<1>6. c = h
  BY <1>1, <1>3, <1>5, PartialSumsUnique, Zenon
<1> QED BY <1>2, <1>4, <1>6

\* The recursion has a solution.
LEMMA PartialSumsExist ==
    ASSUME NEW f, NEW S, IsFiniteSet(S)
    PROVE  \E g : IsPartialSums(f, g, S)
<1> DEFINE B == {T \in SUBSET S : ~ \E g : IsPartialSums(f, g, T)}
<1> SUFFICES B = {}
  BY Zenon
<1> SUFFICES ASSUME B # {} PROVE FALSE
  OBVIOUS
<1>1. PICK T \in B : \A U \in B : U \subseteq T => U = T
  <2>1. B \subseteq SUBSET S
    OBVIOUS
  <2> HIDE DEF B
  <2> QED BY <2>1, MinimalSubset
<1>2. ASSUME NEW U \in SUBSET T, U # T
      PROVE  \E g : IsPartialSums(f, g, U)
  BY <1>1, <1>2, Zenon
<1> DEFINE Total(s) == SumFunctionOnSet(f, s)
           h == [s \in SUBSET T |-> IF s = {} THEN 0 ELSE f[Pick(s)] + Total(s \ {Pick(s)})]
<1>3. ASSUME NEW U \in SUBSET T, U # T
      PROVE  h[U] = Total(U)
  <2>1. PICK g : IsPartialSums(f, g, U)
    BY <1>2, <1>3
  <2>2. IsFiniteSet(U)
    BY FS_Subset
  <2>3. g[U] = Total(U)
    <3>1. U \in SUBSET U
      OBVIOUS
    <3> QED BY <2>1, <2>2, <3>1, PartialSumIsSum
  <2>4. g[U] = IF U = {} THEN 0 ELSE f[Pick(U)] + g[U \ {Pick(U)}]
    BY <2>1, PartialSumsAt
  <2>5. g[U \ {Pick(U)}] = Total(U \ {Pick(U)})
    <3>1. U \ {Pick(U)} \in SUBSET U
      OBVIOUS
    <3> QED BY <2>1, <2>2, <3>1, PartialSumIsSum
  <2>6. h[U] = IF U = {} THEN 0 ELSE f[Pick(U)] + Total(U \ {Pick(U)})
    BY Zenon
  <2> HIDE DEF h, Total
  <2> QED BY <2>3, <2>4, <2>5, <2>6
<1>4. ASSUME NEW s \in SUBSET T
      PROVE  h[s] = IF s = {} THEN 0 ELSE f[Pick(s)] + h[s \ {Pick(s)}]
  <2>1. h[s] = IF s = {} THEN 0 ELSE f[Pick(s)] + Total(s \ {Pick(s)})
    BY Zenon
  <2>2. CASE s = {}
    BY <2>1, <2>2
  <2>3. CASE s # {}
    <3>1. s \ {Pick(s)} \in SUBSET T /\ s \ {Pick(s)} # T
      BY <2>3, PickInSet
    <3>2. h[s \ {Pick(s)}] = Total(s \ {Pick(s)})
      BY <3>1, <1>3
    <3> HIDE DEF h, Total
    <3> QED BY <2>1, <2>3, <3>2
  <2> QED BY <2>2, <2>3
<1>5. h = [s \in SUBSET T |-> h[s]]
  BY Zenon
<1> HIDE DEF h
<1>6. h = [s \in SUBSET T |-> IF s = {} THEN 0 ELSE f[Pick(s)] + h[s \ {Pick(s)}]]
  BY <1>4, <1>5, Zenon
<1>7. IsPartialSums(f, h, T)
  BY <1>6, Zenon DEF IsPartialSums
<1> QED BY <1>1, <1>7, Zenon

-----------------------------------------------------------------------------
(* Sums *)

\* Nothing adds up to nothing.
LEMMA SumEmpty == ASSUME NEW f PROVE SumFunctionOnSet(f, {}) = 0
<1>1. IsFiniteSet({})
  BY FS_EmptySet
<1>2. PICK g : IsPartialSums(f, g, {})
  BY <1>1, PartialSumsExist
<1>3. g[{}] = SumFunctionOnSet(f, {})
  BY <1>1, <1>2, PartialSumIsSum
<1> QED BY <1>2, <1>3, PartialSumsAt

\* One step of the recursion.
LEMMA SumPick ==
    ASSUME NEW f, NEW S, IsFiniteSet(S), S # {}
    PROVE  SumFunctionOnSet(f, S) = f[Pick(S)] + SumFunctionOnSet(f, S \ {Pick(S)})
<1>1. PICK g : IsPartialSums(f, g, S)
  BY PartialSumsExist
<1>2. S \in SUBSET S /\ S \ {Pick(S)} \in SUBSET S
  OBVIOUS
<1>3. g[S] = SumFunctionOnSet(f, S)
  BY <1>1, <1>2, PartialSumIsSum
<1>4. g[S \ {Pick(S)}] = SumFunctionOnSet(f, S \ {Pick(S)})
  BY ZenonT(40), <1>1, <1>2, PartialSumIsSum
<1> QED BY <1>1, <1>2, <1>3, <1>4, PartialSumsAt

\* A collection that holds the empty set, and with T less its first element also
\* T, holds S.
LEMMA SubsetInduction ==
    ASSUME NEW S, IsFiniteSet(S), NEW G, {} \in G,
           \A T \in SUBSET S : T # {} /\ T \ {Pick(T)} \in G => T \in G
    PROVE  S \in G
<1> DEFINE B == {T \in SUBSET S : T \notin G}
<1> SUFFICES ASSUME B # {} PROVE FALSE
  OBVIOUS
<1>1. PICK T \in B : \A U \in B : U \subseteq T => U = T
  <2>1. B \subseteq SUBSET S
    OBVIOUS
  <2> HIDE DEF B
  <2> QED BY <2>1, MinimalSubset
<1>2. T # {}
  OBVIOUS
<1>3. T \ {Pick(T)} \notin B
  BY <1>1, <1>2, PickInSet
<1> QED BY <1>2, <1>3

\* A sum of integers is an integer.
LEMMA SumInt ==
    ASSUME NEW S, IsFiniteSet(S), NEW f, \A x \in S : f[x] \in Int
    PROVE  SumFunctionOnSet(f, S) \in Int
<1> DEFINE G == {T \in SUBSET S : SumFunctionOnSet(f, T) \in Int}
<1>1. {} \in G
  BY SumEmpty
<1>2. ASSUME NEW T \in SUBSET S, T # {}, T \ {Pick(T)} \in G
      PROVE  T \in G
  <2>1. IsFiniteSet(T)
    BY FS_Subset
  <2>2. SumFunctionOnSet(f, T) = f[Pick(T)] + SumFunctionOnSet(f, T \ {Pick(T)})
    BY <1>2, <2>1, SumPick
  <2>3. f[Pick(T)] \in Int
    BY <1>2, PickInSet
  <2> QED BY <1>2, <2>2, <2>3
<1> HIDE DEF G
<1>3. S \in G
  BY <1>1, <1>2, SubsetInduction
<1> QED BY <1>3 DEF G

\* The sum depends on the values over the set alone.
LEMMA SumCong ==
    ASSUME NEW S, IsFiniteSet(S), NEW f, NEW g, \A x \in S : f[x] = g[x]
    PROVE  SumFunctionOnSet(f, S) = SumFunctionOnSet(g, S)
<1> DEFINE G == {T \in SUBSET S : SumFunctionOnSet(f, T) = SumFunctionOnSet(g, T)}
<1>1. {} \in G
  BY SumEmpty
<1>2. ASSUME NEW T \in SUBSET S, T # {}, T \ {Pick(T)} \in G
      PROVE  T \in G
  <2>1. IsFiniteSet(T)
    BY FS_Subset
  <2> QED BY <1>2, <2>1, SumPick, PickInSet
<1> HIDE DEF G
<1>3. S \in G
  BY <1>1, <1>2, SubsetInduction
<1> QED BY <1>3 DEF G

\* The sum is linear.
LEMMA SumLinear ==
    ASSUME NEW S, IsFiniteSet(S), NEW c \in Int, NEW f, NEW g, NEW h,
           \A x \in S : f[x] \in Int /\ g[x] \in Int /\ h[x] = c * f[x] + g[x]
    PROVE  SumFunctionOnSet(h, S) = c * SumFunctionOnSet(f, S) + SumFunctionOnSet(g, S)
<1> DEFINE Linear(T) ==
        SumFunctionOnSet(h, T) = c * SumFunctionOnSet(f, T) + SumFunctionOnSet(g, T)
           G == {T \in SUBSET S : Linear(T)}
<1>1. {} \in G
  BY SumEmpty
<1>2. ASSUME NEW T \in SUBSET S, T # {}, T \ {Pick(T)} \in G
      PROVE  T \in G
  <2> DEFINE p == Pick(T)
             V == T \ {p}
  <2>1. IsFiniteSet(T) /\ IsFiniteSet(V) /\ p \in S
    BY <1>2, FS_Subset, PickInSet
  <2>2. /\ SumFunctionOnSet(f, T) = f[p] + SumFunctionOnSet(f, V)
        /\ SumFunctionOnSet(g, T) = g[p] + SumFunctionOnSet(g, V)
        /\ SumFunctionOnSet(h, T) = h[p] + SumFunctionOnSet(h, V)
    BY <1>2, <2>1, SumPick
  <2>3. SumFunctionOnSet(f, V) \in Int /\ SumFunctionOnSet(g, V) \in Int
    BY <2>1, SumInt
  <2>4. f[p] \in Int /\ g[p] \in Int /\ h[p] = c * f[p] + g[p]
    BY <2>1
  <2>5. Linear(V)
    BY <1>2
  <2> DEFINE fv == SumFunctionOnSet(f, V)
             gv == SumFunctionOnSet(g, V)
  <2>6. SumFunctionOnSet(h, V) = c * fv + gv
    BY <2>5
  <2> HIDE DEF p, V, fv, gv
  <2>7. SumFunctionOnSet(h, T) = c * (f[p] + fv) + (g[p] + gv)
    BY <2>2, <2>3, <2>4, <2>6 DEF fv, gv
  <2> QED BY <2>2, <2>7 DEF fv, gv
<1> HIDE DEF G
<1>3. S \in G
  BY <1>1, <1>2, SubsetInduction
<1> QED BY <1>3 DEF G

\* A sum of ones counts.
LEMMA SumCount ==
    ASSUME NEW S, IsFiniteSet(S), NEW U, NEW f,
           \A x \in S : f[x] = IF x \in U THEN 1 ELSE 0
    PROVE  SumFunctionOnSet(f, S) = Cardinality(S \cap U)
<1> DEFINE G == {T \in SUBSET S : SumFunctionOnSet(f, T) = Cardinality(T \cap U)}
<1>1. {} \in G
  <2>1. {} \cap U = {}
    OBVIOUS
  <2> QED BY <2>1, SumEmpty, FS_EmptySet
<1>2. ASSUME NEW T \in SUBSET S, T # {}, T \ {Pick(T)} \in G
      PROVE  T \in G
  <2> DEFINE p == Pick(T)
             V == T \ {p}
  <2>1. IsFiniteSet(T) /\ IsFiniteSet(V \cap U) /\ p \in T
    BY <1>2, FS_Subset, PickInSet
  <2>2. SumFunctionOnSet(f, T) = f[p] + Cardinality(V \cap U)
    BY <1>2, <2>1, SumPick
  <2>3. Cardinality(V \cap U) \in Nat
    BY <2>1, FS_CardinalityType
  <2> HIDE DEF p
  <2>4. CASE p \in U
    <3>1. T \cap U = (V \cap U) \cup {p} /\ p \notin V \cap U
      BY <2>1, <2>4
    <3>2. Cardinality(T \cap U) = Cardinality(V \cap U) + 1
      BY <2>1, <3>1, FS_AddElement
    <3>3. f[p] = 1
      BY <2>1, <2>4
    <3> QED BY <2>2, <2>3, <3>2, <3>3
  <2>5. CASE p \notin U
    <3>1. T \cap U = V \cap U
      BY <2>5
    <3>2. f[p] = 0
      BY <2>1, <2>5
    <3>3. Cardinality(T \cap U) = Cardinality(V \cap U)
      BY <3>1
    <3>4. SumFunctionOnSet(f, T) = Cardinality(T \cap U)
      BY <2>2, <2>3, <3>2, <3>3
    <3> QED BY <3>4
  <2> QED BY <2>4, <2>5
<1> HIDE DEF G
<1>3. S \in G
  BY <1>1, <1>2, SubsetInduction
<1> QED BY <1>3 DEF G

\* Larger terms, larger sum.
LEMMA SumMonotone ==
    ASSUME NEW S, IsFiniteSet(S), NEW f, NEW g,
           \A x \in S : f[x] \in Int /\ g[x] \in Int /\ f[x] <= g[x]
    PROVE  SumFunctionOnSet(f, S) <= SumFunctionOnSet(g, S)
<1> DEFINE G == {T \in SUBSET S : SumFunctionOnSet(f, T) <= SumFunctionOnSet(g, T)}
<1>1. {} \in G
  BY SumEmpty
<1>2. ASSUME NEW T \in SUBSET S, T # {}, T \ {Pick(T)} \in G
      PROVE  T \in G
  <2>1. IsFiniteSet(T) /\ IsFiniteSet(T \ {Pick(T)})
    BY FS_Subset
  <2>2. Pick(T) \in S
    BY <1>2, PickInSet
  <2>3. /\ SumFunctionOnSet(f, T) = f[Pick(T)] + SumFunctionOnSet(f, T \ {Pick(T)})
        /\ SumFunctionOnSet(g, T) = g[Pick(T)] + SumFunctionOnSet(g, T \ {Pick(T)})
    BY <1>2, <2>1, SumPick
  <2>4. /\ SumFunctionOnSet(f, T \ {Pick(T)}) \in Int
        /\ SumFunctionOnSet(g, T \ {Pick(T)}) \in Int
    BY <2>1, SumInt
  <2> QED BY <1>2, <2>2, <2>3, <2>4
<1> HIDE DEF G
<1>3. S \in G
  BY <1>1, <1>2, SubsetInduction
<1> QED BY <1>3 DEF G

\* Any element can be taken away first.
LEMMA SumRemove ==
    ASSUME NEW S, IsFiniteSet(S), NEW f, \A x \in S : f[x] \in Int, NEW y \in S
    PROVE  SumFunctionOnSet(f, S) = f[y] + SumFunctionOnSet(f, S \ {y})
<1> DEFINE Sum(T) == SumFunctionOnSet(f, T)
           G == {T \in SUBSET S : \A x \in T : Sum(T) = f[x] + Sum(T \ {x})}
<1>0. \A T \in SUBSET S : Sum(T) \in Int
  <2> SUFFICES ASSUME NEW T \in SUBSET S PROVE Sum(T) \in Int
    OBVIOUS
  <2> QED BY FS_Subset, SumInt
<1>1. {} \in G
  OBVIOUS
<1>2. \A T \in SUBSET S : T # {} => Sum(T) = f[Pick(T)] + Sum(T \ {Pick(T)})
  <2> SUFFICES ASSUME NEW T \in SUBSET S, T # {}
               PROVE  Sum(T) = f[Pick(T)] + Sum(T \ {Pick(T)})
    OBVIOUS
  <2> QED BY FS_Subset, SumPick
<1> DEFINE B == {T \in SUBSET S : T \notin G}
<1> SUFFICES B = {}
  OBVIOUS
<1> SUFFICES ASSUME B # {} PROVE FALSE
  OBVIOUS
<1>3. PICK T \in B : \A U \in B : U \subseteq T => U = T
  <2>1. B \subseteq SUBSET S
    OBVIOUS
  <2> HIDE DEF B
  <2> QED BY <2>1, MinimalSubset
<1>4. PICK x \in T : Sum(T) # f[x] + Sum(T \ {x})
  OBVIOUS
<1> DEFINE p == Pick(T)
<1>5. p \in T /\ p # x
  BY <1>2, <1>4, PickInSet
<1>6. Sum(T) = f[p] + Sum(T \ {p})
  BY <1>2, <1>4
<1> HIDE DEF p
<1>7. T \ {p} \in G /\ T \ {x} \in G
  BY <1>3, <1>4, <1>5
<1>8. /\ Sum(T \ {p}) = f[x] + Sum((T \ {p}) \ {x})
      /\ Sum(T \ {x}) = f[p] + Sum((T \ {x}) \ {p})
  BY <1>5, <1>7
<1>9. (T \ {p}) \ {x} = (T \ {x}) \ {p}
  OBVIOUS
<1>10. /\ f[x] \in Int /\ f[p] \in Int
       /\ Sum((T \ {p}) \ {x}) \in Int
  BY <1>0, <1>5
<1> HIDE DEF Sum
<1> DEFINE rest == Sum((T \ {p}) \ {x})
<1>11. /\ Sum(T \ {p}) = f[x] + rest
       /\ Sum(T \ {x}) = f[p] + rest
       /\ rest \in Int
  BY <1>8, <1>9, <1>10, Zenon
<1> HIDE DEF rest
<1>12. Sum(T) = f[p] + (f[x] + rest) /\ f[x] + Sum(T \ {x}) = f[x] + (f[p] + rest)
  BY <1>6, <1>11, Zenon
<1>13. f[p] + (f[x] + rest) = f[x] + (f[p] + rest)
  BY <1>10, <1>11
<1> QED BY <1>4, <1>12, <1>13, Zenon

\* Adding an element.
LEMMA SumInsert ==
    ASSUME NEW S, IsFiniteSet(S), NEW y, y \notin S, NEW f,
           \A x \in S \cup {y} : f[x] \in Int
    PROVE  SumFunctionOnSet(f, S \cup {y}) = f[y] + SumFunctionOnSet(f, S)
<1>1. IsFiniteSet(S \cup {y})
  BY FS_AddElement
<1>2. (S \cup {y}) \ {y} = S
  OBVIOUS
<1> QED BY <1>1, <1>2, SumRemove

\* The terms in a part and outside of it add up to all.
LEMMA SumSplit ==
    ASSUME NEW S, IsFiniteSet(S), NEW T, NEW f, \A x \in S : f[x] \in Int
    PROVE  SumFunctionOnSet(f, S) = SumFunctionOnSet(f, S \cap T) + SumFunctionOnSet(f, S \ T)
<1> DEFINE Sum(U) == SumFunctionOnSet(f, U)
           G == {U \in SUBSET S : Sum(U) = Sum(U \cap T) + Sum(U \ T)}
<1>1. {} \in G
  <2>1. {} \cap T = {} /\ {} \ T = {}
    OBVIOUS
  <2> QED BY <2>1, SumEmpty
<1>2. ASSUME NEW U \in SUBSET S, U # {}, U \ {Pick(U)} \in G
      PROVE  U \in G
  <2> DEFINE p == Pick(U)
             V == U \ {p}
  <2>1. p \in U /\ p \in S /\ f[p] \in Int
    BY <1>2, PickInSet
  <2>2. IsFiniteSet(U) /\ IsFiniteSet(V \cap T) /\ IsFiniteSet(V \ T)
    BY FS_Subset
  <2>3. Sum(U) = f[p] + Sum(V)
    BY <1>2, <2>2, SumPick
  <2>4. Sum(V) = Sum(V \cap T) + Sum(V \ T)
    BY <1>2
  <2>5. Sum(V \cap T) \in Int /\ Sum(V \ T) \in Int
    BY <2>2, SumInt
  <2> HIDE DEF p
  <2>6. CASE p \in T
    <3>1. U \cap T = (V \cap T) \cup {p} /\ p \notin V \cap T /\ U \ T = V \ T
      BY <2>1, <2>6
    <3>2. Sum(U \cap T) = f[p] + Sum(V \cap T)
      <4>1. \A x \in (V \cap T) \cup {p} : f[x] \in Int
        BY <2>1
      <4>2. Sum((V \cap T) \cup {p}) = f[p] + Sum(V \cap T)
        BY <2>2, <3>1, <4>1, SumInsert
      <4> QED BY <3>1, <4>2
    <3>3. Sum(U \ T) = Sum(V \ T)
      BY <3>1
    <3> HIDE DEF V, Sum
    <3>4. Sum(U) = Sum(U \cap T) + Sum(U \ T)
      BY <2>1, <2>3, <2>4, <2>5, <3>2, <3>3
    <3> QED BY <3>4
  <2>7. CASE p \notin T
    <3>1. U \ T = (V \ T) \cup {p} /\ p \notin V \ T /\ U \cap T = V \cap T
      BY <2>1, <2>7
    <3>2. Sum(U \ T) = f[p] + Sum(V \ T)
      <4>1. \A x \in (V \ T) \cup {p} : f[x] \in Int
        BY <2>1
      <4>2. Sum((V \ T) \cup {p}) = f[p] + Sum(V \ T)
        BY <2>2, <3>1, <4>1, SumInsert
      <4> QED BY <3>1, <4>2
    <3>3. Sum(U \cap T) = Sum(V \cap T)
      BY <3>1
    <3> HIDE DEF V, Sum
    <3>4. Sum(U) = Sum(U \cap T) + Sum(U \ T)
      BY <2>1, <2>3, <2>4, <2>5, <3>2, <3>3
    <3> QED BY <3>4
  <2> QED BY <2>6, <2>7
<1> HIDE DEF G
<1>3. S \in G
  BY <1>1, <1>2, SubsetInduction
<1> QED BY <1>3 DEF G

\* A sum of natural numbers is one.
LEMMA SumNat ==
    ASSUME NEW S, IsFiniteSet(S), NEW f, \A x \in S : f[x] \in Nat
    PROVE  SumFunctionOnSet(f, S) \in Nat
<1> DEFINE G == {T \in SUBSET S : SumFunctionOnSet(f, T) \in Nat}
<1>1. {} \in G
  BY SumEmpty
<1>2. ASSUME NEW T \in SUBSET S, T # {}, T \ {Pick(T)} \in G
      PROVE  T \in G
  <2>1. IsFiniteSet(T)
    BY FS_Subset
  <2> QED BY <1>2, <2>1, SumPick, PickInSet
<1> HIDE DEF G
<1>3. S \in G
  BY <1>1, <1>2, SubsetInduction
<1> QED BY <1>3 DEF G

\* Two functions that differ at one element.
LEMMA SumUpdate ==
    ASSUME NEW S, IsFiniteSet(S), NEW y \in S, NEW f, NEW g,
           \A x \in S : f[x] \in Int /\ g[x] \in Int,
           \A x \in S \ {y} : g[x] = f[x]
    PROVE  SumFunctionOnSet(g, S) = SumFunctionOnSet(f, S) - f[y] + g[y]
<1>1. IsFiniteSet(S \ {y})
  BY FS_RemoveElement
<1>2. SumFunctionOnSet(f, S \ {y}) = SumFunctionOnSet(g, S \ {y})
  BY <1>1, SumCong
<1>3. /\ SumFunctionOnSet(f, S) = f[y] + SumFunctionOnSet(f, S \ {y})
      /\ SumFunctionOnSet(g, S) = g[y] + SumFunctionOnSet(g, S \ {y})
  BY SumRemove
<1>4. SumFunctionOnSet(f, S \ {y}) \in Int
  BY <1>1, SumInt
<1> QED BY <1>2, <1>3, <1>4

\* A part of the terms sums to no more than all of them.
LEMMA SumSubset ==
    ASSUME NEW S, IsFiniteSet(S), NEW T \in SUBSET S, NEW f,
           \A x \in S : f[x] \in Nat
    PROVE  SumFunctionOnSet(f, T) <= SumFunctionOnSet(f, S)
<1> DEFINE G == {U \in SUBSET S : SumFunctionOnSet(f, U \cap T) <= SumFunctionOnSet(f, U)}
<1>1. {} \in G
  <2>1. {} \cap T = {}
    OBVIOUS
  <2> QED BY <2>1, SumEmpty
<1>2. ASSUME NEW U \in SUBSET S, U # {}, U \ {Pick(U)} \in G
      PROVE  U \in G
  <2> DEFINE p == Pick(U)
             V == U \ {p}
  <2>1. p \in U /\ p \in S
    BY <1>2, PickInSet
  <2> HIDE DEF p
  <2>2. IsFiniteSet(V) /\ IsFiniteSet(V \cap T) /\ IsFiniteSet(U)
    BY FS_Subset
  <2>3. U = V \cup {p} /\ p \notin V
    BY <2>1
  <2>4. SumFunctionOnSet(f, U) = f[p] + SumFunctionOnSet(f, V)
    BY <2>1, <2>2, SumRemove
  <2>5. SumFunctionOnSet(f, V \cap T) \in Nat /\ SumFunctionOnSet(f, V) \in Nat
    BY <2>2, SumNat
  <2>6. SumFunctionOnSet(f, V \cap T) <= SumFunctionOnSet(f, V)
    BY <1>2 DEF p
  <2>7. f[p] \in Nat
    BY <2>1
  <2>8. CASE p \in T
    <3>1. U \cap T = (V \cap T) \cup {p}
      BY <2>3, <2>8
    <3>2. SumFunctionOnSet(f, U \cap T) = f[p] + SumFunctionOnSet(f, V \cap T)
      <4> HIDE DEF V
      <4>1. \A x \in (V \cap T) \cup {p} : f[x] \in Int
        BY <2>1, <2>3
      <4>2. p \notin V \cap T
        BY <2>3
      <4> QED BY <2>2, <3>1, <4>1, <4>2, SumInsert
    <3> QED BY <3>2, <2>4, <2>5, <2>6, <2>7
  <2>9. CASE p \notin T
    <3>1. U \cap T = V \cap T
      BY <2>3, <2>9
    <3>2. SumFunctionOnSet(f, U \cap T) <= SumFunctionOnSet(f, U)
      <4> DEFINE a == SumFunctionOnSet(f, V \cap T)
                 b == SumFunctionOnSet(f, V)
      <4>1. a <= f[p] + b
        <5> HIDE DEF a, b
        <5> QED BY <2>5, <2>6, <2>7 DEF a, b
      <4> QED BY <3>1, <4>1, <2>4, Zenon
    <3> QED BY <3>2
  <2> QED BY <2>8, <2>9
<1> HIDE DEF G
<1>3. S \in G
  BY <1>1, <1>2, SubsetInduction
<1>4. S \cap T = T
  OBVIOUS
<1> QED BY <1>3, <1>4 DEF G

-----------------------------------------------------------------------------
(* SumFunction(f): the sum over the domain of f *)

LEMMA SumOverDomain ==
    ASSUME NEW S, NEW f, DOMAIN f = S
    PROVE  SumFunction(f) = SumFunctionOnSet(f, S)
BY Zenon DEF SumFunction

\* Zeros add up to zero.
LEMMA SumFunctionZero ==
    ASSUME NEW S, IsFiniteSet(S), NEW f, DOMAIN f = S, \A x \in S : f[x] = 0
    PROVE  SumFunction(f) = 0
<1> DEFINE G == {T \in SUBSET S : SumFunctionOnSet(f, T) = 0}
<1>1. {} \in G
  BY SumEmpty
<1>2. ASSUME NEW T \in SUBSET S, T # {}, T \ {Pick(T)} \in G
      PROVE  T \in G
  <2>1. IsFiniteSet(T)
    BY FS_Subset
  <2> QED BY <1>2, <2>1, SumPick, PickInSet
<1> HIDE DEF G
<1>3. S \in G
  BY <1>1, <1>2, SubsetInduction
<1> QED BY <1>3, SumOverDomain DEF G

\* The sum of natural numbers, and a term of it.
LEMMA SumFunctionNat ==
    ASSUME NEW S, IsFiniteSet(S), NEW f \in [S -> Nat]
    PROVE  /\ SumFunction(f) \in Nat
           /\ \A x \in S : f[x] <= SumFunction(f)
<1>1. SumFunction(f) = SumFunctionOnSet(f, S)
  BY SumOverDomain
<1>2. SumFunctionOnSet(f, S) \in Nat
  BY SumNat
<1>3. ASSUME NEW x \in S PROVE f[x] <= SumFunctionOnSet(f, S)
  <2>1. IsFiniteSet(S \ {x})
    BY FS_RemoveElement
  <2>2. SumFunctionOnSet(f, S \ {x}) \in Nat
    BY <2>1, SumNat
  <2>3. SumFunctionOnSet(f, S) = f[x] + SumFunctionOnSet(f, S \ {x})
    BY SumRemove
  <2> QED BY <2>2, <2>3
<1> QED BY <1>1, <1>2, <1>3

\* One entry changes.
LEMMA SumFunctionUpdate ==
    ASSUME NEW S, IsFiniteSet(S), NEW f \in [S -> Int], NEW g \in [S -> Int],
           NEW y \in S, \A x \in S \ {y} : g[x] = f[x]
    PROVE  SumFunction(g) = SumFunction(f) - f[y] + g[y]
<1>1. SumFunctionOnSet(g, S) = SumFunctionOnSet(f, S) - f[y] + g[y]
  BY SumUpdate
<1> QED BY <1>1, SumOverDomain

\* Larger terms, larger sum.
LEMMA SumFunctionMonotone ==
    ASSUME NEW S, IsFiniteSet(S), NEW f \in [S -> Int], NEW g \in [S -> Int],
           \A x \in S : f[x] <= g[x]
    PROVE  SumFunction(f) <= SumFunction(g)
<1>1. SumFunctionOnSet(f, S) <= SumFunctionOnSet(g, S)
  BY SumMonotone
<1> QED BY <1>1, SumOverDomain

\* One more term.
LEMMA SumFunctionExtend ==
    ASSUME NEW S, IsFiniteSet(S), NEW y, y \notin S, NEW f \in [S -> Int], NEW g \in [S \cup {y} -> Int],
           \A x \in S : g[x] = f[x]
    PROVE  SumFunction(g) = SumFunction(f) + g[y]
<1>1. SumFunctionOnSet(g, S \cup {y}) = g[y] + SumFunctionOnSet(g, S)
  BY SumInsert
<1>2. SumFunctionOnSet(g, S) = SumFunctionOnSet(f, S)
  BY SumCong
<1>3. SumFunctionOnSet(f, S) \in Int
  BY SumInt
<1>4. SumFunction(g) = SumFunctionOnSet(g, S \cup {y}) /\ SumFunction(f) = SumFunctionOnSet(f, S)
  BY SumOverDomain
<1>5. g[y] \in Int
  OBVIOUS
<1> QED BY <1>1, <1>2, <1>3, <1>4, <1>5

\* Zeros over any finite set add up to zero.
LEMMA SumZero ==
    ASSUME NEW S, IsFiniteSet(S), NEW f, \A x \in S : f[x] = 0
    PROVE  SumFunctionOnSet(f, S) = 0
<1>1. \A x \in S : f[x] = IF x \in {} THEN 1 ELSE 0
  OBVIOUS
<1>2. SumFunctionOnSet(f, S) = Cardinality(S \cap {})
  BY <1>1, SumCount
<1>3. S \cap {} = {}
  OBVIOUS
<1> QED BY <1>2, <1>3, FS_EmptySet

\* A sum over a part is the sum over the whole of what is zero elsewhere.
LEMMA SumWhere ==
    ASSUME NEW S, IsFiniteSet(S), NEW T, NEW f, NEW g,
           \A x \in S : f[x] \in Int /\ g[x] = IF x \in T THEN f[x] ELSE 0
    PROVE  SumFunctionOnSet(g, S) = SumFunctionOnSet(f, S \cap T)
<1>1. IsFiniteSet(S \cap T) /\ IsFiniteSet(S \ T)
  BY FS_Subset
<1>2. SumFunctionOnSet(g, S) = SumFunctionOnSet(g, S \cap T) + SumFunctionOnSet(g, S \ T)
  <2>1. \A x \in S : g[x] \in Int
    OBVIOUS
  <2> QED BY <2>1, SumSplit
<1>3. SumFunctionOnSet(g, S \cap T) = SumFunctionOnSet(f, S \cap T)
  BY <1>1, SumCong
<1>4. SumFunctionOnSet(g, S \ T) = 0
  BY <1>1, SumZero
<1>5. SumFunctionOnSet(f, S \cap T) \in Int
  BY <1>1, SumInt
<1> QED BY <1>2, <1>3, <1>4, <1>5

\* Two terms changed.
LEMMA SumFunctionUpdateTwo ==
    ASSUME NEW S, IsFiniteSet(S), NEW f \in [S -> Int], NEW g \in [S -> Int],
           NEW y \in S, NEW z \in S, y # z, \A x \in S \ {y, z} : g[x] = f[x]
    PROVE  SumFunction(g) = SumFunction(f) - f[y] - f[z] + g[y] + g[z]
<1> DEFINE h == [f EXCEPT ![y] = g[y]]
<1>1. /\ h \in [S -> Int] /\ h[y] = g[y] /\ h[z] = f[z]
      /\ \A x \in S \ {y} : h[x] = f[x]
      /\ \A x \in S \ {z} : g[x] = h[x]
  OBVIOUS
<1> HIDE DEF h
<1>2. SumFunction(h) = SumFunction(f) - f[y] + g[y]
  BY <1>1, SumFunctionUpdate
<1>3. SumFunction(g) = SumFunction(h) - f[z] + g[z]
  BY <1>1, SumFunctionUpdate
<1>4. SumFunction(f) \in Int
  BY SumInt, SumOverDomain
<1>5. f[y] \in Int /\ f[z] \in Int /\ g[y] \in Int /\ g[z] \in Int
  OBVIOUS
<1> QED BY <1>2, <1>3, <1>4, <1>5
=============================================================================
