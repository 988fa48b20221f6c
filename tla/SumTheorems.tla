----------------------------- MODULE SumTheorems -----------------------------
(***************************************************************************)
(* What SumFunctionOnSet computes: nothing over the empty set, and one     *)
(* element more with every element, whichever is taken first.  The fold    *)
(* behind it is a recursive function, a CHOOSE to the prover; that the     *)
(* chosen function exists and is unique, and all that follows, is proved   *)
(* on a smallest counterexample, which a finite set of sets has.           *)
(***************************************************************************)
EXTENDS Functions, Integers, FiniteSetTheorems, TLAPS

Picked(S) == CHOOSE x \in S : TRUE

\* g sums f over each subset of T, one picked element after the other.
Sums(g, f, T) ==
  g = [s \in SUBSET T |-> IF s = {} THEN 0 ELSE f[Picked(s)] + g[s \ {Picked(s)}]]

LEMMA SumIsChosen ==
  ASSUME NEW f, NEW T
  PROVE  SumFunctionOnSet(f, T) = (CHOOSE g : Sums(g, f, T))[T]
BY DEF SumFunctionOnSet, FoldFunctionOnSet, MapThenFoldSet, Sums, Picked

\* A set of subsets of a finite set has a smallest one.
LEMMA SmallestSubset ==
  ASSUME NEW S, IsFiniteSet(S), NEW B \in SUBSET SUBSET S, B # {}
  PROVE  \E T \in B : \A U \in SUBSET T : U # T => U \notin B
<1>1. PICK T \in B : \A U \in B : <<U, T>> \notin StrictSubsetOrdering(S)
  BY FS_FiniteSubsetsOfFinite, FS_StrictSubsetOrderingWellFounded, WFMin
<1> QED
  BY <1>1 DEF StrictSubsetOrdering

LEMMA PickedIsMember ==
  ASSUME NEW S, S # {}
  PROVE  Picked(S) \in S
BY DEF Picked

-----------------------------------------------------------------------------
\* The recursive function

LEMMA SumsAgree ==
  ASSUME NEW S, IsFiniteSet(S), NEW f, NEW T \in SUBSET S, NEW U \in SUBSET S,
         NEW g, NEW h, Sums(g, f, T), Sums(h, f, U), NEW s \in SUBSET (T \cap U)
  PROVE  g[s] = h[s]
<1> DEFINE B == {u \in SUBSET (T \cap U) : g[u] # h[u]}
<1> SUFFICES ASSUME B # {} PROVE FALSE
  OBVIOUS
<1>1. PICK u \in B : \A v \in SUBSET u : v # u => v \notin B
  <2>1. B \in SUBSET SUBSET S
    OBVIOUS
  <2> HIDE DEF B
  <2> QED
    BY <2>1, SmallestSubset
<1>2. u \in SUBSET T /\ u \in SUBSET U
  OBVIOUS
<1>3. u # {}
  BY <1>2 DEF Sums
<1>4. Picked(u) \in u
  BY <1>3, PickedIsMember
<1>5. g[u \ {Picked(u)}] = h[u \ {Picked(u)}]
  BY <1>1, <1>2, <1>4
<1>6. g[u] = f[Picked(u)] + g[u \ {Picked(u)}] /\ h[u] = f[Picked(u)] + h[u \ {Picked(u)}]
  BY <1>2, <1>3 DEF Sums
<1> QED
  BY <1>5, <1>6

LEMMA SumsExist ==
  ASSUME NEW S, IsFiniteSet(S), NEW f
  PROVE  \A T \in SUBSET S : \E g : Sums(g, f, T)
<1> DEFINE B == {T \in SUBSET S : ~ \E g : Sums(g, f, T)}
<1> SUFFICES ASSUME B # {} PROVE FALSE
  OBVIOUS
<1>1. PICK T \in B : \A U \in SUBSET T : U # T => U \notin B
  <2>1. B \in SUBSET SUBSET S
    OBVIOUS
  <2> HIDE DEF B
  <2> QED
    BY <2>1, SmallestSubset
<1> HIDE DEF B
<1> DEFINE Of(u) == CHOOSE g : Sums(g, f, u)
           Rest(s) == s \ {Picked(s)}
           G == [s \in SUBSET T |-> IF s = {} THEN 0 ELSE f[Picked(s)] + Of(Rest(s))[Rest(s)]]
<1>2. T \in SUBSET S /\ ~ \E g : Sums(g, f, T)
  BY DEF B
<1>3. \A u \in SUBSET T : u # T => Sums(Of(u), f, u)
  BY <1>1, <1>2 DEF B
<1>4. ASSUME NEW u \in SUBSET T, u # T
      PROVE  G[u] = Of(u)[u]
  <2>1. Sums(Of(u), f, u)
    BY <1>3, <1>4
  <2>2. CASE u = {}
    <3>1. Of(u)[u] = 0
      BY <2>1, <2>2 DEF Sums
    <3> QED
      BY <2>2, <3>1
  <2>3. CASE u # {}
    <3>1. Picked(u) \in u
      BY <2>3, PickedIsMember
    <3> DEFINE v == Rest(u)
    <3>2. v \in SUBSET u /\ v \in SUBSET T /\ v # T
      BY <1>4, <3>1
    <3>3. Sums(Of(v), f, v)
      BY <1>3, <3>2
    <3>4. Of(u)[v] = Of(v)[v]
      BY <1>2, <2>1, <3>2, <3>3, SumsAgree
    <3>5. Of(u)[u] = f[Picked(u)] + Of(u)[v]
      BY <2>1, <2>3 DEF Sums
    <3> QED
      BY <2>3, <3>4, <3>5
  <2> QED
    BY <2>2, <2>3
<1>5. \A s \in SUBSET T : s # {} => G[Rest(s)] = Of(Rest(s))[Rest(s)]
  BY <1>4, PickedIsMember
<1>6. Sums(G, f, T)
  <2>1. ASSUME NEW s \in SUBSET T
        PROVE  G[s] = IF s = {} THEN 0 ELSE f[Picked(s)] + G[Rest(s)]
    <3>1. G[s] = IF s = {} THEN 0 ELSE f[Picked(s)] + Of(Rest(s))[Rest(s)]
      OBVIOUS
    <3>2. s # {} => G[Rest(s)] = Of(Rest(s))[Rest(s)]
      BY <1>5
    <3> HIDE DEF G
    <3> QED
      BY <3>1, <3>2
  <2>2. G = [s \in SUBSET T |-> G[s]]
    OBVIOUS
  <2> HIDE DEF G
  <2> QED
    BY <2>1, <2>2 DEF Sums
<1> QED
  BY <1>2, <1>6

LEMMA SumsOf ==
  ASSUME NEW S, IsFiniteSet(S), NEW f
  PROVE  Sums(CHOOSE g : Sums(g, f, S), f, S)
<1>1. \E g : Sums(g, f, S)
  BY SumsExist
<1> QED
  BY <1>1

-----------------------------------------------------------------------------
\* Sums over finite sets

\* Nothing sums up to nothing.
THEOREM SumOverNothing ==
  ASSUME NEW f
  PROVE  SumFunctionOnSet(f, {}) = 0
<1> DEFINE g == CHOOSE g : Sums(g, f, {})
<1>1. Sums(g, f, {})
  BY SumsOf, FS_EmptySet
<1>2. g[{}] = 0
  BY <1>1 DEF Sums
<1> QED
  BY <1>2, SumIsChosen

LEMMA SumByPicked ==
  ASSUME NEW S, IsFiniteSet(S), NEW f, S # {}
  PROVE  SumFunctionOnSet(f, S) = f[Picked(S)] + SumFunctionOnSet(f, S \ {Picked(S)})
<1> DEFINE Of(u) == CHOOSE g : Sums(g, f, u)
           R == S \ {Picked(S)}
<1>1. Sums(Of(S), f, S)
  BY SumsOf
<1>2. Sums(Of(R), f, R)
  BY SumsOf, FS_RemoveElement
<1>3. Of(S)[R] = Of(R)[R]
  BY <1>1, <1>2, SumsAgree
<1>4. Of(S)[S] = f[Picked(S)] + Of(S)[R]
  BY <1>1 DEF Sums
<1> QED
  BY <1>3, <1>4, SumIsChosen

\* Integers sum up to an integer.
THEOREM SumIsInteger ==
  ASSUME NEW S, IsFiniteSet(S), NEW f, \A x \in S : f[x] \in Int
  PROVE  SumFunctionOnSet(f, S) \in Int
<1> DEFINE B == {T \in SUBSET S : SumFunctionOnSet(f, T) \notin Int}
<1> SUFFICES ASSUME B # {} PROVE FALSE
  OBVIOUS
<1>1. PICK T \in B : \A U \in SUBSET T : U # T => U \notin B
  <2>1. B \in SUBSET SUBSET S
    OBVIOUS
  <2> HIDE DEF B
  <2> QED
    BY <2>1, SmallestSubset
<1>2. T # {}
  BY SumOverNothing
<1>3. Picked(T) \in T /\ IsFiniteSet(T)
  BY <1>2, PickedIsMember, FS_Subset
<1>4. SumFunctionOnSet(f, T \ {Picked(T)}) \in Int
  BY <1>1, <1>3
<1>5. SumFunctionOnSet(f, T) = f[Picked(T)] + SumFunctionOnSet(f, T \ {Picked(T)})
  BY <1>2, <1>3, SumByPicked
<1> QED
  BY <1>3, <1>4, <1>5

\* Any element may be taken out first.
THEOREM SumWithout ==
  ASSUME NEW S, IsFiniteSet(S), NEW f, \A x \in S : f[x] \in Int, NEW x \in S
  PROVE  SumFunctionOnSet(f, S) = f[x] + SumFunctionOnSet(f, S \ {x})
<1> DEFINE Sum(T) == SumFunctionOnSet(f, T)
           B == {T \in SUBSET S : \E y \in T : Sum(T) # f[y] + Sum(T \ {y})}
<1> SUFFICES ASSUME B # {} PROVE FALSE
  OBVIOUS
<1>1. PICK T \in B : \A U \in SUBSET T : U # T => U \notin B
  <2>1. B \in SUBSET SUBSET S
    OBVIOUS
  <2> HIDE DEF B
  <2> QED
    BY <2>1, SmallestSubset
<1>2. PICK y \in T : Sum(T) # f[y] + Sum(T \ {y})
  OBVIOUS
<1>3. PICK p \in T : p = Picked(T)
  BY PickedIsMember
<1>4. \A U \in SUBSET T : IsFiniteSet(U) /\ Sum(U) \in Int
  BY FS_Subset, SumIsInteger
<1>5. Sum(T) = f[p] + Sum(T \ {p})
  BY <1>3, <1>4, SumByPicked
<1>6. p # y
  BY <1>2, <1>5
<1>7. Sum(T \ {p}) = f[y] + Sum((T \ {p}) \ {y})
  BY <1>1, <1>3, <1>6
<1>8. Sum(T \ {y}) = f[p] + Sum((T \ {y}) \ {p})
  BY <1>1, <1>3, <1>6
<1>9. (T \ {p}) \ {y} = (T \ {y}) \ {p}
  OBVIOUS
<1>10. f[p] \in Int /\ f[y] \in Int /\ Sum((T \ {y}) \ {p}) \in Int
  BY <1>3, <1>4
<1>11. \A a, b, c, d, e \in Int : a = b + c /\ c = d + e => a = d + (b + e)
  OBVIOUS
<1>12. Sum(T) \in Int /\ Sum(T \ {p}) \in Int
  BY <1>4
<1> HIDE DEF Sum
<1> QED
  BY <1>2, <1>5, <1>7, <1>8, <1>9, <1>10, <1>11, <1>12

\* Only the values on the set count.
THEOREM SumOfEqual ==
  ASSUME NEW S, IsFiniteSet(S), NEW f, NEW h, \A x \in S : f[x] = h[x]
  PROVE  SumFunctionOnSet(f, S) = SumFunctionOnSet(h, S)
<1> DEFINE B == {T \in SUBSET S : SumFunctionOnSet(f, T) # SumFunctionOnSet(h, T)}
<1> SUFFICES ASSUME B # {} PROVE FALSE
  OBVIOUS
<1>1. PICK T \in B : \A U \in SUBSET T : U # T => U \notin B
  <2>1. B \in SUBSET SUBSET S
    OBVIOUS
  <2> HIDE DEF B
  <2> QED
    BY <2>1, SmallestSubset
<1>2. T # {}
  BY SumOverNothing
<1>3. Picked(T) \in T /\ IsFiniteSet(T)
  BY <1>2, PickedIsMember, FS_Subset
<1>4. SumFunctionOnSet(f, T \ {Picked(T)}) = SumFunctionOnSet(h, T \ {Picked(T)})
  BY <1>1, <1>3
<1>5. /\ SumFunctionOnSet(f, T) = f[Picked(T)] + SumFunctionOnSet(f, T \ {Picked(T)})
      /\ SumFunctionOnSet(h, T) = h[Picked(T)] + SumFunctionOnSet(h, T \ {Picked(T)})
  BY <1>2, <1>3, SumByPicked
<1> QED
  BY <1>3, <1>4, <1>5

\* Sets without a common element sum up apart.
THEOREM SumOfUnion ==
  ASSUME NEW S, IsFiniteSet(S), NEW f, \A x \in S : f[x] \in Int,
         NEW T \in SUBSET S, NEW U \in SUBSET S, T \cap U = {}
  PROVE  SumFunctionOnSet(f, T \cup U) = SumFunctionOnSet(f, T) + SumFunctionOnSet(f, U)
<1> DEFINE Sum(V) == SumFunctionOnSet(f, V)
           B == {V \in SUBSET U : Sum(T \cup V) # Sum(T) + Sum(V)}
<1>0. \A V \in SUBSET S : IsFiniteSet(V) /\ Sum(V) \in Int
  BY FS_Subset, SumIsInteger
<1> SUFFICES ASSUME B # {} PROVE FALSE
  OBVIOUS
<1>1. PICK V \in B : \A W \in SUBSET V : W # V => W \notin B
  <2>1. B \in SUBSET SUBSET S
    OBVIOUS
  <2> HIDE DEF B
  <2> QED
    BY <1>0, <2>1, SmallestSubset
<1>2. V # {}
  <2> SUFFICES ASSUME V = {} PROVE FALSE
    OBVIOUS
  <2>1. T \cup V = T
    OBVIOUS
  <2>2. Sum(T \cup V) = Sum(T)
    BY <2>1
  <2>3. Sum(V) = 0 /\ Sum(T) \in Int
    BY <1>0, SumOverNothing
  <2>4. Sum(T \cup V) # Sum(T) + Sum(V)
    OBVIOUS
  <2> HIDE DEF Sum, B
  <2> QED
    BY <2>2, <2>3, <2>4
<1>3. PICK x \in V : TRUE
  BY <1>2
<1> DEFINE R == V \ {x}
<1>4. Sum(T \cup R) = Sum(T) + Sum(R)
  BY <1>1
<1>5. Sum(V) = f[x] + Sum(R)
  BY <1>0, SumWithout
<1>6. Sum(T \cup V) = f[x] + Sum((T \cup V) \ {x})
  BY <1>0, SumWithout
<1>7. (T \cup V) \ {x} = T \cup R
  OBVIOUS
<1>8. Sum(T) \in Int /\ Sum(R) \in Int /\ f[x] \in Int
  BY <1>0
<1>9. Sum((T \cup V) \ {x}) = Sum(T \cup R)
  BY <1>7
<1>10. Sum(T \cup V) # Sum(T) + Sum(V)
  OBVIOUS
<1> HIDE DEF Sum, R, B
<1> QED
  BY <1>4, <1>5, <1>6, <1>8, <1>9, <1>10

\* A sum may be taken group by group: k names the group of an element.
THEOREM SumByGroups ==
  ASSUME NEW S, IsFiniteSet(S), NEW f, \A x \in S : f[x] \in Int,
         NEW D, IsFiniteSet(D), NEW k, \A x \in S : k[x] \in D
  PROVE  SumFunctionOnSet([d \in D |-> SumFunctionOnSet(f, {x \in S : k[x] = d})], D)
           = SumFunctionOnSet(f, S)
<1> DEFINE Group(E) == {x \in S : k[x] \in E}
           Part == [d \in D |-> SumFunctionOnSet(f, {x \in S : k[x] = d})]
           Sum(V) == SumFunctionOnSet(f, V)
           B == {E \in SUBSET D : SumFunctionOnSet(Part, E) # Sum(Group(E))}
<1>0. \A V \in SUBSET S : IsFiniteSet(V) /\ Sum(V) \in Int
  BY FS_Subset, SumIsInteger
<1>1. \A d \in D : Part[d] = Sum({x \in S : k[x] = d}) /\ Part[d] \in Int
  BY <1>0
<1>2. Group(D) = S
  OBVIOUS
<1> SUFFICES ASSUME B # {} PROVE FALSE
  BY <1>2
<1>3. PICK E \in B : \A F \in SUBSET E : F # E => F \notin B
  <2>1. B \in SUBSET SUBSET D
    OBVIOUS
  <2> HIDE DEF B
  <2> QED
    BY <2>1, SmallestSubset
<1>4. E # {}
  <2>1. Group({}) = {}
    OBVIOUS
  <2> QED
    BY <2>1, SumOverNothing
<1>5. PICK d \in E : TRUE
  BY <1>4
<1> DEFINE R == E \ {d}
<1>6. SumFunctionOnSet(Part, R) = Sum(Group(R))
  BY <1>3
<1>7. SumFunctionOnSet(Part, E) = Part[d] + SumFunctionOnSet(Part, R)
  <2>1. IsFiniteSet(E) /\ \A e \in E : Part[e] \in Int
    BY <1>1, FS_Subset
  <2> HIDE DEF Part
  <2> QED
    BY <2>1, SumWithout
<1>8. Sum({x \in S : k[x] = d} \cup Group(R)) = Sum({x \in S : k[x] = d}) + Sum(Group(R))
  <2>1. {x \in S : k[x] = d} \cap Group(R) = {}
    OBVIOUS
  <2> QED
    BY <2>1, SumOfUnion
<1>9. {x \in S : k[x] = d} \cup Group(R) = Group(E)
  OBVIOUS
<1> HIDE DEF Sum, Part, Group, R
<1> QED
  <2>1. SumFunctionOnSet(Part, E) # Sum(Group(E))
    BY DEF B
  <2>2. d \in D
    BY DEF B
  <2> QED
    BY <1>1, <1>6, <1>7, <1>8, <1>9, <2>1, <2>2
=============================================================================
