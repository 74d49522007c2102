-------------------------------- MODULE Sums --------------------------------
(***************************************************************************)
(* What the sums of the models are, for finite sets of any size.           *)
(*                                                                         *)
(* The fold of the community modules is a function, defined by recursion   *)
(* on the subsets of a set.  The library's induction theorems cannot be    *)
(* applied to it, since they take the induction hypothesis as an operator; *)
(* but the sets that refute a hypothesis are a set, and if there are any   *)
(* among the subsets of a finite set, there is a smallest one (WFMin).     *)
(***************************************************************************)
EXTENDS Integers, FiniteSetsExt, Functions, FiniteSetTheorems, WellFoundedInduction, TLAPS

\* The sum of f[x] for x in S.
Sum(f, S) == MapThenSumSet(LAMBDA x : f[x], S)

\* The element the fold takes next, and what the fold is defined by.
Chosen(s) == CHOOSE x \in s : TRUE
Others(s) == s \ {Chosen(s)}
IsFold(g, f, S) ==
  g = [s \in SUBSET S |-> IF s = {} THEN 0 ELSE f[Chosen(s)] + g[Others(s)]]
Fold(f, S) == CHOOSE g : IsFold(g, f, S)

-----------------------------------------------------------------------------
(* Induction *)

\* A set of subsets of a finite set that has every one whose proper subsets
\* it has, has them all.
LEMMA SubsetInduction ==
  ASSUME NEW S, IsFiniteSet(S), NEW B,
         \A s \in SUBSET S : (\A t \in SUBSET S : t \subseteq s /\ t # s => t \in B) => s \in B
  PROVE  \A s \in SUBSET S : s \in B
<1> DEFINE R == StrictSubsetOrdering(S)
           T == (SUBSET S) \ B
<1>1. IsWellFoundedOn(R, SUBSET S)
  BY FS_StrictSubsetOrderingWellFounded, FS_FiniteSubsetsOfFinite
<1> SUFFICES ASSUME T # {} PROVE FALSE
  OBVIOUS
<1>2. PICK s \in T : \A t \in T : <<t, s>> \notin R
  <2>1. T \subseteq SUBSET S
    OBVIOUS
  <2> HIDE DEF R, T
  <2> QED
    BY <1>1, <2>1, WFMin
<1>3. \A t \in SUBSET S : t \subseteq s /\ t # s => t \in B
  BY <1>2 DEF StrictSubsetOrdering
<1> QED
  BY <1>2, <1>3

\* The rest of a set is a proper subset of it.
LEMMA ChosenFromSet ==
  ASSUME NEW s, s # {}
  PROVE  Chosen(s) \in s /\ Others(s) \subseteq s /\ Others(s) # s
BY DEF Chosen, Others

-----------------------------------------------------------------------------
(* The fold exists *)

\* Two folds of the same function agree where both are defined.
LEMMA FoldsAgree ==
  ASSUME NEW f, NEW S, IsFiniteSet(S), NEW T, NEW g, NEW h, IsFold(g, f, S), IsFold(h, f, T)
  PROVE  \A s \in SUBSET S : s \subseteq T => g[s] = h[s]
<1> DEFINE B == {s \in SUBSET S : s \subseteq T => g[s] = h[s]}
<1>1. ASSUME NEW s \in SUBSET S, \A t \in SUBSET S : t \subseteq s /\ t # s => t \in B,
             s \subseteq T
      PROVE  g[s] = h[s]
  <2>1. CASE s = {}
    BY <1>1, <2>1 DEF IsFold
  <2>2. CASE s # {}
    <3>1. Others(s) \subseteq s /\ Others(s) # s
      BY <2>2, ChosenFromSet
    <3>2. g[Others(s)] = h[Others(s)]
      BY <1>1, <3>1
    <3>3. g[s] = f[Chosen(s)] + g[Others(s)]
      BY <2>2 DEF IsFold
    <3>4. h[s] = f[Chosen(s)] + h[Others(s)]
      BY <1>1, <2>2 DEF IsFold
    <3> QED
      BY <3>2, <3>3, <3>4
  <2> QED
    BY <2>1, <2>2
<1>2. \A s \in SUBSET S : (\A t \in SUBSET S : t \subseteq s /\ t # s => t \in B) => s \in B
  BY <1>1
<1>3. \A s \in SUBSET S : s \in B
  <2> HIDE DEF B
  <2> QED
    BY <1>2, SubsetInduction
<1> QED
  BY <1>3

\* The fold of the subsets of s is put together from those of their rests.
LEMMA FoldsStep ==
  ASSUME NEW f, NEW s, IsFiniteSet(s),
         \A t \in SUBSET s : t # s => IsFold(Fold(f, t), f, t)
  PROVE  IsFold(Fold(f, s), f, s)
<1> DEFINE G == [t \in SUBSET s |->
                   IF t = {} THEN 0 ELSE f[Chosen(t)] + Fold(f, Others(t))[Others(t)]]
<1>1. ASSUME NEW t \in SUBSET s, t # s PROVE G[t] = Fold(f, t)[t]
  <2> DEFINE g == Fold(f, t)
  <2>1. g = [r \in SUBSET t |-> IF r = {} THEN 0 ELSE f[Chosen(r)] + g[Others(r)]]
    BY <1>1 DEF IsFold
  <2> HIDE DEF g
  <2>2. CASE t = {}
    BY <2>1, <2>2 DEF g
  <2>3. CASE t # {}
    <3> DEFINE r == Others(t)
    <3>1. r \subseteq t /\ r # t
      BY <2>3, ChosenFromSet
    <3>2. g[t] = f[Chosen(t)] + g[r]
      BY <2>1, <2>3
    <3>3. g[r] = Fold(f, r)[r]
      <4>1. r \in SUBSET s /\ r # s /\ IsFiniteSet(t)
        BY <3>1, FS_Subset
      <4>2. IsFold(Fold(f, r), f, r) /\ IsFold(g, f, t)
        BY <1>1, <4>1 DEF g
      <4>3. r \in SUBSET t /\ r \subseteq r
        BY <3>1
      <4> HIDE DEF r
      <4> QED
        BY <4>1, <4>2, <4>3, FoldsAgree
    <3>4. G[t] = f[Chosen(t)] + Fold(f, r)[r]
      BY <2>3
    <3> QED
      BY <3>2, <3>3, <3>4 DEF g
  <2> QED
    BY <2>2, <2>3
<1>2. IsFold(G, f, s)
  <2>1. ASSUME NEW t \in SUBSET s, t # {} PROVE G[Others(t)] = Fold(f, Others(t))[Others(t)]
    <3>1. Others(t) \in SUBSET s /\ Others(t) # s
      BY <2>1, ChosenFromSet
    <3> HIDE DEF G
    <3> QED
      BY <1>1, <3>1
  <2>2. G = [t \in SUBSET s |-> IF t = {} THEN 0 ELSE f[Chosen(t)] + G[Others(t)]]
    BY <2>1
  <2> QED
    BY <2>2 DEF IsFold
<1> HIDE DEF G
<1> QED
  BY <1>2 DEF Fold

\* Every finite set has the fold of its subsets.
LEMMA FoldsExist ==
  ASSUME NEW f, NEW S, IsFiniteSet(S)
  PROVE  IsFold(Fold(f, S), f, S)
<1> DEFINE B == {s \in SUBSET S : IsFold(Fold(f, s), f, s)}
<1>1. ASSUME NEW s \in SUBSET S, \A t \in SUBSET S : t \subseteq s /\ t # s => t \in B
      PROVE  s \in B
  <2>1. IsFiniteSet(s)
    BY FS_Subset
  <2>2. \A t \in SUBSET s : t # s => IsFold(Fold(f, t), f, t)
    BY <1>1
  <2> QED
    BY <2>1, <2>2, FoldsStep
<1>2. \A s \in SUBSET S : s \in B
  <2> HIDE DEF B
  <2> QED
    BY <1>1, SubsetInduction
<1> QED
  BY <1>2

-----------------------------------------------------------------------------
(* Sums *)

\* The folds that the models are written with are sums.
LEMMA SumIsFold ==
  ASSUME NEW f, NEW S
  PROVE  /\ Sum(f, S) = Fold(f, S)[S]
         /\ FoldFunctionOnSet(+, 0, f, S) = Sum(f, S)
<1>1. Sum(f, S) = Fold(f, S)[S]
  BY DEF Sum, MapThenSumSet, MapThenFoldSet, Fold, IsFold, Chosen, Others
<1>2. FoldFunctionOnSet(+, 0, f, S) = Fold(f, S)[S]
  BY DEF FoldFunctionOnSet, MapThenFoldSet, Fold, IsFold, Chosen, Others
<1> QED
  BY <1>1, <1>2

\* The sum over nothing is nothing, any other what is chosen and the rest.
LEMMA SumUnfolds ==
  ASSUME NEW f, NEW S, IsFiniteSet(S)
  PROVE  /\ S = {} => Sum(f, S) = 0
         /\ S # {} => Sum(f, S) = f[Chosen(S)] + Sum(f, Others(S))
<1> DEFINE g == Fold(f, S)
<1>1. IsFold(g, f, S)
  BY FoldsExist
<1>2. CASE S = {}
  BY <1>1, <1>2, SumIsFold DEF IsFold
<1>3. CASE S # {}
  <2> DEFINE r == Others(S)
  <2>1. r \subseteq S
    BY <1>3, ChosenFromSet
  <2>2. IsFiniteSet(r)
    BY <2>1, FS_Subset
  <2>3. IsFold(Fold(f, r), f, r)
    BY <2>2, FoldsExist
  <2>4. g[r] = Fold(f, r)[r]
    <3>1. r \in SUBSET S /\ r \subseteq r
      BY <2>1
    <3> HIDE DEF r, g
    <3> QED
      BY <1>1, <2>3, <3>1, FoldsAgree
  <2>5. g[S] = f[Chosen(S)] + g[r]
    <3> HIDE DEF g
    <3> QED
      BY <1>1, <1>3 DEF IsFold
  <2>6. Sum(f, S) = g[S] /\ Sum(f, r) = Fold(f, r)[r]
    BY SumIsFold
  <2> HIDE DEF g, r
  <2> QED
    BY <1>3, <2>4, <2>5, <2>6 DEF r
<1> QED
  BY <1>2, <1>3

\* Nothing sums up to nothing.
LEMMA SumEmpty == \A f : Sum(f, {}) = 0
BY SumUnfolds, FS_EmptySet

\* What sums of integers are.
LEMMA SumType ==
  ASSUME NEW S, IsFiniteSet(S), NEW f, \A x \in S : f[x] \in Int
  PROVE  \A s \in SUBSET S : Sum(f, s) \in Int
<1> DEFINE B == {s \in SUBSET S : Sum(f, s) \in Int}
<1>1. ASSUME NEW s \in SUBSET S, \A t \in SUBSET S : t \subseteq s /\ t # s => t \in B
      PROVE  s \in B
  <2>0. IsFiniteSet(s)
    BY FS_Subset
  <2>1. CASE s = {}
    BY <2>1, SumEmpty
  <2>2. CASE s # {}
    <3>1. Chosen(s) \in S /\ Others(s) \subseteq s /\ Others(s) # s
      BY <2>2, ChosenFromSet
    <3>2. Sum(f, Others(s)) \in Int
      BY <1>1, <3>1
    <3>3. Sum(f, s) = f[Chosen(s)] + Sum(f, Others(s))
      BY <2>0, <2>2, SumUnfolds
    <3> QED
      BY <3>1, <3>2, <3>3
  <2> QED
    BY <2>1, <2>2
<1>2. \A s \in SUBSET S : s \in B
  <2> HIDE DEF B
  <2> QED
    BY <1>1, SubsetInduction
<1> QED
  BY <1>2

\* Any element may be taken out of a sum.
LEMMA SumRemove ==
  ASSUME NEW S, IsFiniteSet(S), NEW f, \A x \in S : f[x] \in Int, NEW x \in S
  PROVE  Sum(f, S) = f[x] + Sum(f, S \ {x})
<1> DEFINE B == {s \in SUBSET S : \A y \in s : Sum(f, s) = f[y] + Sum(f, s \ {y})}
<1>1. ASSUME NEW s \in SUBSET S, \A t \in SUBSET S : t \subseteq s /\ t # s => t \in B,
             NEW y \in s
      PROVE  Sum(f, s) = f[y] + Sum(f, s \ {y})
  <2> DEFINE c == Chosen(s)
  <2>0. IsFiniteSet(s)
    BY FS_Subset
  <2>1. c \in s /\ Others(s) = s \ {c}
    BY DEF Chosen, Others
  <2>2. Sum(f, s) = f[c] + Sum(f, s \ {c})
    BY <2>0, <2>1, SumUnfolds
  <2> HIDE DEF c
  <2>3. CASE c = y
    BY <2>2, <2>3
  <2>4. CASE c # y
    <3> DEFINE z == Sum(f, (s \ {y}) \ {c})
    <3>1. (s \ {c}) \ {y} = (s \ {y}) \ {c}
      OBVIOUS
    <3>2. s \ {c} \in B /\ s \ {y} \in B
      BY <1>1, <2>1
    <3>3. Sum(f, s \ {c}) = f[y] + z
      BY <2>4, <3>1, <3>2
    <3>4. Sum(f, s \ {y}) = f[c] + z
      BY <2>1, <2>4, <3>2
    <3>5. (s \ {y}) \ {c} \in SUBSET S
      OBVIOUS
    <3>6. f[c] \in Int /\ f[y] \in Int /\ z \in Int
      BY <2>1, <3>5, SumType
    <3> HIDE DEF z
    <3>7. f[c] + (f[y] + z) = f[y] + (f[c] + z)
      BY <3>6
    <3> QED
      BY <2>2, <3>3, <3>4, <3>7
  <2> QED
    BY <2>3, <2>4
<1>2. \A s \in SUBSET S : (\A t \in SUBSET S : t \subseteq s /\ t # s => t \in B) => s \in B
  BY <1>1
<1>3. \A s \in SUBSET S : s \in B
  <2> HIDE DEF B
  <2> QED
    BY <1>2, SubsetInduction
<1> QED
  BY <1>3

\* Or added to it.
LEMMA SumAdd ==
  ASSUME NEW S, IsFiniteSet(S), NEW x, x \notin S, NEW f, \A y \in S \cup {x} : f[y] \in Int
  PROVE  Sum(f, S \cup {x}) = f[x] + Sum(f, S)
<1>1. IsFiniteSet(S \cup {x}) /\ x \in S \cup {x} /\ (S \cup {x}) \ {x} = S
  BY FS_AddElement
<1> DEFINE T == S \cup {x}
<1>2. T \ {x} = S
  BY <1>1
<1> HIDE DEF T
<1>3. IsFiniteSet(T) /\ x \in T /\ \A y \in T : f[y] \in Int
  BY <1>1 DEF T
<1>4. Sum(f, T) = f[x] + Sum(f, T \ {x})
  BY <1>3, SumRemove
<1> QED
  BY <1>2, <1>4 DEF T

\* A sum depends on what is summed only.
LEMMA SumEqual ==
  ASSUME NEW S, IsFiniteSet(S), NEW f, NEW g, \A x \in S : f[x] = g[x]
  PROVE  Sum(f, S) = Sum(g, S)
<1> DEFINE B == {s \in SUBSET S : Sum(f, s) = Sum(g, s)}
<1>1. ASSUME NEW s \in SUBSET S, \A t \in SUBSET S : t \subseteq s /\ t # s => t \in B
      PROVE  s \in B
  <2>0. IsFiniteSet(s)
    BY FS_Subset
  <2>1. CASE s = {}
    BY <2>1, SumEmpty
  <2>2. CASE s # {}
    <3>1. Chosen(s) \in S /\ Others(s) \subseteq s /\ Others(s) # s
      BY <2>2, ChosenFromSet
    <3>2. Sum(f, Others(s)) = Sum(g, Others(s))
      BY <1>1, <3>1
    <3>3. /\ Sum(f, s) = f[Chosen(s)] + Sum(f, Others(s))
          /\ Sum(g, s) = g[Chosen(s)] + Sum(g, Others(s))
      BY <2>0, <2>2, SumUnfolds
    <3> QED
      BY <3>1, <3>2, <3>3
  <2> QED
    BY <2>1, <2>2
<1>2. \A s \in SUBSET S : s \in B
  <2> HIDE DEF B
  <2> QED
    BY <1>1, SubsetInduction
<1> QED
  BY <1>2

\* A sum grows with what is summed.
LEMMA SumMonotonic ==
  ASSUME NEW S, IsFiniteSet(S), NEW f, NEW g,
         \A x \in S : f[x] \in Int /\ g[x] \in Int /\ f[x] <= g[x]
  PROVE  Sum(f, S) <= Sum(g, S)
<1> DEFINE B == {s \in SUBSET S : Sum(f, s) <= Sum(g, s)}
<1>0. \A s \in SUBSET S : Sum(f, s) \in Int /\ Sum(g, s) \in Int
  BY SumType
<1>1. ASSUME NEW s \in SUBSET S, \A t \in SUBSET S : t \subseteq s /\ t # s => t \in B
      PROVE  s \in B
  <2>0. IsFiniteSet(s)
    BY FS_Subset
  <2>1. CASE s = {}
    BY <2>1, SumEmpty
  <2>2. CASE s # {}
    <3>1. Chosen(s) \in S /\ Others(s) \subseteq s /\ Others(s) # s
      BY <2>2, ChosenFromSet
    <3>2. Sum(f, Others(s)) <= Sum(g, Others(s))
      BY <1>1, <3>1
    <3>3. /\ Sum(f, s) = f[Chosen(s)] + Sum(f, Others(s))
          /\ Sum(g, s) = g[Chosen(s)] + Sum(g, Others(s))
      BY <2>0, <2>2, SumUnfolds
    <3>4. Sum(f, Others(s)) \in Int /\ Sum(g, Others(s)) \in Int
      BY <1>0, <3>1
    <3> QED
      BY <3>1, <3>2, <3>3, <3>4
  <2> QED
    BY <2>1, <2>2
<1>2. \A s \in SUBSET S : s \in B
  <2> HIDE DEF B
  <2> QED
    BY <1>1, SubsetInduction
<1> QED
  BY <1>2

\* A sum of nothing but 0 is 0.
LEMMA SumZero ==
  ASSUME NEW S, IsFiniteSet(S), NEW f, \A x \in S : f[x] = 0
  PROVE  Sum(f, S) = 0
<1> DEFINE B == {s \in SUBSET S : Sum(f, s) = 0}
<1>1. ASSUME NEW s \in SUBSET S, \A t \in SUBSET S : t \subseteq s /\ t # s => t \in B
      PROVE  Sum(f, s) = 0
  <2>0. IsFiniteSet(s)
    BY FS_Subset
  <2>1. CASE s = {}
    BY <2>1, SumEmpty
  <2>2. CASE s # {}
    <3>1. Chosen(s) \in S /\ Others(s) \subseteq s /\ Others(s) # s
      BY <2>2, ChosenFromSet
    <3>2. Sum(f, Others(s)) = 0
      BY <1>1, <3>1
    <3>3. Sum(f, s) = f[Chosen(s)] + Sum(f, Others(s))
      BY <2>0, <2>2, SumUnfolds
    <3> QED
      BY <3>1, <3>2, <3>3
  <2> QED
    BY <2>1, <2>2
<1>2. \A s \in SUBSET S : (\A t \in SUBSET S : t \subseteq s /\ t # s => t \in B) => s \in B
  BY <1>1
<1>3. \A s \in SUBSET S : s \in B
  <2> HIDE DEF B
  <2> QED
    BY <1>2, SubsetInduction
<1> QED
  BY <1>3

\* A sum of natural numbers is one.
LEMMA SumNatural ==
  ASSUME NEW S, IsFiniteSet(S), NEW f, \A x \in S : f[x] \in Nat
  PROVE  Sum(f, S) \in Nat
<1> DEFINE z == [x \in S |-> 0]
<1>4. Sum(z, S) = 0
  <2>1. \A x \in S : z[x] = 0
    OBVIOUS
  <2> HIDE DEF z
  <2> QED
    BY <2>1, SumZero
<1>5. Sum(f, S) \in Int
  BY SumType
<1>6. \A x \in S : z[x] \in Int /\ f[x] \in Int /\ z[x] <= f[x]
  OBVIOUS
<1> HIDE DEF z
<1>7. Sum(z, S) <= Sum(f, S)
  BY <1>6, SumMonotonic
<1> QED
  BY <1>4, <1>5, <1>7

-----------------------------------------------------------------------------
(* The greatest element *)

\* A finite set of integers has one.
LEMMA MaxExists ==
  ASSUME NEW S, IsFiniteSet(S), S \subseteq Int, S # {}
  PROVE  Max(S) \in S /\ \A y \in S : Max(S) >= y
<1> DEFINE B == {s \in SUBSET S : s # {} => \E x \in s : \A y \in s : x >= y}
<1>1. ASSUME NEW s \in SUBSET S, \A t \in SUBSET S : t \subseteq s /\ t # s => t \in B,
             s # {}
      PROVE  \E x \in s : \A y \in s : x >= y
  <2>1. Chosen(s) \in s /\ Others(s) \subseteq s /\ Others(s) # s
    BY <1>1, ChosenFromSet
  <2>2. s = Others(s) \cup {Chosen(s)}
    BY <2>1 DEF Others
  <2>3. CASE Others(s) = {}
    <3>1. s = {Chosen(s)} /\ Chosen(s) \in Int
      BY <2>1, <2>2, <2>3
    <3>2. \A n \in Int : n >= n
      OBVIOUS
    <3> QED
      BY <3>1, <3>2
  <2>4. CASE Others(s) # {}
    <3>1. PICK x \in Others(s) : \A y \in Others(s) : x >= y
      BY <1>1, <2>1, <2>4
    <3>2. x \in Int /\ Chosen(s) \in Int /\ \A y \in s : y \in Int
      BY <2>1, <3>1
    <3>3. CASE x >= Chosen(s)
      BY <2>1, <2>2, <3>1, <3>2, <3>3
    <3>4. CASE ~(x >= Chosen(s))
      BY <2>1, <2>2, <3>1, <3>2, <3>4
    <3> QED
      BY <3>3, <3>4
  <2> QED
    BY <2>3, <2>4
<1>2. \A s \in SUBSET S : (\A t \in SUBSET S : t \subseteq s /\ t # s => t \in B) => s \in B
  BY <1>1
<1>3. \A s \in SUBSET S : s \in B
  <2> HIDE DEF B
  <2> QED
    BY <1>2, SubsetInduction
<1>4. \E x \in S : \A y \in S : x >= y
  BY <1>3
<1> QED
  BY <1>4 DEF Max
=============================================================================
