--------------------------- MODULE StakingProofs ---------------------------
(***************************************************************************)
(* Proofs about Staking for every number of validators and delegators,     *)
(* every amount and every sequence of calls.                               *)
(*                                                                         *)
(* The first part is about sums: how SumFunction of the community modules  *)
(* changes with its function.                                              *)
(***************************************************************************)
EXTENDS Staking, FiniteSetTheorems, WellFoundedInduction, NaturalsInduction, TLAPS

---------------------------------------------------------------------------
\* Induction over the subsets of a finite set, for a property that is given as
\* the set P of the subsets that have it.

LEMMA LeastNatural ==
  ASSUME NEW T, T \subseteq Nat, T # {}
  PROVE  \E n \in T : \A m \in T : n <= m
<1> DEFINE R == OpToRel(<, Nat)
<1>1. IsWellFoundedOn(R, Nat)
  BY NatLessThanWellFounded
<1>2. PICK n \in T : \A m \in T : ~(<<m, n>> \in R)
  BY <1>1, WFMin
<1>3. \A m \in T : ~(m < n)
  BY <1>2 DEF OpToRel
<1> QED
  BY <1>3

LEMMA SubsetInduction ==
  ASSUME NEW S, IsFiniteSet(S), NEW P,
         \A T \in SUBSET S : (\A x \in T : T \ {x} \in P) => T \in P
  PROVE  \A T \in SUBSET S : T \in P
<1> DEFINE bad == {T \in SUBSET S : T \notin P}
           sizes == {n \in Nat : \E T \in bad : Cardinality(T) = n}
<1> SUFFICES ASSUME bad # {}
             PROVE  FALSE
  OBVIOUS
<1>1. \A T \in SUBSET S : IsFiniteSet(T) /\ Cardinality(T) \in Nat
  BY FS_Subset, FS_CardinalityType
<1>2. sizes # {}
  BY <1>1
<1>3. PICK n \in sizes : \A m \in sizes : n <= m
  BY <1>2, LeastNatural
<1>4. PICK T \in bad : Cardinality(T) = n
  BY <1>3
<1>5. PICK x \in T : T \ {x} \notin P
  BY <1>4
<1>6. /\ T \in SUBSET S /\ IsFiniteSet(T)
      /\ Cardinality(T \ {x}) = n - 1 /\ T \ {x} \in SUBSET S
  BY <1>1, <1>4, <1>5, FS_RemoveElement
<1>7. Cardinality(T \ {x}) \in Nat
  BY <1>1, <1>6
<1>8. n - 1 \in sizes
  BY <1>5, <1>6, <1>7
<1> QED
  BY <1>3, <1>8

---------------------------------------------------------------------------
\* SumFunctionOnSet folds over a set by taking an element that CHOOSE picks.

Pick(T) == CHOOSE x \in T : TRUE

SumStep(f, g, T) == IF T = {} THEN 0 ELSE f[Pick(T)] + g[T \ {Pick(T)}]

PartialSums(f, S, g) == g = [T \in SUBSET S |-> SumStep(f, g, T)]

LEMMA SumUnfolds ==
  \A f, S : SumFunctionOnSet(f, S) = (CHOOSE g : PartialSums(f, S, g))[S]
BY DEF SumFunctionOnSet, FoldFunctionOnSet, MapThenFoldSet, PartialSums, SumStep, Pick

LEMMA PickRemoves ==
  ASSUME NEW T, IsFiniteSet(T), T # {}
  PROVE  /\ Pick(T) \in T /\ IsFiniteSet(T \ {Pick(T)})
         /\ Cardinality(T \ {Pick(T)}) = Cardinality(T) - 1
<1>1. Pick(T) \in T
  BY DEF Pick
<1> QED
  BY <1>1, FS_RemoveElement

UpTo(S, n) == {T \in SUBSET S : Cardinality(T) <= n}

\* Partial sums of the subsets with at most n elements can be extended by one.
LEMMA PartialSumsGrow ==
  ASSUME NEW S, IsFiniteSet(S), NEW f, NEW n \in Nat, NEW g,
         g = [T \in UpTo(S, n) |-> SumStep(f, g, T)]
  PROVE  \E h : h = [T \in UpTo(S, n + 1) |-> SumStep(f, h, T)]
<1> DEFINE h == [T \in UpTo(S, n + 1) |-> SumStep(f, g, T)]
<1>1. \A T \in SUBSET S : IsFiniteSet(T) /\ Cardinality(T) \in Nat
  BY FS_Subset, FS_CardinalityType
<1>2. \A T \in UpTo(S, n) : T \in UpTo(S, n + 1) /\ g[T] = SumStep(f, g, T)
  BY <1>1 DEF UpTo
<1>3. \A T \in UpTo(S, n) : h[T] = g[T]
  BY <1>2
<1>4. ASSUME NEW T \in UpTo(S, n + 1), T # {}
      PROVE  T \ {Pick(T)} \in UpTo(S, n)
  <2>1. T \in SUBSET S /\ Cardinality(T) <= n + 1
    BY DEF UpTo
  <2>2. IsFiniteSet(T) /\ Cardinality(T) \in Nat
    BY <1>1, <2>1
  <2>3. Cardinality(T \ {Pick(T)}) = Cardinality(T) - 1
    BY <1>4, <2>2, PickRemoves
  <2> QED
    BY <2>1, <2>2, <2>3 DEF UpTo
<1> HIDE DEF h
<1>5. \A T \in UpTo(S, n + 1) : SumStep(f, g, T) = SumStep(f, h, T)
  BY <1>3, <1>4 DEF SumStep
<1>6. h = [T \in UpTo(S, n + 1) |-> SumStep(f, h, T)]
  BY <1>5 DEF h
<1> QED
  BY <1>6

LEMMA PartialSumsExist ==
  ASSUME NEW S, IsFiniteSet(S), NEW f
  PROVE  \E g : PartialSums(f, S, g)
<1> DEFINE have(n) == \E g : g = [T \in UpTo(S, n) |-> SumStep(f, g, T)]
           lack == {n \in Nat : ~have(n)}
<1>1. \A T \in SUBSET S : IsFiniteSet(T) /\ Cardinality(T) \in Nat
  BY FS_Subset, FS_CardinalityType
<1>2. have(0)
  <2> DEFINE g == [T \in UpTo(S, 0) |-> 0]
  <2>1. \A T \in UpTo(S, 0) : T = {}
    BY <1>1, FS_EmptySet DEF UpTo
  <2>2. g = [T \in UpTo(S, 0) |-> SumStep(f, g, T)]
    BY <2>1 DEF SumStep
  <2> QED
    BY <2>2
<1>3. \A n \in Nat : have(n) => have(n + 1)
  BY SMTT(30), PartialSumsGrow
<1> HIDE DEF have
<1>4. \A n \in Nat : have(n)
  <2> SUFFICES ASSUME lack # {}
               PROVE  FALSE
    OBVIOUS
  <2>1. PICK n \in lack : \A m \in lack : n <= m
    BY LeastNatural
  <2>2. n # 0 /\ n - 1 \in Nat /\ n - 1 \notin lack
    BY <1>2, <2>1
  <2>3. have((n - 1) + 1)
    BY <1>3, <2>2
  <2> QED
    BY <2>1, <2>3
<1>5. UpTo(S, Cardinality(S)) = SUBSET S
  BY <1>1, FS_Subset DEF UpTo
<1>6. have(Cardinality(S))
  BY <1>1, <1>4
<1>7. \E g : g = [T \in UpTo(S, Cardinality(S)) |-> SumStep(f, g, T)]
  BY <1>6 DEF have
<1> QED
  BY <1>5, <1>7 DEF PartialSums

LEMMA PartialSumsAgree ==
  ASSUME NEW S, IsFiniteSet(S), NEW T \in SUBSET S, NEW f, NEW g, NEW h,
         PartialSums(f, S, g), PartialSums(f, T, h)
  PROVE  g[T] = h[T]
<1> DEFINE P == {U \in SUBSET T : g[U] = h[U]}
<1>1. ASSUME NEW U \in SUBSET T, \A x \in U : U \ {x} \in P
      PROVE  U \in P
  <2>1. g[U] = SumStep(f, g, U) /\ h[U] = SumStep(f, h, U)
    BY DEF PartialSums
  <2>2. U # {} => Pick(U) \in U
    BY DEF Pick
  <2>3. U # {} => g[U \ {Pick(U)}] = h[U \ {Pick(U)}]
    BY <1>1, <2>2
  <2> QED
    BY <2>1, <2>3 DEF SumStep
<1>2. IsFiniteSet(T)
  BY FS_Subset
<1> HIDE DEF P
<1>3. T \in P
  BY <1>1, <1>2, SubsetInduction
<1> QED
  BY <1>3 DEF P

\* The sum over a set that is not empty is one of its values and the rest.
LEMMA SumEmpty == \A f : SumFunctionOnSet(f, {}) = 0
<1> SUFFICES ASSUME NEW f
             PROVE  SumFunctionOnSet(f, {}) = 0
  OBVIOUS
<1> DEFINE g == CHOOSE h : PartialSums(f, {}, h)
<1>1. IsFiniteSet({})
  BY FS_EmptySet
<1>2. PartialSums(f, {}, g)
  BY <1>1, PartialSumsExist
<1>3. SumFunctionOnSet(f, {}) = g[{}]
  BY SumUnfolds
<1> HIDE DEF g
<1>4. g[{}] = SumStep(f, g, {})
  BY <1>2 DEF PartialSums
<1> QED
  BY <1>3, <1>4 DEF SumStep

LEMMA SumPicks ==
  ASSUME NEW S, IsFiniteSet(S), S # {}, NEW f
  PROVE  SumFunctionOnSet(f, S) = f[Pick(S)] + SumFunctionOnSet(f, S \ {Pick(S)})
<1> DEFINE rest == S \ {Pick(S)}
           g == CHOOSE h : PartialSums(f, S, h)
           k == CHOOSE h : PartialSums(f, rest, h)
<1>1. IsFiniteSet(rest) /\ rest \in SUBSET S
  BY PickRemoves
<1>2. PartialSums(f, S, g) /\ PartialSums(f, rest, k)
  BY <1>1, PartialSumsExist
<1>3. SumFunctionOnSet(f, S) = g[S] /\ SumFunctionOnSet(f, rest) = k[rest]
  BY SumUnfolds
<1> HIDE DEF g, k
<1>4. g[rest] = k[rest]
  BY <1>1, <1>2, PartialSumsAgree
<1>5. g[S] = f[Pick(S)] + g[rest]
  BY <1>2 DEF PartialSums, SumStep
<1> QED
  BY <1>3, <1>4, <1>5

LEMMA SumIsInt ==
  ASSUME NEW S, IsFiniteSet(S), NEW f, \A x \in S : f[x] \in Int
  PROVE  \A T \in SUBSET S : SumFunctionOnSet(f, T) \in Int
<1> DEFINE P == {T \in SUBSET S : SumFunctionOnSet(f, T) \in Int}
<1>1. ASSUME NEW T \in SUBSET S, \A x \in T : T \ {x} \in P
      PROVE  T \in P
  <2>1. CASE T = {}
    BY <2>1, SumEmpty
  <2>2. CASE T # {}
    <3>1. IsFiniteSet(T)
      BY FS_Subset
    <3>2. /\ SumFunctionOnSet(f, T) = f[Pick(T)] + SumFunctionOnSet(f, T \ {Pick(T)})
          /\ Pick(T) \in T
      BY <2>2, <3>1, SumPicks, PickRemoves
    <3> QED
      BY <1>1, <3>2
  <2> QED
    BY <2>1, <2>2
<1> HIDE DEF P
<1>2. \A T \in SUBSET S : T \in P
  BY <1>1, SubsetInduction
<1> QED
  BY <1>2 DEF P

\* As SumPicks, for an element of choice.
LEMMA SumTakes ==
  ASSUME NEW S, IsFiniteSet(S), NEW f, \A x \in S : f[x] \in Int
  PROVE  \A T \in SUBSET S : \A x \in T :
           SumFunctionOnSet(f, T) = f[x] + SumFunctionOnSet(f, T \ {x})
<1> DEFINE P == {T \in SUBSET S : \A x \in T :
                   SumFunctionOnSet(f, T) = f[x] + SumFunctionOnSet(f, T \ {x})}
<1>1. ASSUME NEW T \in SUBSET S, \A x \in T : T \ {x} \in P, NEW x \in T
      PROVE  SumFunctionOnSet(f, T) = f[x] + SumFunctionOnSet(f, T \ {x})
  <2>1. IsFiniteSet(T) /\ T # {}
    BY FS_Subset
  <2>2. PICK p \in T : SumFunctionOnSet(f, T) = f[p] + SumFunctionOnSet(f, T \ {p})
    BY <2>1, SumPicks, PickRemoves
  <2>3. CASE p = x
    BY <2>2, <2>3
  <2>4. CASE p # x
    <3>1. SumFunctionOnSet(f, T \ {p}) = f[x] + SumFunctionOnSet(f, (T \ {p}) \ {x})
      BY <1>1, <2>4
    <3>2. (T \ {p}) \ {x} = (T \ {x}) \ {p} /\ (T \ {p}) \ {x} \in SUBSET S
      OBVIOUS
    <3>3. SumFunctionOnSet(f, T \ {x}) = f[p] + SumFunctionOnSet(f, (T \ {x}) \ {p})
      BY <1>1, <2>4
    <3> DEFINE R == SumFunctionOnSet(f, (T \ {p}) \ {x})
    <3>4. R \in Int /\ f[x] \in Int /\ f[p] \in Int
      BY <3>2, SumIsInt
    <3>5. SumFunctionOnSet(f, T \ {p}) = f[x] + R
      BY <3>1
    <3>6. SumFunctionOnSet(f, T \ {x}) = f[p] + R
      BY <3>2, <3>3
    <3> HIDE DEF R
    <3> QED
      BY ONLY <2>2, <3>4, <3>5, <3>6
  <2> QED
    BY <2>3, <2>4
<1>2. \A T \in SUBSET S : (\A x \in T : T \ {x} \in P) => T \in P
  BY <1>1
<1> HIDE DEF P
<1>3. \A T \in SUBSET S : T \in P
  BY <1>2, SubsetInduction
<1> QED
  BY <1>3 DEF P

---------------------------------------------------------------------------
\* SumFunction.

\* A sum with one element set apart.
LEMMA SumWithout ==
  ASSUME NEW S, IsFiniteSet(S), NEW f, \A x \in S : f[x] \in Int, NEW x \in S
  PROVE  /\ SumFunctionOnSet(f, S) = f[x] + SumFunctionOnSet(f, S \ {x})
         /\ SumFunctionOnSet(f, S \ {x}) \in Int /\ SumFunctionOnSet(f, S) \in Int
<1>1. S \in SUBSET S /\ S \ {x} \in SUBSET S
  OBVIOUS
<1> QED
  BY <1>1, SumTakes, SumIsInt

\* Linear combinations: the sum of f, h and c of each element.
LEMMA SumLinear ==
  ASSUME NEW S, IsFiniteSet(S), NEW f, NEW g, NEW h, NEW a \in Int,
         \A x \in S : f[x] \in Int /\ g[x] \in Int /\ h[x] = f[x] + a * g[x]
  PROVE  SumFunctionOnSet(h, S) = SumFunctionOnSet(f, S) + a * SumFunctionOnSet(g, S)
<1> DEFINE P == {T \in SUBSET S :
        SumFunctionOnSet(h, T) = SumFunctionOnSet(f, T) + a * SumFunctionOnSet(g, T)}
<1>1. ASSUME NEW T \in SUBSET S, \A x \in T : T \ {x} \in P
      PROVE  SumFunctionOnSet(h, T) = SumFunctionOnSet(f, T) + a * SumFunctionOnSet(g, T)
  <2>1. CASE T = {}
    <3>1. SumFunctionOnSet(h, T) = 0 /\ SumFunctionOnSet(f, T) = 0 /\ SumFunctionOnSet(g, T) = 0
      BY <2>1, SumEmpty
    <3> QED
      BY <3>1
  <2>2. CASE T # {}
    <3>1. PICK x \in T : TRUE
      BY <2>2
    <3>2. IsFiniteSet(T) /\ \A y \in T : f[y] \in Int /\ g[y] \in Int /\ h[y] \in Int
      BY FS_Subset
    <3> DEFINE F == SumFunctionOnSet(f, T \ {x})
               G == SumFunctionOnSet(g, T \ {x})
    <3>3. /\ SumFunctionOnSet(f, T) = f[x] + F /\ F \in Int
          /\ SumFunctionOnSet(g, T) = g[x] + G /\ G \in Int
          /\ SumFunctionOnSet(h, T) = h[x] + SumFunctionOnSet(h, T \ {x})
      BY <3>2, SumWithout
    <3>4. SumFunctionOnSet(h, T \ {x}) = F + a * G
      BY <1>1
    <3>5. f[x] \in Int /\ g[x] \in Int /\ h[x] = f[x] + a * g[x]
      OBVIOUS
    <3> HIDE DEF F, G
    <3>6. a * (g[x] + G) = a * g[x] + a * G /\ a * g[x] \in Int /\ a * G \in Int
      BY ONLY <3>3, <3>5, a \in Int
    <3> QED
      BY ONLY <3>3, <3>4, <3>5, <3>6
  <2> QED
    BY <2>1, <2>2
<1>2. \A T \in SUBSET S : (\A x \in T : T \ {x} \in P) => T \in P
  BY <1>1
<1> HIDE DEF P
<1>3. S \in SUBSET S /\ \A T \in SUBSET S : T \in P
  BY <1>2, SubsetInduction
<1> QED
  BY <1>3 DEF P

LEMMA SumMonotone ==
  ASSUME NEW S, IsFiniteSet(S), NEW f, NEW g,
         \A x \in S : f[x] \in Int /\ g[x] \in Int /\ f[x] <= g[x]
  PROVE  SumFunctionOnSet(f, S) <= SumFunctionOnSet(g, S)
<1> DEFINE P == {T \in SUBSET S : SumFunctionOnSet(f, T) <= SumFunctionOnSet(g, T)}
<1>1. ASSUME NEW T \in SUBSET S, \A x \in T : T \ {x} \in P
      PROVE  SumFunctionOnSet(f, T) <= SumFunctionOnSet(g, T)
  <2>1. CASE T = {}
    <3>1. SumFunctionOnSet(f, T) = 0 /\ SumFunctionOnSet(g, T) = 0
      BY <2>1, SumEmpty
    <3> QED
      BY <3>1
  <2>2. CASE T # {}
    <3>1. PICK x \in T : TRUE
      BY <2>2
    <3>2. IsFiniteSet(T) /\ \A y \in T : f[y] \in Int /\ g[y] \in Int
      BY FS_Subset
    <3> DEFINE F == SumFunctionOnSet(f, T \ {x})
               G == SumFunctionOnSet(g, T \ {x})
    <3>3. /\ SumFunctionOnSet(f, T) = f[x] + F /\ F \in Int
          /\ SumFunctionOnSet(g, T) = g[x] + G /\ G \in Int
      BY <3>2, SumWithout
    <3>4. F <= G
      BY <1>1
    <3>5. f[x] \in Int /\ g[x] \in Int /\ f[x] <= g[x]
      OBVIOUS
    <3> HIDE DEF F, G
    <3> QED
      BY ONLY <3>3, <3>4, <3>5
  <2> QED
    BY <2>1, <2>2
<1>2. \A T \in SUBSET S : (\A x \in T : T \ {x} \in P) => T \in P
  BY <1>1
<1> HIDE DEF P
<1>3. S \in SUBSET S /\ \A T \in SUBSET S : T \in P
  BY <1>2, SubsetInduction
<1> QED
  BY <1>3 DEF P

LEMMA SumConstant ==
  ASSUME NEW S, IsFiniteSet(S), NEW f, NEW c \in Int, \A x \in S : f[x] = c
  PROVE  SumFunctionOnSet(f, S) = c * Cardinality(S)
<1> DEFINE P == {T \in SUBSET S : SumFunctionOnSet(f, T) = c * Cardinality(T)}
<1>1. ASSUME NEW T \in SUBSET S, \A x \in T : T \ {x} \in P
      PROVE  SumFunctionOnSet(f, T) = c * Cardinality(T)
  <2>1. CASE T = {}
    <3>1. SumFunctionOnSet(f, T) = 0 /\ Cardinality(T) = 0
      BY <2>1, SumEmpty, FS_EmptySet
    <3> QED
      BY <3>1
  <2>2. CASE T # {}
    <3>1. PICK x \in T : TRUE
      BY <2>2
    <3>2. IsFiniteSet(T) /\ \A y \in T : f[y] \in Int
      BY FS_Subset
    <3>3. SumFunctionOnSet(f, T) = f[x] + SumFunctionOnSet(f, T \ {x})
      BY <3>2, SumWithout
    <3>4. Cardinality(T \ {x}) = Cardinality(T) - 1 /\ Cardinality(T) \in Nat
      BY <3>2, FS_RemoveElement, FS_CardinalityType
    <3>5. SumFunctionOnSet(f, T \ {x}) = c * Cardinality(T \ {x}) /\ f[x] = c
      BY <1>1
    <3>6. c * (Cardinality(T) - 1) = c * Cardinality(T) - c /\ c * Cardinality(T) \in Int
      BY ONLY <3>4, c \in Int
    <3> QED
      BY ONLY <3>3, <3>4, <3>5, <3>6, c \in Int
  <2> QED
    BY <2>1, <2>2
<1>2. \A T \in SUBSET S : (\A x \in T : T \ {x} \in P) => T \in P
  BY <1>1
<1> HIDE DEF P
<1>3. S \in SUBSET S /\ \A T \in SUBSET S : T \in P
  BY <1>2, SubsetInduction
<1> QED
  BY <1>3 DEF P

LEMMA SumType ==
  ASSUME NEW S, IsFiniteSet(S), NEW f \in [S -> Int]
  PROVE  SumFunction(f) = SumFunctionOnSet(f, S) /\ SumFunction(f) \in Int
<1>1. SumFunction(f) = SumFunctionOnSet(f, S)
  BY DEF SumFunction
<1>2. S \in SUBSET S /\ \A x \in S : f[x] \in Int
  OBVIOUS
<1> QED
  BY <1>1, <1>2, SumIsInt

LEMMA SumChangesAt ==
  ASSUME NEW S, IsFiniteSet(S), NEW f \in [S -> Int], NEW g \in [S -> Int], NEW x \in S,
         \A y \in S : y # x => g[y] = f[y]
  PROVE  SumFunction(g) = SumFunction(f) + (g[x] - f[x])
<1> DEFINE F == SumFunctionOnSet(f, S \ {x})
           G == SumFunctionOnSet(g, S \ {x})
<1>1. /\ \A y \in S : f[y] \in Int /\ g[y] \in Int
      /\ IsFiniteSet(S \ {x})
  BY FS_RemoveElement
<1>2. SumFunctionOnSet(f, S) = f[x] + F /\ F \in Int
  BY <1>1, SumWithout
<1>3. SumFunctionOnSet(g, S) = g[x] + G /\ G \in Int
  BY <1>1, SumWithout
<1>4. \A y \in S \ {x} : f[y] \in Int /\ g[y] \in Int /\ f[y] <= g[y] /\ g[y] <= f[y]
  BY <1>1
<1>5. F <= G /\ G <= F
  BY <1>1, <1>4, SumMonotone
<1>6. SumFunction(f) = SumFunctionOnSet(f, S) /\ SumFunction(g) = SumFunctionOnSet(g, S)
  BY SumType
<1>7. f[x] \in Int /\ g[x] \in Int
  OBVIOUS
<1> HIDE DEF F, G
<1> QED
  BY ONLY <1>2, <1>3, <1>5, <1>6, <1>7

LEMMA SumChangesAtTwo ==
  ASSUME NEW S, IsFiniteSet(S), NEW f \in [S -> Int], NEW g \in [S -> Int],
         NEW x \in S, NEW y \in S, x # y,
         \A z \in S : z # x /\ z # y => g[z] = f[z]
  PROVE  SumFunction(g) = SumFunction(f) + (g[x] - f[x]) + (g[y] - f[y])
<1> DEFINE h == [f EXCEPT ![x] = g[x]]
<1>1. h \in [S -> Int] /\ h[x] = g[x] /\ h[y] = f[y]
  OBVIOUS
<1>2. /\ \A z \in S : z # x => h[z] = f[z]
      /\ \A z \in S : z # y => g[z] = h[z]
  OBVIOUS
<1> HIDE DEF h
<1>3. SumFunction(h) = SumFunction(f) + (h[x] - f[x])
  BY <1>1, <1>2, SumChangesAt
<1>4. SumFunction(g) = SumFunction(h) + (g[y] - h[y])
  BY <1>1, <1>2, SumChangesAt
<1>5. SumFunction(f) \in Int /\ SumFunction(g) \in Int /\ SumFunction(h) \in Int
  BY <1>1, SumType
<1>6. f[x] \in Int /\ f[y] \in Int /\ g[x] \in Int /\ g[y] \in Int
  OBVIOUS
<1> QED
  BY ONLY <1>1, <1>3, <1>4, <1>5, <1>6

LEMMA SumOfZeros ==
  ASSUME NEW S, IsFiniteSet(S), NEW f \in [S -> Int], \A x \in S : f[x] = 0
  PROVE  SumFunction(f) = 0
<1>1. SumFunctionOnSet(f, S) = 0 * Cardinality(S)
  BY SumConstant
<1>2. Cardinality(S) \in Nat
  BY FS_CardinalityType
<1> QED
  BY <1>1, <1>2, SumType

LEMMA SumOfNaturals ==
  ASSUME NEW S, IsFiniteSet(S), NEW f \in [S -> Int], \A x \in S : f[x] >= 0
  PROVE  SumFunction(f) \in Nat /\ \A x \in S : f[x] <= SumFunction(f)
<1> DEFINE zero == [x \in S |-> 0]
<1>1. \A T \in SUBSET S : SumFunctionOnSet(f, T) >= 0 /\ SumFunctionOnSet(f, T) \in Int
  <2> SUFFICES ASSUME NEW T \in SUBSET S
               PROVE  SumFunctionOnSet(f, T) >= 0 /\ SumFunctionOnSet(f, T) \in Int
    OBVIOUS
  <2>1. IsFiniteSet(T) /\ Cardinality(T) \in Nat
    BY FS_Subset, FS_CardinalityType
  <2>2. \A x \in T : zero[x] = 0 /\ f[x] \in Int /\ zero[x] <= f[x]
    OBVIOUS
  <2> HIDE DEF zero
  <2>3. SumFunctionOnSet(zero, T) = 0 * Cardinality(T)
    BY <2>1, <2>2, SumConstant
  <2>4. SumFunctionOnSet(zero, T) <= SumFunctionOnSet(f, T)
    <3>1. \A x \in T : zero[x] \in Int /\ f[x] \in Int /\ zero[x] <= f[x]
      BY <2>2
    <3> QED
      BY <2>1, <3>1, SumMonotone
  <2>5. SumFunctionOnSet(f, T) \in Int
    BY SumIsInt
  <2> QED
    BY <2>1, <2>3, <2>4, <2>5
<1>2. SumFunction(f) = SumFunctionOnSet(f, S) /\ S \in SUBSET S
  BY SumType
<1>3. ASSUME NEW x \in S
      PROVE  f[x] <= SumFunction(f)
  <2>1. SumFunctionOnSet(f, S) = f[x] + SumFunctionOnSet(f, S \ {x})
    BY SumWithout
  <2>2. SumFunctionOnSet(f, S \ {x}) >= 0 /\ SumFunctionOnSet(f, S \ {x}) \in Int
    BY <1>1
  <2> QED
    BY <1>2, <2>1, <2>2
<1> QED
  BY <1>1, <1>2, <1>3

\* A division that rounds down, for a positive divisor.
LEMMA FloorDivBounds ==
  ASSUME NEW a \in Int, NEW b \in Nat \ {0}
  PROVE  /\ FloorDiv(a, b) \in Int
         /\ b * FloorDiv(a, b) <= a /\ a < b * FloorDiv(a, b) + b
BY DEF FloorDiv

LEMMA FloorDivIsInt ==
  ASSUME NEW a \in Int, NEW b \in Int, b # 0
  PROVE  FloorDiv(a, b) \in Int
BY DEF FloorDiv

LEMMA ProductOrder ==
  ASSUME NEW a \in Int, NEW b \in Int, NEW c \in Nat, a <= b
  PROVE  /\ a * c <= b * c /\ c * a <= c * b
         /\ a * c \in Int /\ b * c \in Int /\ c * a \in Int /\ c * b \in Int
OBVIOUS

LEMMA ProductCancels ==
  ASSUME NEW a \in Int, NEW b \in Int, NEW c \in Nat \ {0}
  PROVE  /\ c * a <= c * b => a <= b
         /\ c * a < c * b => a < b
OBVIOUS

\* A part of what is not negative is at most that; the part itself may be negative.
LEMMA PartBounds ==
  ASSUME NEW a \in Nat, NEW part \in Int, NEW whole \in Nat \ {0}, part <= whole
  PROVE  FloorDiv(a * part, whole) \in Int /\ FloorDiv(a * part, whole) <= a
<1>1. a * part \in Int /\ a * part <= a * whole
  BY ProductOrder
<1>2. PICK q \in Int : q = FloorDiv(a * part, whole) /\ whole * q <= a * part
  <2>1. FloorDiv(a * part, whole) \in Int /\ whole * FloorDiv(a * part, whole) <= a * part
    BY <1>1, FloorDivBounds
  <2> QED
    BY ONLY <2>1
<1>3. whole * q <= whole * a
  BY <1>1, <1>2
<1>4. q <= a
  BY <1>3, ProductCancels
<1> QED
  BY <1>2, <1>4

LEMMA FloorDivOfZero ==
  ASSUME NEW b \in Nat \ {0}
  PROVE  FloorDiv(0, b) = 0
<1>1. PICK q \in Int : q = FloorDiv(0, b) /\ b * q <= 0 /\ 0 < b * q + b
  <2>1. /\ FloorDiv(0, b) \in Int /\ b * FloorDiv(0, b) <= 0
        /\ 0 < b * FloorDiv(0, b) + b
    BY FloorDivBounds
  <2> QED
    BY ONLY <2>1
<1>2. b * q <= b * 0 /\ b * 0 < b * (q + 1)
  BY <1>1
<1>3. q <= 0 /\ 0 < q + 1
  BY <1>2, ProductCancels
<1> QED
  BY <1>1, <1>3

---------------------------------------------------------------------------
\* Types of the pool.

ValidatorRecord == [status : {"none", "active", "jailed"}, self : Nat,
                    delegated : Int, until : Nat, commission : Commission \cup {0},
                    rewards : Int, slashes : Nat]
DelegationRecord == [amount : Int, shares : Int, unbonding : Int,
                     completion : Nat, rewards : Int]

BooksOK ==
  /\ validators \in [Validator -> ValidatorRecord]
  /\ delegations \in [Delegator -> [Validator -> DelegationRecord]]

CountersOK ==
  /\ totalStaked \in Int /\ totalShares \in Int /\ totalRewards \in Nat
  /\ now \in 0 .. MaxNow /\ rounds \in 0 .. MaxDistributions
  /\ deposited \in 0 .. MaxDeposit /\ withdrawn \in Int
  /\ slashed \in Int /\ claimed \in Int /\ overcommitted \in BOOLEAN

LEMMA TypeSplits == StakingTypeOK <=> BooksOK /\ CountersOK
BY DEF StakingTypeOK, BooksOK, CountersOK, ValidatorRecord, DelegationRecord

\* What the types say of the fields of one validator and one delegation.
LEMMA FieldTypes ==
  ASSUME BooksOK, NEW v \in Validator
  PROVE  /\ validators[v] \in ValidatorRecord
         /\ validators[v].self \in Nat /\ validators[v].delegated \in Int
         /\ validators[v].until \in Nat /\ validators[v].rewards \in Int
         /\ validators[v].slashes \in Nat
         /\ validators[v].commission \in Int /\ validators[v].commission <= BASIS_POINTS
         /\ TotalStake(v) \in Int
         /\ \A d \in Delegator :
              /\ delegations[d][v] \in DelegationRecord
              /\ delegations[d][v].amount \in Int /\ delegations[d][v].shares \in Int
              /\ delegations[d][v].unbonding \in Int /\ delegations[d][v].completion \in Nat
              /\ delegations[d][v].rewards \in Int
<1>1. validators[v] \in ValidatorRecord
  BY DEF BooksOK
<1>2. /\ validators[v].self \in Nat /\ validators[v].delegated \in Int
      /\ validators[v].until \in Nat /\ validators[v].rewards \in Int
      /\ validators[v].slashes \in Nat /\ validators[v].commission \in Commission \cup {0}
  BY <1>1 DEF ValidatorRecord
<1>3. validators[v].commission \in Int /\ validators[v].commission <= BASIS_POINTS
  <2>1. 0 <= BASIS_POINTS /\ \A c \in Commission : c \in Int /\ c <= BASIS_POINTS
    BY StakingAssumption
  <2>2. validators[v].commission \in Commission \/ validators[v].commission = 0
    BY <1>2
  <2> QED
    BY ONLY <2>1, <2>2
<1>4. \A d \in Delegator : delegations[d][v] \in DelegationRecord
  BY DEF BooksOK
<1>5. \A d \in Delegator :
        /\ delegations[d][v].amount \in Int /\ delegations[d][v].shares \in Int
        /\ delegations[d][v].unbonding \in Int /\ delegations[d][v].completion \in Nat
        /\ delegations[d][v].rewards \in Int
  BY <1>4 DEF DelegationRecord
<1>6. TotalStake(v) \in Int
  BY <1>2 DEF TotalStake
<1> QED
  BY <1>1, <1>2, <1>3, <1>4, <1>5, <1>6

LEMMA SharesAreInt ==
  ASSUME BooksOK, NEW v \in Validator
  PROVE  TotalShares(v) \in Int /\ Delegated(v) \in Int
<1>1. [d \in Delegator |-> delegations[d][v].shares] \in [Delegator -> Int]
  BY FieldTypes
<1>2. [d \in Delegator |-> delegations[d][v].amount] \in [Delegator -> Int]
  BY FieldTypes
<1> QED
  BY <1>1, <1>2, SumType, StakingAssumption DEF TotalShares, Delegated

\* What a step of one delegator at one validator writes.
LEMMA DelegationWritten ==
  ASSUME BooksOK, NEW d \in Delegator, NEW v \in Validator, NEW new \in DelegationRecord,
         delegations' = [delegations EXCEPT ![d][v] = new]
  PROVE  /\ delegations' \in [Delegator -> [Validator -> DelegationRecord]]
         /\ delegations'[d][v] = new
         /\ \A c \in Delegator, w \in Validator :
              c # d \/ w # v => delegations'[c][w] = delegations[c][w]
BY DEF BooksOK

LEMMA ValidatorWritten ==
  ASSUME BooksOK, NEW v \in Validator, NEW new \in ValidatorRecord,
         validators' = [validators EXCEPT ![v] = new]
  PROVE  /\ validators' \in [Validator -> ValidatorRecord]
         /\ validators'[v] = new
         /\ \A w \in Validator : w # v => validators'[w] = validators[w]
BY DEF BooksOK

DelegatedMoves(v, amount) ==
  /\ validators'[v].delegated = validators[v].delegated + amount
  /\ validators'[v].status = validators[v].status
  /\ validators'[v].self = validators[v].self
  /\ validators'[v].rewards = validators[v].rewards
  /\ validators'[v].slashes = validators[v].slashes

\* The effect of a change of one delegation and its validator's delegated stake,
\* which delegate, undelegate and compound_rewards make.
DelegationMoves(d, v, amount, shares, unbonding, rewards) ==
  /\ delegations' \in [Delegator -> [Validator -> DelegationRecord]]
  /\ delegations'[d][v].amount = delegations[d][v].amount + amount
  /\ delegations'[d][v].shares = delegations[d][v].shares + shares
  /\ delegations'[d][v].unbonding = delegations[d][v].unbonding + unbonding
  /\ delegations'[d][v].rewards = rewards
  /\ \A c \in Delegator, w \in Validator :
       c # d \/ w # v => delegations'[c][w] = delegations[c][w]
  /\ validators' \in [Validator -> ValidatorRecord]
  /\ DelegatedMoves(v, amount)
  /\ \A w \in Validator : w # v => validators'[w] = validators[w]

LEMMA SharesForIsInt ==
  ASSUME BooksOK, NEW v \in Validator, NEW amount \in Int
  PROVE  SharesFor(v, amount) \in Int
<1>1. TotalShares(v) \in Int /\ validators[v].delegated \in Int
  BY SharesAreInt, FieldTypes
<1>2. amount * TotalShares(v) \in Int
  BY <1>1
<1> QED
  BY <1>1, <1>2, FloorDivIsInt DEF SharesFor

LEMMA SharesOfIsInt ==
  ASSUME BooksOK, NEW d \in Delegator, NEW v \in Validator, NEW amount \in Int,
         delegations[d][v].amount # 0
  PROVE  SharesOf(d, v, amount) \in Int
<1>1. delegations[d][v].shares \in Int /\ delegations[d][v].amount \in Int
  BY FieldTypes
<1>2. amount * delegations[d][v].shares \in Int
  BY <1>1
<1> QED
  BY <1>1, <1>2, FloorDivIsInt DEF SharesOf

LEMMA DelegatedWritten ==
  ASSUME BooksOK, NEW v \in Validator, NEW amount \in Int,
         validators' = [validators EXCEPT ![v].delegated = @ + amount]
  PROVE  /\ validators' \in [Validator -> ValidatorRecord]
         /\ DelegatedMoves(v, amount)
         /\ \A w \in Validator : w # v => validators'[w] = validators[w]
<1> DEFINE old == validators[v]
           new == [old EXCEPT !.delegated = @ + amount]
<1>1. old \in ValidatorRecord /\ old.delegated + amount \in Int
  BY FieldTypes
<1>2. validators' = [validators EXCEPT ![v] = new]
  BY DEF BooksOK
<1>3. /\ new \in ValidatorRecord /\ new.delegated = old.delegated + amount
      /\ new.status = old.status /\ new.self = old.self
      /\ new.rewards = old.rewards /\ new.slashes = old.slashes
  <2> HIDE DEF old
  <2> QED
    BY ONLY <1>1 DEF ValidatorRecord
<1> HIDE DEF new
<1>4. /\ validators' \in [Validator -> ValidatorRecord] /\ validators'[v] = new
      /\ \A w \in Validator : w # v => validators'[w] = validators[w]
  BY <1>2, <1>3, ValidatorWritten
<1> QED
  BY <1>3, <1>4 DEF DelegatedMoves

LEMMA AddDelegationMoves ==
  ASSUME BooksOK, NEW d \in Delegator, NEW v \in Validator, NEW amount \in Int,
         NEW rewards \in Int, AddDelegation(d, v, amount, rewards)
  PROVE  DelegationMoves(d, v, amount, SharesFor(v, amount), 0, rewards)
<1> DEFINE shares == SharesFor(v, amount)
           old == delegations[d][v]
           new == [old EXCEPT !.amount = @ + amount, !.shares = @ + shares,
                              !.rewards = rewards]
<1>1. /\ old \in DelegationRecord /\ old.amount \in Int /\ old.shares \in Int
      /\ old.unbonding \in Int
  BY FieldTypes
<1>2. old.amount + amount \in Int /\ old.shares + shares \in Int
  BY <1>1, SharesForIsInt
<1>3. delegations' = [delegations EXCEPT ![d][v] = new]
  BY DEF AddDelegation
<1>4. validators' = [validators EXCEPT ![v].delegated = @ + amount]
  BY DEF AddDelegation
<1>5. /\ new \in DelegationRecord /\ new.amount = old.amount + amount
      /\ new.shares = old.shares + shares /\ new.unbonding = old.unbonding
      /\ new.rewards = rewards
  <2> HIDE DEF shares, old
  <2> QED
    BY ONLY <1>1, <1>2, rewards \in Int DEF DelegationRecord
<1> HIDE DEF shares, old, new
<1>6. /\ delegations' \in [Delegator -> [Validator -> DelegationRecord]]
      /\ delegations'[d][v] = new
      /\ \A c \in Delegator, w \in Validator :
           c # d \/ w # v => delegations'[c][w] = delegations[c][w]
  BY ZenonT(30), <1>3, <1>5, DelegationWritten
<1>7. /\ validators' \in [Validator -> ValidatorRecord]
      /\ DelegatedMoves(v, amount)
      /\ \A w \in Validator : w # v => validators'[w] = validators[w]
  <2>1. amount \in Int
    OBVIOUS
  <2> QED
    BY ONLY <1>4, <2>1, BooksOK, v \in Validator, DelegatedWritten
<1>8. new.unbonding = old.unbonding + 0
  BY <1>1, <1>5
<1> QED
  BY ONLY <1>5, <1>6, <1>7, <1>8 DEF DelegationMoves, shares, old

LEMMA UndelegateMoves ==
  ASSUME BooksOK, now \in Nat, NEW d \in Delegator, NEW v \in Validator, NEW amount \in Amount,
         Undelegate(d, v, amount)
  PROVE  /\ DelegationMoves(d, v, -amount, -SharesOf(d, v, amount), amount,
                            delegations[d][v].rewards)
         /\ delegations[d][v].amount # 0 /\ SharesOf(d, v, amount) \in Int /\ amount \in Int
<1> DEFINE shares == SharesOf(d, v, amount)
           old == delegations[d][v]
           new == [old EXCEPT !.amount = @ - amount, !.shares = @ - shares,
                     !.unbonding = @ + amount, !.completion = now + UnbondingPeriod]
<1>1. /\ old \in DelegationRecord /\ old.amount \in Int /\ old.shares \in Int
      /\ old.unbonding \in Int /\ old.rewards \in Int
  BY FieldTypes
<1>2. amount \in Int /\ old.amount # 0 /\ UnbondingPeriod \in Nat
  BY StakingAssumption DEF Undelegate
<1>3. shares \in Int /\ old.amount # 0
  BY <1>1, <1>2, SharesOfIsInt
<1>4. /\ old.amount - amount \in Int /\ old.shares - shares \in Int
      /\ old.unbonding + amount \in Int /\ now + UnbondingPeriod \in Nat
  BY <1>1, <1>2, <1>3
<1>5. delegations' = [delegations EXCEPT ![d][v] = new]
  BY DEF Undelegate
<1>6. validators' = [validators EXCEPT ![v].delegated = @ - amount]
  BY DEF Undelegate
<1>7. /\ new \in DelegationRecord /\ new.amount = old.amount - amount
      /\ new.shares = old.shares - shares /\ new.unbonding = old.unbonding + amount
      /\ new.rewards = old.rewards
  <2> HIDE DEF shares, old
  <2> QED
    BY ONLY <1>1, <1>4 DEF DelegationRecord
<1> HIDE DEF shares, old, new
<1>8. /\ new.amount = old.amount + (-amount) /\ new.shares = old.shares + (-shares)
      /\ -amount \in Int
  BY <1>1, <1>2, <1>3, <1>7
<1>9. /\ delegations' \in [Delegator -> [Validator -> DelegationRecord]]
      /\ delegations'[d][v] = new
      /\ \A c \in Delegator, w \in Validator :
           c # d \/ w # v => delegations'[c][w] = delegations[c][w]
  BY ZenonT(30), <1>5, <1>7, DelegationWritten
<1>10. validators' = [validators EXCEPT ![v].delegated = @ + (-amount)]
  <2>1. validators[v].delegated \in Int
    BY FieldTypes
  <2>2. validators[v].delegated - amount = validators[v].delegated + (-amount)
    BY <1>2, <2>1
  <2> QED
    BY <1>6, <2>2
<1>11. /\ validators' \in [Validator -> ValidatorRecord]
       /\ DelegatedMoves(v, -amount)
       /\ \A w \in Validator : w # v => validators'[w] = validators[w]
  BY ONLY <1>8, <1>10, BooksOK, v \in Validator, DelegatedWritten
<1>12. DelegationMoves(d, v, -amount, -shares, amount, old.rewards)
  BY ONLY <1>7, <1>8, <1>9, <1>11 DEF DelegationMoves, old
<1> QED
  BY <1>2, <1>3, <1>12 DEF shares, old

\* A step of one delegation that leaves the validators alone.
LEMMA OnlyDelegationMoves ==
  ASSUME BooksOK, NEW d \in Delegator, NEW v \in Validator, NEW new \in DelegationRecord,
         delegations' = [delegations EXCEPT ![d][v] = new], validators' = validators,
         new.amount = delegations[d][v].amount, new.shares = delegations[d][v].shares,
         NEW unbonding \in Int, new.unbonding = delegations[d][v].unbonding + unbonding
  PROVE  DelegationMoves(d, v, 0, 0, unbonding, new.rewards)
<1>1. /\ delegations' \in [Delegator -> [Validator -> DelegationRecord]]
      /\ delegations'[d][v] = new
      /\ \A c \in Delegator, w \in Validator :
           c # d \/ w # v => delegations'[c][w] = delegations[c][w]
  BY ZenonT(30), DelegationWritten
<1>2. validators[v].delegated = validators[v].delegated + 0
  BY FieldTypes
<1>3. /\ new.amount = delegations[d][v].amount + 0
      /\ new.shares = delegations[d][v].shares + 0
  BY FieldTypes
<1>4. validators \in [Validator -> ValidatorRecord]
  BY DEF BooksOK
<1> QED
  BY <1>1, <1>2, <1>3, <1>4 DEF DelegationMoves, DelegatedMoves

LEMMA WithdrawMoves ==
  ASSUME BooksOK, NEW d \in Delegator, NEW v \in Validator, WithdrawUnbonded(d, v)
  PROVE  DelegationMoves(d, v, 0, 0, -delegations[d][v].unbonding, delegations[d][v].rewards)
<1> DEFINE old == delegations[d][v]
           new == [old EXCEPT !.unbonding = 0, !.completion = 0]
<1>1. old \in DelegationRecord /\ old.unbonding \in Int
  BY FieldTypes
<1>2. delegations' = [delegations EXCEPT ![d][v] = new] /\ validators' = validators
  BY DEF WithdrawUnbonded
<1>3. /\ new \in DelegationRecord /\ new.amount = old.amount /\ new.shares = old.shares
      /\ new.unbonding = 0 /\ new.rewards = old.rewards
  <2>1. 0 \in Int /\ 0 \in Nat
    OBVIOUS
  <2> HIDE DEF old
  <2> QED
    BY ONLY <1>1, <2>1 DEF DelegationRecord
<1> HIDE DEF new
<1>4. -old.unbonding \in Int /\ new.unbonding = old.unbonding + (-old.unbonding)
  BY <1>1, <1>3
<1>5. DelegationMoves(d, v, 0, 0, -old.unbonding, new.rewards)
  BY ONLY <1>2, <1>3, <1>4, OnlyDelegationMoves, BooksOK, d \in Delegator, v \in Validator
     DEF old
<1> QED
  BY <1>3, <1>5

\* Claiming one delegation, or all of one delegator: a function whose rewards are
\* reset at the claimed places.
LEMMA ClaimResets ==
  ASSUME BooksOK, NEW d \in Delegator, NEW vs \in SUBSET Validator, Claim(d, vs)
  PROVE  /\ delegations' \in [Delegator -> [Validator -> DelegationRecord]]
         /\ \A v \in Validator :
              /\ delegations'[d][v].amount = delegations[d][v].amount
              /\ delegations'[d][v].shares = delegations[d][v].shares
              /\ delegations'[d][v].unbonding = delegations[d][v].unbonding
              /\ delegations'[d][v].rewards
                   = IF v \in vs THEN 0 ELSE delegations[d][v].rewards
         /\ \A v \in Validator \ vs : delegations'[d][v] = delegations[d][v]
         /\ \A c \in Delegator \ {d} : delegations'[c] = delegations[c]
<1> DEFINE reset(v) == [delegations[d][v] EXCEPT !.rewards = 0]
           row == [v \in Validator |-> IF v \in vs THEN reset(v) ELSE delegations[d][v]]
<1>1. delegations' = [delegations EXCEPT ![d] = row]
  BY DEF Claim
<1>2. ASSUME NEW v \in Validator
      PROVE  /\ reset(v) \in DelegationRecord
             /\ reset(v).amount = delegations[d][v].amount
             /\ reset(v).shares = delegations[d][v].shares
             /\ reset(v).unbonding = delegations[d][v].unbonding
             /\ reset(v).rewards = 0
  <2> DEFINE old == delegations[d][v]
  <2>1. old \in DelegationRecord
    BY FieldTypes
  <2> HIDE DEF old
  <2>2. LET new == [old EXCEPT !.rewards = 0]
        IN  /\ new \in DelegationRecord /\ new.amount = old.amount
            /\ new.shares = old.shares /\ new.unbonding = old.unbonding /\ new.rewards = 0
    BY ONLY <2>1 DEF DelegationRecord
  <2> QED
    BY <2>2 DEF old
<1> HIDE DEF reset
<1>3. \A v \in Validator : delegations[d][v] \in DelegationRecord
  BY FieldTypes
<1>4. row \in [Validator -> DelegationRecord]
  BY <1>2, <1>3
<1>5. /\ delegations' \in [Delegator -> [Validator -> DelegationRecord]]
      /\ delegations'[d] = row
      /\ \A c \in Delegator \ {d} : delegations'[c] = delegations[c]
  <2> HIDE DEF row
  <2> QED
    BY <1>1, <1>4 DEF BooksOK
<1> QED
  BY <1>2, <1>5

---------------------------------------------------------------------------
\* The sums of the books, as operators of the two functions.

Books == [Delegator -> [Validator -> DelegationRecord]]
Register == [Validator -> ValidatorRecord]

Shares(dels, v) == SumFunction([d \in Delegator |-> dels[d][v].shares])
Amounts(dels, v) == SumFunction([d \in Delegator |-> dels[d][v].amount])
Credited(dels, v) == SumFunction([d \in Delegator |-> dels[d][v].rewards])
Unbonding(dels, d) == SumFunction([v \in Validator |-> dels[d][v].unbonding])

AllShares(dels) == SumFunction([v \in Validator |-> Shares(dels, v)])
AllUnbonding(dels) == SumFunction([d \in Delegator |-> Unbonding(dels, d)])
AllStake(vals) == SumFunction([v \in Validator |-> vals[v].self + vals[v].delegated])
AllRewards(vals, dels) ==
  SumFunction([v \in Validator |-> vals[v].rewards + Credited(dels, v)])

LEMMA RecordFields ==
  /\ \A r \in DelegationRecord : /\ r.amount \in Int /\ r.shares \in Int
                                 /\ r.unbonding \in Int /\ r.rewards \in Int
                                 /\ r.completion \in Nat
  /\ \A r \in ValidatorRecord : /\ r.self \in Nat /\ r.delegated \in Int
                                /\ r.rewards \in Int /\ r.slashes \in Nat
BY DEF DelegationRecord, ValidatorRecord

\* What each sum is a sum of.
LEMMA Summands ==
  ASSUME NEW dels \in Books, NEW vals \in Register
  PROVE  /\ \A v \in Validator :
              /\ [d \in Delegator |-> dels[d][v].shares] \in [Delegator -> Int]
              /\ [d \in Delegator |-> dels[d][v].amount] \in [Delegator -> Int]
              /\ [d \in Delegator |-> dels[d][v].rewards] \in [Delegator -> Int]
              /\ Shares(dels, v) \in Int /\ Amounts(dels, v) \in Int
              /\ Credited(dels, v) \in Int
         /\ \A d \in Delegator :
              /\ [v \in Validator |-> dels[d][v].unbonding] \in [Validator -> Int]
              /\ Unbonding(dels, d) \in Int
         /\ [v \in Validator |-> Shares(dels, v)] \in [Validator -> Int]
         /\ [d \in Delegator |-> Unbonding(dels, d)] \in [Delegator -> Int]
         /\ [v \in Validator |-> vals[v].self + vals[v].delegated] \in [Validator -> Int]
         /\ [v \in Validator |-> vals[v].rewards + Credited(dels, v)] \in [Validator -> Int]
         /\ AllShares(dels) \in Int /\ AllUnbonding(dels) \in Int
         /\ AllStake(vals) \in Int /\ AllRewards(vals, dels) \in Int
<1>1. \A d \in Delegator, v \in Validator :
        /\ dels[d][v].shares \in Int /\ dels[d][v].amount \in Int
        /\ dels[d][v].rewards \in Int /\ dels[d][v].unbonding \in Int
  BY RecordFields DEF Books
<1>2. \A v \in Validator : /\ vals[v].self + vals[v].delegated \in Int
                           /\ vals[v].rewards \in Int
  BY RecordFields DEF Register
<1>3. /\ \A v \in Validator :
           /\ [d \in Delegator |-> dels[d][v].shares] \in [Delegator -> Int]
           /\ [d \in Delegator |-> dels[d][v].amount] \in [Delegator -> Int]
           /\ [d \in Delegator |-> dels[d][v].rewards] \in [Delegator -> Int]
      /\ \A d \in Delegator : [v \in Validator |-> dels[d][v].unbonding] \in [Validator -> Int]
  BY <1>1
<1>4. /\ \A v \in Validator : /\ Shares(dels, v) \in Int /\ Amounts(dels, v) \in Int
                              /\ Credited(dels, v) \in Int
      /\ \A d \in Delegator : Unbonding(dels, d) \in Int
  BY <1>3, SumType, StakingAssumption DEF Shares, Amounts, Credited, Unbonding
<1>5. /\ [v \in Validator |-> Shares(dels, v)] \in [Validator -> Int]
      /\ [d \in Delegator |-> Unbonding(dels, d)] \in [Delegator -> Int]
      /\ [v \in Validator |-> vals[v].self + vals[v].delegated] \in [Validator -> Int]
      /\ [v \in Validator |-> vals[v].rewards + Credited(dels, v)] \in [Validator -> Int]
  BY <1>2, <1>4
<1>6. /\ AllShares(dels) \in Int /\ AllUnbonding(dels) \in Int
      /\ AllStake(vals) \in Int /\ AllRewards(vals, dels) \in Int
  BY <1>5, SumType, StakingAssumption DEF AllShares, AllUnbonding, AllStake, AllRewards
<1> QED
  BY <1>3, <1>4, <1>5, <1>6

\* How the sums change with one delegation.
LEMMA OneDelegation ==
  ASSUME NEW dels \in Books, NEW more \in Books, NEW vals \in Register,
         NEW d \in Delegator, NEW v \in Validator,
         \A c \in Delegator, w \in Validator : c # d \/ w # v => more[c][w] = dels[c][w]
  PROVE  /\ Amounts(more, v) = Amounts(dels, v) + (more[d][v].amount - dels[d][v].amount)
         /\ \A w \in Validator : w # v => Amounts(more, w) = Amounts(dels, w)
         /\ AllShares(more) = AllShares(dels) + (more[d][v].shares - dels[d][v].shares)
         /\ AllUnbonding(more)
              = AllUnbonding(dels) + (more[d][v].unbonding - dels[d][v].unbonding)
         /\ AllRewards(vals, more)
              = AllRewards(vals, dels) + (more[d][v].rewards - dels[d][v].rewards)
<1>1. ASSUME NEW w \in Validator, w # v
      PROVE  /\ Amounts(more, w) = Amounts(dels, w) /\ Shares(more, w) = Shares(dels, w)
             /\ Credited(more, w) = Credited(dels, w)
  <2>1. \A c \in Delegator : more[c][w] = dels[c][w]
    BY <1>1
  <2>2. /\ [c \in Delegator |-> more[c][w].amount] = [c \in Delegator |-> dels[c][w].amount]
        /\ [c \in Delegator |-> more[c][w].shares] = [c \in Delegator |-> dels[c][w].shares]
        /\ [c \in Delegator |-> more[c][w].rewards] = [c \in Delegator |-> dels[c][w].rewards]
    BY <2>1
  <2> QED
    BY <2>2 DEF Amounts, Shares, Credited
<1>2. \A c \in Delegator : c # d => more[c][v] = dels[c][v]
  OBVIOUS
<1>3. Amounts(more, v) = Amounts(dels, v) + (more[d][v].amount - dels[d][v].amount)
  <2> DEFINE f == [c \in Delegator |-> dels[c][v].amount]
             g == [c \in Delegator |-> more[c][v].amount]
  <2>1. /\ f \in [Delegator -> Int] /\ g \in [Delegator -> Int]
        /\ \A c \in Delegator : c # d => g[c] = f[c]
        /\ g[d] = more[d][v].amount /\ f[d] = dels[d][v].amount
    BY <1>2, Summands
  <2> HIDE DEF f, g
  <2>2. SumFunction(g) = SumFunction(f) + (g[d] - f[d])
    BY ONLY <2>1, SumChangesAt, StakingAssumption, d \in Delegator
  <2> QED
    BY <2>1, <2>2 DEF Amounts, f, g
<1>4. Shares(more, v) = Shares(dels, v) + (more[d][v].shares - dels[d][v].shares)
  <2> DEFINE f == [c \in Delegator |-> dels[c][v].shares]
             g == [c \in Delegator |-> more[c][v].shares]
  <2>1. /\ f \in [Delegator -> Int] /\ g \in [Delegator -> Int]
        /\ \A c \in Delegator : c # d => g[c] = f[c]
        /\ g[d] = more[d][v].shares /\ f[d] = dels[d][v].shares
    BY <1>2, Summands
  <2> HIDE DEF f, g
  <2>2. SumFunction(g) = SumFunction(f) + (g[d] - f[d])
    BY ONLY <2>1, SumChangesAt, StakingAssumption, d \in Delegator
  <2> QED
    BY <2>1, <2>2 DEF Shares, f, g
<1>5. Credited(more, v) = Credited(dels, v) + (more[d][v].rewards - dels[d][v].rewards)
  <2> DEFINE f == [c \in Delegator |-> dels[c][v].rewards]
             g == [c \in Delegator |-> more[c][v].rewards]
  <2>1. /\ f \in [Delegator -> Int] /\ g \in [Delegator -> Int]
        /\ \A c \in Delegator : c # d => g[c] = f[c]
        /\ g[d] = more[d][v].rewards /\ f[d] = dels[d][v].rewards
    BY <1>2, Summands
  <2> HIDE DEF f, g
  <2>2. SumFunction(g) = SumFunction(f) + (g[d] - f[d])
    BY ONLY <2>1, SumChangesAt, StakingAssumption, d \in Delegator
  <2> QED
    BY <2>1, <2>2 DEF Credited, f, g
<1>6. Unbonding(more, d) = Unbonding(dels, d) + (more[d][v].unbonding - dels[d][v].unbonding)
  <2> DEFINE f == [w \in Validator |-> dels[d][w].unbonding]
             g == [w \in Validator |-> more[d][w].unbonding]
  <2>1. /\ f \in [Validator -> Int] /\ g \in [Validator -> Int]
        /\ \A w \in Validator : w # v => g[w] = f[w]
        /\ g[v] = more[d][v].unbonding /\ f[v] = dels[d][v].unbonding
    BY Summands
  <2> HIDE DEF f, g
  <2>2. SumFunction(g) = SumFunction(f) + (g[v] - f[v])
    BY ONLY <2>1, SumChangesAt, StakingAssumption, v \in Validator
  <2> QED
    BY <2>1, <2>2 DEF Unbonding, f, g
<1>7. \A c \in Delegator : c # d => Unbonding(more, c) = Unbonding(dels, c)
  <2> SUFFICES ASSUME NEW c \in Delegator, c # d
               PROVE  Unbonding(more, c) = Unbonding(dels, c)
    OBVIOUS
  <2>1. [w \in Validator |-> more[c][w].unbonding] = [w \in Validator |-> dels[c][w].unbonding]
    OBVIOUS
  <2> QED
    BY <2>1 DEF Unbonding
<1>8. AllShares(more) = AllShares(dels) + (Shares(more, v) - Shares(dels, v))
  <2> DEFINE f == [w \in Validator |-> Shares(dels, w)]
             g == [w \in Validator |-> Shares(more, w)]
  <2>1. /\ f \in [Validator -> Int] /\ g \in [Validator -> Int]
        /\ \A w \in Validator : w # v => g[w] = f[w]
        /\ g[v] = Shares(more, v) /\ f[v] = Shares(dels, v)
    BY <1>1, Summands
  <2> HIDE DEF f, g
  <2>2. SumFunction(g) = SumFunction(f) + (g[v] - f[v])
    BY ONLY <2>1, SumChangesAt, StakingAssumption, v \in Validator
  <2> QED
    BY <2>1, <2>2 DEF AllShares, f, g
<1>9. AllUnbonding(more) = AllUnbonding(dels) + (Unbonding(more, d) - Unbonding(dels, d))
  <2> DEFINE f == [c \in Delegator |-> Unbonding(dels, c)]
             g == [c \in Delegator |-> Unbonding(more, c)]
  <2>1. /\ f \in [Delegator -> Int] /\ g \in [Delegator -> Int]
        /\ \A c \in Delegator : c # d => g[c] = f[c]
        /\ g[d] = Unbonding(more, d) /\ f[d] = Unbonding(dels, d)
    BY <1>7, Summands
  <2> HIDE DEF f, g
  <2>2. SumFunction(g) = SumFunction(f) + (g[d] - f[d])
    BY ONLY <2>1, SumChangesAt, StakingAssumption, d \in Delegator
  <2> QED
    BY <2>1, <2>2 DEF AllUnbonding, f, g
<1>10. AllRewards(vals, more)
         = AllRewards(vals, dels) + (Credited(more, v) - Credited(dels, v))
  <2> DEFINE f == [w \in Validator |-> vals[w].rewards + Credited(dels, w)]
             g == [w \in Validator |-> vals[w].rewards + Credited(more, w)]
  <2>1. /\ f \in [Validator -> Int] /\ g \in [Validator -> Int]
        /\ \A w \in Validator : w # v => g[w] = f[w]
    BY <1>1, Summands
  <2>2. /\ vals[v].rewards \in Int /\ Credited(more, v) \in Int /\ Credited(dels, v) \in Int
    BY Summands, RecordFields DEF Register
  <2>3. g[v] - f[v] = Credited(more, v) - Credited(dels, v)
    BY <2>2
  <2> HIDE DEF f, g
  <2>4. SumFunction(g) = SumFunction(f) + (g[v] - f[v])
    BY ONLY <2>1, SumChangesAt, StakingAssumption, v \in Validator
  <2> QED
    BY <2>3, <2>4 DEF AllRewards, f, g
<1>11. /\ Shares(dels, v) \in Int /\ Credited(dels, v) \in Int /\ Unbonding(dels, d) \in Int
       /\ more[d][v] \in DelegationRecord /\ dels[d][v] \in DelegationRecord
  BY Summands DEF Books
<1>12. /\ Shares(more, v) - Shares(dels, v) = more[d][v].shares - dels[d][v].shares
       /\ Credited(more, v) - Credited(dels, v) = more[d][v].rewards - dels[d][v].rewards
       /\ Unbonding(more, d) - Unbonding(dels, d)
            = more[d][v].unbonding - dels[d][v].unbonding
  BY <1>4, <1>5, <1>6, <1>11, RecordFields
<1> QED
  BY <1>1, <1>3, <1>8, <1>9, <1>10, <1>12

\* How the sums change with one validator.
LEMMA OneValidator ==
  ASSUME NEW vals \in Register, NEW next \in Register, NEW dels \in Books,
         NEW v \in Validator, \A w \in Validator : w # v => next[w] = vals[w]
  PROVE  /\ AllStake(next) = AllStake(vals) + (next[v].self - vals[v].self)
                                + (next[v].delegated - vals[v].delegated)
         /\ AllRewards(next, dels)
              = AllRewards(vals, dels) + (next[v].rewards - vals[v].rewards)
<1>1. /\ vals[v].self \in Int /\ vals[v].delegated \in Int /\ vals[v].rewards \in Int
      /\ next[v].self \in Int /\ next[v].delegated \in Int /\ next[v].rewards \in Int
      /\ Credited(dels, v) \in Int
  BY RecordFields, Summands DEF Register
<1>2. AllStake(vals) \in Int /\ AllRewards(vals, dels) \in Int
  BY Summands
<1>3. AllStake(next) = AllStake(vals) + (next[v].self - vals[v].self)
                                + (next[v].delegated - vals[v].delegated)
  <2> DEFINE f == [w \in Validator |-> vals[w].self + vals[w].delegated]
             g == [w \in Validator |-> next[w].self + next[w].delegated]
  <2>1. /\ f \in [Validator -> Int] /\ g \in [Validator -> Int]
        /\ \A w \in Validator : w # v => g[w] = f[w]
    BY Summands
  <2>2. g[v] - f[v] = (next[v].self - vals[v].self) + (next[v].delegated - vals[v].delegated)
    BY <1>1
  <2> HIDE DEF f, g
  <2>3. SumFunction(g) = SumFunction(f) + (g[v] - f[v])
    BY ONLY <2>1, SumChangesAt, StakingAssumption, v \in Validator
  <2>4. AllStake(next) = AllStake(vals) + (g[v] - f[v])
    BY <2>3 DEF AllStake, f, g
  <2> QED
    BY <1>1, <1>2, <2>2, <2>4
<1>4. AllRewards(next, dels) = AllRewards(vals, dels) + (next[v].rewards - vals[v].rewards)
  <2> DEFINE f == [w \in Validator |-> vals[w].rewards + Credited(dels, w)]
             g == [w \in Validator |-> next[w].rewards + Credited(dels, w)]
  <2>1. /\ f \in [Validator -> Int] /\ g \in [Validator -> Int]
        /\ \A w \in Validator : w # v => g[w] = f[w]
    BY Summands
  <2>2. g[v] - f[v] = next[v].rewards - vals[v].rewards
    BY <1>1
  <2> HIDE DEF f, g
  <2>3. SumFunction(g) = SumFunction(f) + (g[v] - f[v])
    BY ONLY <2>1, SumChangesAt, StakingAssumption, v \in Validator
  <2> QED
    BY <2>2, <2>3 DEF AllRewards, f, g
<1> QED
  BY <1>3, <1>4

---------------------------------------------------------------------------
\* The inductive invariant, and what a step does to the books and their sums.

\* There is nothing at an address that is not registered.
Unused ==
  \A v \in Validator : validators[v].status = "none" =>
    /\ validators[v].self = 0 /\ validators[v].delegated = 0
    /\ validators[v].rewards = 0 /\ validators[v].slashes = 0
    /\ \A d \in Delegator : delegations[d][v].amount = 0

BooksInv == BooksOK /\ Unused /\ SlashRoundingBounded

Moves(stake, shares, unbonding, rewards) ==
  /\ validators' \in Register /\ delegations' \in Books
  /\ AllStake(validators') = AllStake(validators) + stake
  /\ AllShares(delegations') = AllShares(delegations) + shares
  /\ AllUnbonding(delegations') = AllUnbonding(delegations) + unbonding
  /\ AllRewards(validators', delegations') = AllRewards(validators, delegations) + rewards
  /\ Unused' /\ SlashRoundingBounded'

LEMMA BooksAreTyped == BooksOK <=> validators \in Register /\ delegations \in Books
BY DEF BooksOK, Register, Books

LEMMA DelegatorsCounted == Cardinality(Delegator) \in Nat
BY FS_CardinalityType, StakingAssumption

LEMMA ExcessIs ==
  ASSUME BooksOK, NEW v \in Validator
  PROVE  /\ Excess(v) = Amounts(delegations, v) - validators[v].delegated
         /\ Excess(v) \in Int /\ Amounts(delegations, v) \in Int
         /\ validators[v].delegated \in Int /\ validators[v].slashes \in Nat
<1>1. Amounts(delegations, v) \in Int
  BY Summands, BooksAreTyped
<1> QED
  BY <1>1, FieldTypes DEF Excess, Delegated, Amounts

\* The excess is kept where the amounts change as much as the delegated stake.
LEMMA ExcessKept ==
  ASSUME BooksOK, SlashRoundingBounded, validators' \in Register, delegations' \in Books,
         \A w \in Validator :
           /\ Amounts(delegations', w) - Amounts(delegations, w)
                = validators'[w].delegated - validators[w].delegated
           /\ validators'[w].slashes = validators[w].slashes
  PROVE  SlashRoundingBounded'
<1> SUFFICES ASSUME NEW w \in Validator
             PROVE  Excess(w)' \in 0 .. validators'[w].slashes * Cardinality(Delegator)
  BY DEF SlashRoundingBounded
<1>1. Excess(w)' = Amounts(delegations', w) - validators'[w].delegated
  BY DEF Excess, Delegated, Amounts
<1>2. Amounts(delegations', w) \in Int /\ validators'[w].delegated \in Int
  BY Summands, RecordFields DEF Register
<1>3. Excess(w)' = Excess(w)
  BY <1>1, <1>2, ExcessIs
<1> QED
  BY <1>3 DEF SlashRoundingBounded

\* One delegation moves, with the delegated stake of its validator.
LEMMA DelegationStep ==
  ASSUME BooksInv, NEW d \in Delegator, NEW v \in Validator,
         NEW amount \in Int, NEW shares \in Int, NEW unbonding \in Int, NEW rewards \in Int,
         DelegationMoves(d, v, amount, shares, unbonding, rewards),
         amount = 0 \/ validators[v].status # "none"
  PROVE  Moves(amount, shares, unbonding, rewards - delegations[d][v].rewards)
<1>1. /\ validators' \in Register /\ delegations' \in Books
      /\ validators \in Register /\ delegations \in Books
  BY BooksAreTyped DEF DelegationMoves, Register, Books, BooksInv
<1>2. /\ \A c \in Delegator, w \in Validator :
           c # d \/ w # v => delegations'[c][w] = delegations[c][w]
      /\ \A w \in Validator : w # v => validators'[w] = validators[w]
      /\ delegations'[d][v].amount = delegations[d][v].amount + amount
      /\ delegations'[d][v].shares = delegations[d][v].shares + shares
      /\ delegations'[d][v].unbonding = delegations[d][v].unbonding + unbonding
      /\ delegations'[d][v].rewards = rewards
      /\ validators'[v].delegated = validators[v].delegated + amount
      /\ validators'[v].status = validators[v].status
      /\ validators'[v].self = validators[v].self
      /\ validators'[v].rewards = validators[v].rewards
      /\ validators'[v].slashes = validators[v].slashes
  BY DEF DelegationMoves, DelegatedMoves
<1>3. /\ delegations[d][v].amount \in Int /\ delegations[d][v].shares \in Int
      /\ delegations[d][v].unbonding \in Int /\ delegations[d][v].rewards \in Int
      /\ validators[v].self \in Nat /\ validators[v].delegated \in Int
      /\ validators[v].rewards \in Int
  BY FieldTypes DEF BooksInv
<1>4. /\ Amounts(delegations', v) = Amounts(delegations, v) + amount
      /\ \A w \in Validator : w # v => Amounts(delegations', w) = Amounts(delegations, w)
      /\ AllShares(delegations') = AllShares(delegations) + shares
      /\ AllUnbonding(delegations') = AllUnbonding(delegations) + unbonding
      /\ AllRewards(validators, delegations')
           = AllRewards(validators, delegations) + (rewards - delegations[d][v].rewards)
  <2>1. /\ delegations'[d][v].amount - delegations[d][v].amount = amount
        /\ delegations'[d][v].shares - delegations[d][v].shares = shares
        /\ delegations'[d][v].unbonding - delegations[d][v].unbonding = unbonding
    BY <1>2, <1>3
  <2> QED
    BY ONLY <1>1, <1>2, <2>1, OneDelegation, d \in Delegator, v \in Validator
<1>5. /\ AllStake(validators') = AllStake(validators) + amount
      /\ AllRewards(validators', delegations') = AllRewards(validators, delegations')
  <2>1. /\ validators'[v].self - validators[v].self = 0
        /\ validators'[v].delegated - validators[v].delegated = amount
        /\ validators'[v].rewards - validators[v].rewards = 0
    BY <1>2, <1>3
  <2>2. AllStake(validators) \in Int /\ AllRewards(validators, delegations') \in Int
    BY <1>1, Summands
  <2>3. /\ AllStake(validators') = AllStake(validators) + 0 + amount
        /\ AllRewards(validators', delegations') = AllRewards(validators, delegations') + 0
    BY ONLY <1>1, <1>2, <2>1, OneValidator, v \in Validator
  <2> QED
    BY <2>2, <2>3
<1>6. SlashRoundingBounded'
  <2>1. ASSUME NEW w \in Validator
        PROVE  /\ Amounts(delegations', w) - Amounts(delegations, w)
                    = validators'[w].delegated - validators[w].delegated
               /\ validators'[w].slashes = validators[w].slashes
    <3>1. Amounts(delegations, w) \in Int /\ validators[w].delegated \in Int
      BY ExcessIs DEF BooksInv
    <3>2. CASE w = v
      BY <1>2, <1>4, <3>1, <3>2
    <3>3. CASE w # v
      BY <1>2, <1>4, <3>1, <3>3
    <3> QED
      BY <3>2, <3>3
  <2> QED
    BY <1>1, <2>1, ExcessKept DEF BooksInv
<1>7. Unused'
  <2> SUFFICES ASSUME NEW w \in Validator, validators'[w].status = "none"
               PROVE  /\ validators'[w].self = 0 /\ validators'[w].delegated = 0
                      /\ validators'[w].rewards = 0 /\ validators'[w].slashes = 0
                      /\ \A c \in Delegator : delegations'[c][w].amount = 0
    BY DEF Unused
  <2>1. CASE w # v
    BY <1>2, <2>1 DEF Unused, BooksInv
  <2>2. CASE w = v
    <3>1. validators[v].status = "none" /\ amount = 0
      BY <1>2, <2>2
    <3>2. /\ validators[v].self = 0 /\ validators[v].delegated = 0
          /\ validators[v].rewards = 0 /\ validators[v].slashes = 0
          /\ \A c \in Delegator : delegations[c][v].amount = 0
      BY <3>1 DEF Unused, BooksInv
    <3>3. \A c \in Delegator : delegations'[c][v].amount = 0
      BY <1>2, <3>1, <3>2
    <3> QED
      BY <1>2, <2>2, <3>1, <3>2, <3>3
  <2> QED
    BY <2>1, <2>2
<1> QED
  BY <1>1, <1>4, <1>5, <1>6, <1>7 DEF Moves

\* One validator changes, and what was delegated to it stays.
LEMMA ValidatorStep ==
  ASSUME BooksInv, NEW v \in Validator, NEW new \in ValidatorRecord,
         validators' = [validators EXCEPT ![v] = new], delegations' = delegations,
         new.status # "none", new.delegated = validators[v].delegated,
         new.slashes = validators[v].slashes
  PROVE  Moves(new.self - validators[v].self, 0, 0, new.rewards - validators[v].rewards)
<1>1. validators' \in Register /\ validators \in Register /\ delegations \in Books
  BY BooksAreTyped, ValidatorWritten DEF Register, BooksInv
<1>2. validators'[v] = new /\ \A w \in Validator : w # v => validators'[w] = validators[w]
  BY ValidatorWritten DEF BooksInv
<1>3. /\ AllStake(validators') = AllStake(validators) + (new.self - validators[v].self)
      /\ AllRewards(validators', delegations)
           = AllRewards(validators, delegations) + (new.rewards - validators[v].rewards)
  <2>1. new.delegated - validators[v].delegated = 0
    BY RecordFields
  <2>2. /\ AllStake(validators) \in Int /\ new.self \in Int /\ validators[v].self \in Int
    BY <1>1, RecordFields, Summands DEF Register
  <2>3. /\ AllStake(validators') = AllStake(validators) + (new.self - validators[v].self) + 0
        /\ AllRewards(validators', delegations)
             = AllRewards(validators, delegations) + (new.rewards - validators[v].rewards)
    BY ONLY <1>1, <1>2, <2>1, OneValidator, v \in Validator
  <2> QED
    BY <2>2, <2>3
<1>4. /\ AllShares(delegations) = AllShares(delegations) + 0
      /\ AllUnbonding(delegations) = AllUnbonding(delegations) + 0
  BY <1>1, Summands
<1>5. SlashRoundingBounded'
  <2>1. \A w \in Validator :
          /\ Amounts(delegations', w) - Amounts(delegations, w)
               = validators'[w].delegated - validators[w].delegated
          /\ validators'[w].slashes = validators[w].slashes
    BY <1>2, ExcessIs DEF BooksInv
  <2> QED
    BY <1>1, <2>1, ExcessKept DEF BooksInv
<1>6. Unused'
  BY <1>2 DEF Unused, BooksInv
<1> QED
  BY <1>1, <1>3, <1>4, <1>5, <1>6 DEF Moves

---------------------------------------------------------------------------
StakingInv == BooksInv /\ CountersOK /\ TokensConserved /\ RewardsBacked

LEMMA ConservedIs ==
  /\ TokensConserved <=>
       /\ totalStaked = AllStake(validators)
       /\ totalShares = AllShares(delegations)
       /\ deposited = withdrawn + slashed + totalStaked + AllUnbonding(delegations)
  /\ RewardsBacked <=>
       overcommitted \/ claimed + AllRewards(validators, delegations) <= totalRewards
BY DEF TokensConserved, RewardsBacked, AllStake, AllShares, AllUnbonding, AllRewards,
       TotalStake, TotalShares, Shares, Unbonding, Credited

LEMMA ConservedNextIs ==
  /\ TokensConserved' <=>
       /\ totalStaked' = AllStake(validators')
       /\ totalShares' = AllShares(delegations')
       /\ deposited' = withdrawn' + slashed' + totalStaked' + AllUnbonding(delegations')
  /\ RewardsBacked' <=>
       overcommitted' \/ claimed' + AllRewards(validators', delegations') <= totalRewards'
BY DEF TokensConserved, RewardsBacked, AllStake, AllShares, AllUnbonding, AllRewards,
       TotalStake, TotalShares, Shares, Unbonding, Credited

\* The invariant is kept by a step whose counters move as its books.
LEMMA LedgerStep ==
  ASSUME StakingInv, CountersOK', NEW stake \in Int, NEW shares \in Int,
         NEW unbonding \in Int, NEW rewards \in Int,
         Moves(stake, shares, unbonding, rewards),
         totalStaked' = totalStaked + stake, totalShares' = totalShares + shares,
         deposited' - deposited
           = (withdrawn' - withdrawn) + (slashed' - slashed) + stake + unbonding,
         overcommitted => overcommitted',
         overcommitted' \/ (claimed' - claimed) + rewards <= totalRewards' - totalRewards
  PROVE  StakingInv'
<1>1. /\ validators \in Register /\ delegations \in Books
      /\ validators' \in Register /\ delegations' \in Books
  BY BooksAreTyped DEF Moves, StakingInv, BooksInv
<1>2. /\ AllStake(validators) \in Int /\ AllShares(delegations) \in Int
      /\ AllUnbonding(delegations) \in Int /\ AllRewards(validators, delegations) \in Int
  BY <1>1, Summands
<1>3. /\ totalStaked \in Int /\ totalShares \in Int /\ totalRewards \in Int
      /\ deposited \in Int /\ withdrawn \in Int /\ slashed \in Int /\ claimed \in Int
      /\ totalRewards' \in Int /\ deposited' \in Int /\ withdrawn' \in Int
      /\ slashed' \in Int /\ claimed' \in Int
  BY DEF CountersOK, StakingInv
<1>4. /\ totalStaked = AllStake(validators) /\ totalShares = AllShares(delegations)
      /\ deposited = withdrawn + slashed + totalStaked + AllUnbonding(delegations)
      /\ overcommitted \/ claimed + AllRewards(validators, delegations) <= totalRewards
  BY ConservedIs DEF StakingInv
<1>5. /\ AllStake(validators') = AllStake(validators) + stake
      /\ AllShares(delegations') = AllShares(delegations) + shares
      /\ AllUnbonding(delegations') = AllUnbonding(delegations) + unbonding
      /\ AllRewards(validators', delegations') = AllRewards(validators, delegations) + rewards
  BY DEF Moves
<1>6. TokensConserved'
  <2>1. /\ totalStaked' = AllStake(validators') /\ totalShares' = AllShares(delegations')
    BY <1>4, <1>5
  <2>2. deposited' = withdrawn' + slashed' + totalStaked' + AllUnbonding(delegations')
    <3> DEFINE old == AllUnbonding(delegations)
               new == AllUnbonding(delegations')
    <3>1. /\ old \in Int /\ new = old + unbonding
          /\ deposited = withdrawn + slashed + totalStaked + old
          /\ totalStaked' = totalStaked + stake
          /\ deposited' - deposited
               = (withdrawn' - withdrawn) + (slashed' - slashed) + stake + unbonding
      BY <1>2, <1>4, <1>5
    <3> HIDE DEF old, new
    <3>2. PICK d \in Int, w \in Int, s \in Int, t \in Int :
            d = deposited' /\ w = withdrawn' /\ s = slashed' /\ t = totalStaked'
      BY <1>3, <3>1
    <3>3. /\ d - deposited = (w - withdrawn) + (s - slashed) + stake + unbonding
         /\ t = totalStaked + stake /\ new = old + unbonding /\ old \in Int
         /\ deposited = withdrawn + slashed + totalStaked + old
         /\ totalStaked \in Int /\ deposited \in Int /\ withdrawn \in Int /\ slashed \in Int
      BY <1>3, <3>1, <3>2
    <3>4. d = w + s + t + new
      BY ONLY <3>3, d \in Int, w \in Int, s \in Int, t \in Int,
              stake \in Int, unbonding \in Int
    <3> QED
      BY <3>2, <3>4 DEF new
  <2> QED
    BY <2>1, <2>2, ConservedNextIs
<1>7. RewardsBacked'
  <2>1. ASSUME ~overcommitted'
        PROVE  claimed' + AllRewards(validators', delegations') <= totalRewards'
    <3> DEFINE old == AllRewards(validators, delegations)
               new == AllRewards(validators', delegations')
    <3>1. /\ old \in Int /\ new = old + rewards /\ claimed + old <= totalRewards
          /\ (claimed' - claimed) + rewards <= totalRewards' - totalRewards
      BY <1>2, <1>4, <1>5, <2>1
    <3> HIDE DEF old, new
    <3>2. PICK c \in Int, t \in Int : c = claimed' /\ t = totalRewards'
      BY <1>3
    <3>3. (c - claimed) + rewards <= t - totalRewards
      BY <3>1, <3>2
    <3>4. c + new <= t
      BY ONLY <1>3, <3>1, <3>3, rewards \in Int
    <3> QED
      BY <3>2, <3>4 DEF new
  <2> QED
    BY <2>1, ConservedNextIs
<1>8. BooksInv'
  <2>1. BooksOK'
    BY <1>1 DEF BooksOK, Register, Books
  <2> QED
    BY <2>1 DEF BooksInv, Moves
<1> QED
  BY <1>6, <1>7, <1>8 DEF StakingInv

LEMMA InvParts ==
  ASSUME StakingInv
  PROVE  /\ BooksOK /\ BooksInv
         /\ totalStaked \in Int /\ totalShares \in Int /\ totalRewards \in Nat
         /\ now \in Nat /\ deposited \in Nat /\ withdrawn \in Int
         /\ slashed \in Int /\ claimed \in Int
BY StakingAssumption DEF StakingInv, BooksInv, CountersOK

---------------------------------------------------------------------------
\* One lemma for each action.

LEMMA DelegateKeeps ==
  ASSUME StakingInv, NEW d \in Delegator, NEW v \in Validator, NEW amount \in Amount,
         Delegate(d, v, amount)
  PROVE  StakingInv'
<1> DEFINE shares == SharesFor(v, amount)
           rewards == delegations[d][v].rewards
<1>1. amount \in Nat /\ rewards \in Int /\ rewards - rewards = 0 /\ BooksOK
  <2>1. amount \in Int /\ amount >= MinDelegation /\ MinDelegation \in Nat
    BY StakingAssumption DEF Delegate, CanDelegate
  <2>2. rewards \in Int /\ BooksOK
    BY InvParts, FieldTypes
  <2> QED
    BY <2>1, <2>2
<1>2. shares \in Int
  BY <1>1, SharesForIsInt
<1>3. AddDelegation(d, v, amount, rewards)
  BY DEF Delegate
<1>4. DelegationMoves(d, v, amount, shares, 0, rewards)
  BY <1>1, <1>3, AddDelegationMoves
<1>5. validators[v].status # "none"
  BY DEF Delegate, CanDelegate, Registered
<1>6. totalStaked' = totalStaked + amount /\ totalShares' = totalShares + shares
  BY <1>3 DEF AddDelegation
<1> HIDE DEF shares, rewards
<1>7. Moves(amount, shares, 0, 0)
  <2>1. Moves(amount, shares, 0, rewards - delegations[d][v].rewards)
    BY <1>1, <1>2, <1>4, <1>5, DelegationStep, InvParts
  <2> QED
    BY <1>1, <2>1 DEF rewards
<1>8. /\ deposited' = deposited + amount /\ deposited + amount <= MaxDeposit
      /\ UNCHANGED <<totalRewards, now, rounds, withdrawn, slashed, claimed, overcommitted>>
  BY DEF Delegate
<1>9. CountersOK'
  BY <1>1, <1>2, <1>6, <1>8 DEF CountersOK, StakingInv
<1>10. /\ deposited' - deposited
            = (withdrawn' - withdrawn) + (slashed' - slashed) + amount + 0
       /\ (claimed' - claimed) + 0 <= totalRewards' - totalRewards
  BY <1>1, <1>8, InvParts
<1> QED
  BY <1>1, <1>2, <1>6, <1>7, <1>8, <1>9, <1>10, LedgerStep

LEMMA UndelegateKeeps ==
  ASSUME StakingInv, NEW d \in Delegator, NEW v \in Validator, NEW amount \in Amount,
         Undelegate(d, v, amount)
  PROVE  StakingInv'
<1> DEFINE shares == SharesOf(d, v, amount)
           rewards == delegations[d][v].rewards
<1>1. BooksOK /\ now \in Nat /\ rewards \in Int /\ rewards - rewards = 0
  BY InvParts, FieldTypes
<1>2. /\ DelegationMoves(d, v, -amount, -shares, amount, rewards)
      /\ delegations[d][v].amount # 0 /\ shares \in Int /\ amount \in Int
  BY <1>1, UndelegateMoves
<1>3. validators[v].status # "none"
  BY <1>2, InvParts DEF BooksInv, Unused
<1>4. /\ totalStaked' = totalStaked - amount /\ totalShares' = totalShares - shares
      /\ UNCHANGED <<totalRewards, now, rounds, deposited, withdrawn, slashed, claimed,
                     overcommitted>>
  BY DEF Undelegate
<1> HIDE DEF shares, rewards
<1>5. Moves(-amount, -shares, amount, 0)
  <2>1. -amount \in Int /\ -shares \in Int /\ amount \in Int
    BY <1>2
  <2>2. Moves(-amount, -shares, amount, rewards - delegations[d][v].rewards)
    BY <1>1, <1>2, <1>3, <2>1, DelegationStep, InvParts
  <2> QED
    BY <1>1, <2>2 DEF rewards
<1>6. CountersOK'
  BY <1>2, <1>4, InvParts DEF CountersOK, StakingInv
<1>7. /\ totalStaked' = totalStaked + (-amount) /\ totalShares' = totalShares + (-shares)
      /\ deposited' - deposited
           = (withdrawn' - withdrawn) + (slashed' - slashed) + (-amount) + amount
      /\ (claimed' - claimed) + 0 <= totalRewards' - totalRewards
      /\ -amount \in Int /\ -shares \in Int /\ amount \in Int
  BY <1>2, <1>4, InvParts
<1> QED
  BY <1>4, <1>5, <1>6, <1>7, LedgerStep

LEMMA WithdrawKeeps ==
  ASSUME StakingInv, NEW d \in Delegator, NEW v \in Validator, WithdrawUnbonded(d, v)
  PROVE  StakingInv'
<1> DEFINE rewards == delegations[d][v].rewards
           back == delegations[d][v].unbonding
<1>1. BooksOK /\ rewards \in Int /\ rewards - rewards = 0 /\ back \in Int
  BY InvParts, FieldTypes
<1>2. DelegationMoves(d, v, 0, 0, -back, rewards)
  BY <1>1, WithdrawMoves
<1>3. /\ withdrawn' = withdrawn + back
      /\ UNCHANGED <<totalStaked, totalShares, totalRewards, now, rounds, deposited, slashed,
                     claimed, overcommitted>>
  BY DEF WithdrawUnbonded, pool
<1> HIDE DEF rewards, back
<1>4. Moves(0, 0, -back, 0)
  <2>1. -back \in Int
    BY <1>1
  <2>2. Moves(0, 0, -back, rewards - delegations[d][v].rewards)
    BY <1>1, <1>2, <2>1, DelegationStep, InvParts
  <2> QED
    BY <1>1, <2>2 DEF rewards
<1>5. CountersOK'
  BY <1>1, <1>3, InvParts DEF CountersOK, StakingInv
<1>6. /\ totalStaked' = totalStaked + 0 /\ totalShares' = totalShares + 0
      /\ deposited' - deposited
           = (withdrawn' - withdrawn) + (slashed' - slashed) + 0 + (-back)
      /\ (claimed' - claimed) + 0 <= totalRewards' - totalRewards
      /\ -back \in Int
  BY <1>1, <1>3, InvParts
<1> QED
  BY <1>3, <1>4, <1>5, <1>6, LedgerStep

LEMMA ClaimRewardsKeeps ==
  ASSUME StakingInv, NEW d \in Delegator, NEW v \in Validator, ClaimRewards(d, v)
  PROVE  StakingInv'
<1> DEFINE rewards == delegations[d][v].rewards
<1>1. BooksOK /\ rewards \in Int /\ 0 - rewards = -rewards
  BY InvParts, FieldTypes
<1>2. Claim(d, {v}) /\ {v} \in SUBSET Validator
  BY DEF ClaimRewards
<1>3. /\ UNCHANGED <<validators, totalStaked, totalShares, totalRewards, now, rounds,
                     deposited, withdrawn, slashed, overcommitted>>
  BY DEF ClaimRewards, pool
<1>4. claimed' = claimed + rewards
  <2> DEFINE f == [w \in {v} |-> delegations[d][w].rewards]
  <2>1. claimed' = claimed + SumFunction(f)
    BY <1>2 DEF Claim
  <2>2. f \in [{v} -> Int] /\ f[v] = rewards
    BY <1>1
  <2> HIDE DEF f
  <2>3. IsFiniteSet({v}) /\ Cardinality({v}) = 1
    BY FS_Singleton
  <2>4. SumFunction(f) = SumFunctionOnSet(f, {v})
    BY <2>2, <2>3, SumType
  <2>5. SumFunctionOnSet(f, {v}) = rewards * 1
    <3>1. \A w \in {v} : f[w] = rewards
      BY <2>2
    <3>2. rewards \in Int
      BY <1>1
    <3> HIDE DEF rewards
    <3> QED
      BY <2>3, <3>1, <3>2, SumConstant
  <2> QED
    BY <1>1, <2>1, <2>4, <2>5
<1>5. DelegationMoves(d, v, 0, 0, 0, 0)
  <2>1. /\ delegations' \in [Delegator -> [Validator -> DelegationRecord]]
        /\ delegations'[d][v].amount = delegations[d][v].amount
        /\ delegations'[d][v].shares = delegations[d][v].shares
        /\ delegations'[d][v].unbonding = delegations[d][v].unbonding
        /\ delegations'[d][v].rewards = 0
        /\ \A w \in Validator \ {v} : delegations'[d][w] = delegations[d][w]
        /\ \A c \in Delegator \ {d} : delegations'[c] = delegations[c]
    BY <1>1, <1>2, ClaimResets
  <2>2. \A c \in Delegator, w \in Validator :
          c # d \/ w # v => delegations'[c][w] = delegations[c][w]
    BY <2>1
  <2>3. /\ delegations'[d][v].amount = delegations[d][v].amount + 0
        /\ delegations'[d][v].shares = delegations[d][v].shares + 0
        /\ delegations'[d][v].unbonding = delegations[d][v].unbonding + 0
        /\ validators'[v].delegated = validators[v].delegated + 0
    BY <1>1, <1>3, <2>1, FieldTypes
  <2>4. validators \in [Validator -> ValidatorRecord]
    BY <1>1 DEF BooksOK
  <2> QED
    BY <1>3, <2>1, <2>2, <2>3, <2>4 DEF DelegationMoves, DelegatedMoves
<1> HIDE DEF rewards
<1>6. Moves(0, 0, 0, -rewards)
  <2>1. Moves(0, 0, 0, 0 - delegations[d][v].rewards)
    BY <1>5, DelegationStep, InvParts
  <2> QED
    BY <1>1, <2>1 DEF rewards
<1>7. CountersOK'
  BY <1>1, <1>3, <1>4, InvParts DEF CountersOK, StakingInv
<1>8. /\ totalStaked' = totalStaked + 0 /\ totalShares' = totalShares + 0
      /\ deposited' - deposited = (withdrawn' - withdrawn) + (slashed' - slashed) + 0 + 0
      /\ (claimed' - claimed) + (-rewards) <= totalRewards' - totalRewards
      /\ -rewards \in Int
  BY <1>1, <1>3, <1>4, InvParts
<1> QED
  BY <1>3, <1>6, <1>7, <1>8, LedgerStep

LEMMA CompoundKeeps ==
  ASSUME StakingInv, NEW d \in Delegator, NEW v \in Validator, CompoundRewards(d, v)
  PROVE  StakingInv'
<1> DEFINE rewards == delegations[d][v].rewards
           shares == SharesFor(v, rewards)
<1>1. BooksOK /\ rewards \in Int /\ 0 - rewards = -rewards /\ -rewards \in Int
  BY InvParts, FieldTypes
<1>2. /\ claimed' = claimed + rewards
      /\ UNCHANGED <<totalRewards, now, rounds, withdrawn, slashed, overcommitted>>
  BY DEF CompoundRewards
<1>3. CASE /\ CanDelegate(v, rewards) /\ deposited + rewards <= MaxDeposit
           /\ AddDelegation(d, v, rewards, 0)
           /\ deposited' = deposited + rewards
  <2>0. rewards \in Nat
    BY <1>1, <1>3, StakingAssumption DEF CanDelegate
  <2>1. shares \in Int
    BY <1>1, SharesForIsInt
  <2>2. DelegationMoves(d, v, rewards, shares, 0, 0)
    BY <1>1, <1>3, AddDelegationMoves
  <2>3. validators[v].status # "none"
    BY <1>3 DEF CanDelegate, Registered
  <2>4. totalStaked' = totalStaked + rewards /\ totalShares' = totalShares + shares
    BY <1>3 DEF AddDelegation
  <2> HIDE DEF shares, rewards
  <2>5. Moves(rewards, shares, 0, -rewards)
    <3>1. rewards \in Int
      BY <1>1
    <3>2. Moves(rewards, shares, 0, 0 - delegations[d][v].rewards)
      BY <2>1, <2>2, <2>3, <3>1, DelegationStep, InvParts
    <3> QED
      BY <1>1, <3>2 DEF rewards
  <2>6. CountersOK'
    BY <1>1, <1>2, <1>3, <2>0, <2>1, <2>4, InvParts DEF CountersOK, StakingInv
  <2>7. /\ deposited' - deposited
             = (withdrawn' - withdrawn) + (slashed' - slashed) + rewards + 0
        /\ (claimed' - claimed) + (-rewards) <= totalRewards' - totalRewards
        /\ rewards \in Int
    BY <1>1, <1>2, <1>3, InvParts
  <2> QED
    BY <1>1, <1>2, <2>1, <2>4, <2>5, <2>6, <2>7, LedgerStep
<1>4. CASE /\ delegations' = [delegations EXCEPT ![d][v].rewards = 0]
           /\ UNCHANGED <<validators, totalStaked, totalShares, deposited>>
  <2> DEFINE old == delegations[d][v]
             new == [old EXCEPT !.rewards = 0]
  <2>1. old \in DelegationRecord /\ old.unbonding = old.unbonding + 0
    BY <1>1, FieldTypes
  <2>2. delegations' = [delegations EXCEPT ![d][v] = new] /\ validators' = validators
    BY <1>4
  <2>3. /\ new \in DelegationRecord /\ new.amount = old.amount /\ new.shares = old.shares
        /\ new.unbonding = old.unbonding /\ new.rewards = 0
    <3> HIDE DEF old
    <3> QED
      BY ONLY <2>1 DEF DelegationRecord
  <2> HIDE DEF new
  <2>4. DelegationMoves(d, v, 0, 0, 0, 0)
    <3>1. new.unbonding = old.unbonding + 0
      BY <2>1, <2>3
    <3>2. DelegationMoves(d, v, 0, 0, 0, new.rewards)
      <4>1. BooksOK /\ 0 \in Int
        BY <1>1
      <4> HIDE DEF rewards
      <4> QED
        BY ONLY <2>2, <2>3, <3>1, <4>1, OnlyDelegationMoves, d \in Delegator, v \in Validator
    <3> QED
      BY <2>3, <3>2
  <2> HIDE DEF rewards, old
  <2>5. Moves(0, 0, 0, -rewards)
    <3>1. Moves(0, 0, 0, 0 - delegations[d][v].rewards)
      BY <2>4, DelegationStep, InvParts
    <3> QED
      BY <1>1, <3>1 DEF rewards
  <2>6. CountersOK'
    BY <1>1, <1>2, <1>4, InvParts DEF CountersOK, StakingInv
  <2>7. /\ totalStaked' = totalStaked + 0 /\ totalShares' = totalShares + 0
        /\ deposited' - deposited = (withdrawn' - withdrawn) + (slashed' - slashed) + 0 + 0
        /\ (claimed' - claimed) + (-rewards) <= totalRewards' - totalRewards
    BY <1>1, <1>2, <1>4, InvParts
  <2> QED
    BY <1>1, <1>2, <2>5, <2>6, <2>7, LedgerStep
<1> QED
  BY <1>3, <1>4 DEF CompoundRewards

\* A step that changes nothing but one validator.
LEMMA ValidatorKeeps ==
  ASSUME StakingInv, CountersOK', NEW v \in Validator, NEW new \in ValidatorRecord,
         validators' = [validators EXCEPT ![v] = new], delegations' = delegations,
         new.status # "none", new.delegated = validators[v].delegated,
         new.slashes = validators[v].slashes,
         totalStaked' = totalStaked + (new.self - validators[v].self),
         totalShares' = totalShares, totalRewards' = totalRewards,
         deposited' = deposited + (new.self - validators[v].self),
         withdrawn' = withdrawn, slashed' = slashed,
         claimed' = claimed - (new.rewards - validators[v].rewards),
         overcommitted' = overcommitted
  PROVE  StakingInv'
<1>1. PICK stake \in Int, rewards \in Int :
        stake = new.self - validators[v].self /\ rewards = new.rewards - validators[v].rewards
  BY FieldTypes, RecordFields, InvParts
<1>2. Moves(stake, 0, 0, rewards)
  BY <1>1, ValidatorStep, InvParts
<1>3. /\ deposited' - deposited
           = (withdrawn' - withdrawn) + (slashed' - slashed) + stake + 0
      /\ (claimed' - claimed) + rewards <= totalRewards' - totalRewards
      /\ totalStaked' = totalStaked + stake /\ totalShares' = totalShares + 0
  BY <1>1, InvParts
<1> QED
  BY <1>1, <1>2, <1>3, LedgerStep

LEMMA RegisterKeeps ==
  ASSUME StakingInv, NEW v \in Validator, NEW commission \in Commission, NEW stake \in Amount,
         RegisterValidator(v, commission, stake)
  PROVE  StakingInv'
<1> DEFINE new == [Unregistered EXCEPT !.status = "active", !.self = stake,
                                       !.commission = commission]
<1>1. stake \in Nat
  BY StakingAssumption DEF RegisterValidator
<1>2. /\ new \in ValidatorRecord /\ new.status = "active" /\ new.self = stake
      /\ new.delegated = 0 /\ new.rewards = 0 /\ new.slashes = 0
  <2>1. /\ Unregistered \in ValidatorRecord /\ Unregistered.delegated = 0
        /\ Unregistered.rewards = 0 /\ Unregistered.slashes = 0
    BY DEF ValidatorRecord, Unregistered
  <2>2. LET r == [Unregistered EXCEPT !.status = "active", !.self = stake,
                                      !.commission = commission]
        IN  /\ r \in ValidatorRecord /\ r.status = "active" /\ r.self = stake
            /\ r.delegated = 0 /\ r.rewards = 0 /\ r.slashes = 0
    BY ONLY <1>1, <2>1, commission \in Commission DEF ValidatorRecord
  <2> QED
    BY <2>2
<1>3. /\ validators[v].self = 0 /\ validators[v].delegated = 0
      /\ validators[v].rewards = 0 /\ validators[v].slashes = 0
  BY DEF RegisterValidator, StakingInv, BooksInv, Unused
<1>4. /\ validators' = [validators EXCEPT ![v] = new] /\ delegations' = delegations
      /\ totalStaked' = totalStaked + stake /\ deposited' = deposited + stake
      /\ deposited + stake <= MaxDeposit
      /\ UNCHANGED <<totalShares, totalRewards, now, rounds, withdrawn, slashed, claimed,
                     overcommitted>>
  BY DEF RegisterValidator
<1> HIDE DEF new
<1>5. CountersOK'
  BY <1>1, <1>4 DEF CountersOK, StakingInv
<1>6. /\ new.self - validators[v].self = stake
      /\ claimed = claimed - (new.rewards - validators[v].rewards)
  BY <1>1, <1>2, <1>3, InvParts
<1>7. new.status # "none"
  BY <1>2
<1> QED
  BY <1>2, <1>3, <1>4, <1>5, <1>6, <1>7, ValidatorKeeps

\* A step that changes the status or the rate of one registered validator.
LEMMA TermsKeep ==
  ASSUME StakingInv, CountersOK', NEW v \in Validator, NEW new \in ValidatorRecord,
         validators' = [validators EXCEPT ![v] = new], new.status # "none",
         new.self = validators[v].self, new.delegated = validators[v].delegated,
         new.slashes = validators[v].slashes, new.rewards = validators[v].rewards,
         UNCHANGED <<delegations, pool, now, rounds, deposited, withdrawn, slashed, claimed,
                     overcommitted>>
  PROVE  StakingInv'
<1>1. /\ new.self - validators[v].self = 0 /\ new.rewards - validators[v].rewards = 0
      /\ totalStaked + 0 = totalStaked /\ deposited + 0 = deposited /\ claimed - 0 = claimed
  BY RecordFields, InvParts
<1> QED
  BY <1>1, ValidatorKeeps DEF pool

LEMMA UpdateCommissionKeeps ==
  ASSUME StakingInv, NEW v \in Validator, NEW commission \in Commission,
         UpdateCommission(v, commission)
  PROVE  StakingInv'
<1> DEFINE old == validators[v]
           new == [old EXCEPT !.commission = commission]
<1>1. old \in ValidatorRecord /\ old.status # "none"
  BY InvParts, FieldTypes DEF UpdateCommission, Registered
<1>2. /\ new \in ValidatorRecord /\ new.status = old.status /\ new.self = old.self
      /\ new.delegated = old.delegated /\ new.rewards = old.rewards
      /\ new.slashes = old.slashes
  <2> HIDE DEF old
  <2> QED
    BY ONLY <1>1, commission \in Commission DEF ValidatorRecord
<1>3. /\ validators' = [validators EXCEPT ![v] = new]
      /\ UNCHANGED <<delegations, pool, now, rounds, deposited, withdrawn, slashed, claimed,
                     overcommitted>>
  BY DEF UpdateCommission
<1> HIDE DEF new
<1>4. CountersOK'
  BY <1>3 DEF CountersOK, StakingInv, pool
<1> QED
  BY <1>1, <1>2, <1>3, <1>4, TermsKeep

LEMMA JailKeeps ==
  ASSUME StakingInv, NEW v \in Validator, NEW duration \in JailTime,
         JailValidator(v, duration)
  PROVE  StakingInv'
<1> DEFINE old == validators[v]
           new == [old EXCEPT !.status = "jailed", !.until = now + duration]
<1>1. old \in ValidatorRecord /\ now + duration \in Nat
  BY InvParts, FieldTypes, StakingAssumption
<1>2. /\ new \in ValidatorRecord /\ new.status = "jailed" /\ new.self = old.self
      /\ new.delegated = old.delegated /\ new.rewards = old.rewards
      /\ new.slashes = old.slashes
  <2> HIDE DEF old
  <2> QED
    BY ONLY <1>1 DEF ValidatorRecord
<1>3. /\ validators' = [validators EXCEPT ![v] = new]
      /\ UNCHANGED <<delegations, pool, now, rounds, deposited, withdrawn, slashed, claimed,
                     overcommitted>>
  BY DEF JailValidator
<1> HIDE DEF new
<1>4. CountersOK' /\ new.status # "none"
  BY <1>2, <1>3 DEF CountersOK, StakingInv, pool
<1> QED
  BY <1>1, <1>2, <1>3, <1>4, TermsKeep

LEMMA UnjailKeeps ==
  ASSUME StakingInv, NEW v \in Validator, UnjailValidator(v)
  PROVE  StakingInv'
<1> DEFINE old == validators[v]
           new == [old EXCEPT !.status = "active", !.until = 0]
<1>1. old \in ValidatorRecord
  BY InvParts, FieldTypes
<1>2. /\ new \in ValidatorRecord /\ new.status = "active" /\ new.self = old.self
      /\ new.delegated = old.delegated /\ new.rewards = old.rewards
      /\ new.slashes = old.slashes
  <2> HIDE DEF old
  <2> QED
    BY ONLY <1>1 DEF ValidatorRecord
<1>3. /\ validators' = [validators EXCEPT ![v] = new]
      /\ UNCHANGED <<delegations, pool, now, rounds, deposited, withdrawn, slashed, claimed,
                     overcommitted>>
  BY DEF UnjailValidator
<1> HIDE DEF new
<1>4. CountersOK' /\ new.status # "none"
  BY <1>2, <1>3 DEF CountersOK, StakingInv, pool
<1> QED
  BY <1>1, <1>2, <1>3, <1>4, TermsKeep

LEMMA ClaimValidatorKeeps ==
  ASSUME StakingInv, NEW v \in Validator, ClaimValidatorRewards(v)
  PROVE  StakingInv'
<1> DEFINE old == validators[v]
           new == [old EXCEPT !.rewards = 0]
<1>1. /\ old \in ValidatorRecord /\ old.status # "none"
      /\ old.self \in Nat /\ old.rewards \in Int
  BY InvParts, FieldTypes DEF ClaimValidatorRewards, BooksInv, Unused
<1>2. /\ new \in ValidatorRecord /\ new.status = old.status /\ new.self = old.self
      /\ new.delegated = old.delegated /\ new.rewards = 0
      /\ new.slashes = old.slashes
  <2> HIDE DEF old
  <2> QED
    BY ONLY <1>1 DEF ValidatorRecord
<1>3. /\ validators' = [validators EXCEPT ![v] = new]
      /\ claimed' = claimed + old.rewards
      /\ UNCHANGED <<delegations, totalStaked, totalShares, totalRewards, now, rounds,
                     deposited, withdrawn, slashed, overcommitted>>
  BY DEF ClaimValidatorRewards, pool
<1> HIDE DEF new
<1>4. CountersOK'
  BY <1>1, <1>3, InvParts DEF CountersOK, StakingInv
<1>5. /\ totalStaked' = totalStaked + (new.self - old.self)
      /\ deposited' = deposited + (new.self - old.self)
      /\ claimed' = claimed - (new.rewards - old.rewards)
  BY <1>1, <1>2, <1>3, InvParts
<1> QED
  BY <1>1, <1>2, <1>3, <1>4, <1>5, ValidatorKeeps

\* A redelegation is one delegation that shrinks and another that grows.
LEMMA RedelegateKeeps ==
  ASSUME StakingInv, NEW d \in Delegator, NEW src \in Validator, NEW dst \in Validator,
         NEW amount \in Amount, Redelegate(d, src, dst, amount)
  PROVE  StakingInv'
<1> DEFINE shares == SharesOf(d, src, amount)
           oldFrom == delegations[d][src]
           oldTo == delegations[d][dst]
           newFrom == [oldFrom EXCEPT !.amount = @ - amount, !.shares = @ - shares]
           newTo == [oldTo EXCEPT !.amount = @ + amount, !.shares = @ + shares]
           valFrom == [validators[src] EXCEPT !.delegated = @ - amount]
           valTo == [validators[dst] EXCEPT !.delegated = @ + amount]
           mid == [delegations EXCEPT ![d][src] = newFrom]
           valMid == [validators EXCEPT ![src] = valFrom]
<1>1. /\ oldFrom \in DelegationRecord /\ oldTo \in DelegationRecord
      /\ oldFrom.amount \in Int /\ oldFrom.shares \in Int /\ oldTo.amount \in Int
      /\ oldTo.shares \in Int /\ oldFrom.unbonding \in Int /\ oldTo.unbonding \in Int
      /\ oldFrom.rewards \in Int /\ oldTo.rewards \in Int
      /\ validators[src] \in ValidatorRecord /\ validators[dst] \in ValidatorRecord
      /\ validators[src].delegated \in Int /\ validators[dst].delegated \in Int
      /\ validators[src].self \in Nat /\ validators[dst].self \in Nat
      /\ validators[src].rewards \in Int /\ validators[dst].rewards \in Int
  BY InvParts, FieldTypes
<1>2. /\ amount \in Int /\ oldFrom.amount # 0 /\ src # dst
      /\ validators[dst].status = "active"
  BY StakingAssumption DEF Redelegate, IsActive
<1>3. shares \in Int
  BY <1>1, <1>2, SharesOfIsInt, InvParts
<1>4. validators[src].status # "none"
  BY <1>1, <1>2, InvParts DEF BooksInv, Unused
<1>5. /\ newFrom \in DelegationRecord /\ newFrom.amount = oldFrom.amount - amount
      /\ newFrom.shares = oldFrom.shares - shares
      /\ newFrom.unbonding = oldFrom.unbonding /\ newFrom.rewards = oldFrom.rewards
  <2>1. oldFrom.amount - amount \in Int /\ oldFrom.shares - shares \in Int
    BY <1>1, <1>2, <1>3
  <2> HIDE DEF oldFrom, shares
  <2> QED
    BY ONLY <1>1, <2>1 DEF DelegationRecord
<1>6. /\ newTo \in DelegationRecord /\ newTo.amount = oldTo.amount + amount
      /\ newTo.shares = oldTo.shares + shares
      /\ newTo.unbonding = oldTo.unbonding /\ newTo.rewards = oldTo.rewards
  <2>1. oldTo.amount + amount \in Int /\ oldTo.shares + shares \in Int
    BY <1>1, <1>2, <1>3
  <2> HIDE DEF oldTo, shares
  <2> QED
    BY ONLY <1>1, <2>1 DEF DelegationRecord
<1>7. ASSUME NEW old \in ValidatorRecord, NEW amt \in Int
      PROVE  LET new == [old EXCEPT !.delegated = @ + amt]
             IN  /\ new \in ValidatorRecord /\ new.delegated = old.delegated + amt
                 /\ new.status = old.status /\ new.self = old.self
                 /\ new.rewards = old.rewards /\ new.slashes = old.slashes
  <2>1. old.delegated + amt \in Int
    BY RecordFields
  <2> QED
    BY ONLY <2>1, old \in ValidatorRecord DEF ValidatorRecord
<1>8. /\ valFrom \in ValidatorRecord /\ valFrom.delegated = validators[src].delegated - amount
      /\ valFrom.status = validators[src].status /\ valFrom.self = validators[src].self
      /\ valFrom.rewards = validators[src].rewards /\ valFrom.slashes = validators[src].slashes
  <2> DEFINE old == validators[src]
  <2>1. old.delegated - amount \in Int
    BY <1>1, <1>2
  <2> HIDE DEF old
  <2>2. LET new == [old EXCEPT !.delegated = @ - amount]
        IN  /\ new \in ValidatorRecord /\ new.delegated = old.delegated - amount
            /\ new.status = old.status /\ new.self = old.self
            /\ new.rewards = old.rewards /\ new.slashes = old.slashes
    <3>1. old \in ValidatorRecord
      BY <1>1 DEF old
    <3> QED
      BY ONLY <2>1, <3>1 DEF ValidatorRecord
  <2> QED
    BY <2>2 DEF old
<1>9. /\ valTo \in ValidatorRecord /\ valTo.delegated = validators[dst].delegated + amount
      /\ valTo.status = validators[dst].status /\ valTo.self = validators[dst].self
      /\ valTo.rewards = validators[dst].rewards /\ valTo.slashes = validators[dst].slashes
  <2>1. amount \in Int
    BY <1>2
  <2> QED
    BY <1>1, <1>7, <2>1
<1>10. /\ delegations' = [delegations EXCEPT ![d][src] = newFrom, ![d][dst] = newTo]
       /\ UNCHANGED <<totalStaked, totalShares, totalRewards, now, rounds, deposited,
                      withdrawn, slashed, claimed, overcommitted>>
  BY DEF Redelegate, pool
<1>11. validators' = [validators EXCEPT ![src] = valFrom, ![dst] = valTo]
  BY <1>2, InvParts DEF Redelegate, BooksOK
<1>12. /\ delegations \in Books /\ validators \in Register
       /\ mid \in Books /\ delegations' \in Books
       /\ valMid \in Register /\ validators' \in Register
       /\ mid[d][src] = newFrom /\ mid[d][dst] = oldTo
       /\ delegations'[d][dst] = newTo /\ delegations'[d][src] = newFrom
       /\ valMid[src] = valFrom /\ valMid[dst] = validators[dst]
       /\ validators'[dst] = valTo /\ validators'[src] = valFrom
       /\ \A c \in Delegator, w \in Validator :
            /\ c # d \/ w # src => mid[c][w] = delegations[c][w]
            /\ c # d \/ w # dst => delegations'[c][w] = mid[c][w]
       /\ \A w \in Validator : /\ w # src => valMid[w] = validators[w]
                               /\ w # dst => validators'[w] = valMid[w]
  <2> HIDE DEF newFrom, newTo, valFrom, valTo
  <2>1. delegations \in Books /\ validators \in Register
    BY InvParts, BooksAreTyped
  <2>2. /\ mid \in Books /\ mid[d][src] = newFrom /\ mid[d][dst] = oldTo
        /\ \A c \in Delegator, w \in Validator :
             c # d \/ w # src => mid[c][w] = delegations[c][w]
    BY <1>2, <1>5, <2>1 DEF Books
  <2>3. delegations' = [mid EXCEPT ![d][dst] = newTo]
    BY <1>10
  <2> HIDE DEF mid
  <2>4. /\ delegations' \in Books /\ delegations'[d][dst] = newTo
        /\ \A c \in Delegator, w \in Validator :
             c # d \/ w # dst => delegations'[c][w] = mid[c][w]
    BY <1>6, <2>2, <2>3 DEF Books
  <2>5. delegations'[d][src] = newFrom
    BY <1>2, <2>2, <2>4
  <2>6. /\ valMid \in Register /\ valMid[src] = valFrom /\ valMid[dst] = validators[dst]
        /\ \A w \in Validator : w # src => valMid[w] = validators[w]
    BY <1>2, <1>8, <2>1 DEF Register
  <2>7. validators' = [valMid EXCEPT ![dst] = valTo]
    BY <1>11
  <2> HIDE DEF valMid
  <2>8. /\ validators' \in Register /\ validators'[dst] = valTo
        /\ \A w \in Validator : w # dst => validators'[w] = valMid[w]
    BY <1>9, <2>6, <2>7 DEF Register
  <2> QED
    BY <1>2, <2>1, <2>2, <2>4, <2>5, <2>6, <2>8
<1> HIDE DEF newFrom, newTo, valFrom, valTo, mid, valMid
<1>13. /\ Amounts(mid, src) = Amounts(delegations, src) + (newFrom.amount - oldFrom.amount)
       /\ \A w \in Validator : w # src => Amounts(mid, w) = Amounts(delegations, w)
       /\ AllShares(mid) = AllShares(delegations) + (newFrom.shares - oldFrom.shares)
       /\ AllUnbonding(mid)
            = AllUnbonding(delegations) + (newFrom.unbonding - oldFrom.unbonding)
       /\ AllRewards(validators', mid)
            = AllRewards(validators', delegations) + (newFrom.rewards - oldFrom.rewards)
  BY ONLY <1>12, OneDelegation, d \in Delegator, src \in Validator
<1>14. /\ Amounts(delegations', dst) = Amounts(mid, dst) + (newTo.amount - oldTo.amount)
       /\ \A w \in Validator : w # dst => Amounts(delegations', w) = Amounts(mid, w)
       /\ AllShares(delegations') = AllShares(mid) + (newTo.shares - oldTo.shares)
       /\ AllUnbonding(delegations') = AllUnbonding(mid) + (newTo.unbonding - oldTo.unbonding)
       /\ AllRewards(validators', delegations')
            = AllRewards(validators', mid) + (newTo.rewards - oldTo.rewards)
  BY ONLY <1>12, OneDelegation, d \in Delegator, dst \in Validator
<1>15. /\ AllStake(valMid) = AllStake(validators) + (valFrom.self - validators[src].self)
                               + (valFrom.delegated - validators[src].delegated)
       /\ AllRewards(valMid, delegations)
            = AllRewards(validators, delegations) + (valFrom.rewards - validators[src].rewards)
  BY ONLY <1>12, OneValidator, src \in Validator
<1>16. /\ AllStake(validators') = AllStake(valMid) + (valTo.self - validators[dst].self)
                               + (valTo.delegated - validators[dst].delegated)
       /\ AllRewards(validators', delegations)
            = AllRewards(valMid, delegations) + (valTo.rewards - validators[dst].rewards)
  BY ONLY <1>12, OneValidator, dst \in Validator
<1>17. /\ newFrom.amount - oldFrom.amount = -amount /\ newTo.amount - oldTo.amount = amount
       /\ newFrom.shares - oldFrom.shares = -shares /\ newTo.shares - oldTo.shares = shares
       /\ newFrom.unbonding - oldFrom.unbonding = 0 /\ newTo.unbonding - oldTo.unbonding = 0
       /\ newFrom.rewards - oldFrom.rewards = 0 /\ newTo.rewards - oldTo.rewards = 0
       /\ valFrom.self - validators[src].self = 0 /\ valTo.self - validators[dst].self = 0
       /\ valFrom.delegated - validators[src].delegated = -amount
       /\ valTo.delegated - validators[dst].delegated = amount
       /\ valFrom.rewards - validators[src].rewards = 0
       /\ valTo.rewards - validators[dst].rewards = 0
  BY <1>1, <1>2, <1>3, <1>5, <1>6, <1>8, <1>9
<1>18. /\ AllStake(validators) \in Int /\ AllShares(delegations) \in Int
       /\ AllUnbonding(delegations) \in Int /\ AllRewards(validators, delegations) \in Int
       /\ \A w \in Validator : Amounts(delegations, w) \in Int
  BY <1>12, Summands
<1>19. /\ AllStake(validators') = AllStake(validators) + 0
       /\ AllRewards(validators', delegations) = AllRewards(validators, delegations)
  BY ONLY <1>2, <1>15, <1>16, <1>17, <1>18
<1>20. /\ AllShares(delegations') = AllShares(delegations) + 0
       /\ AllUnbonding(delegations') = AllUnbonding(delegations) + 0
       /\ AllRewards(validators', delegations') = AllRewards(validators, delegations) + 0
  BY ONLY <1>3, <1>13, <1>14, <1>17, <1>18, <1>19
<1>21. SlashRoundingBounded'
  <2>1. ASSUME NEW w \in Validator
        PROVE  /\ Amounts(delegations', w) - Amounts(delegations, w)
                    = validators'[w].delegated - validators[w].delegated
               /\ validators'[w].slashes = validators[w].slashes
    <3>1. Amounts(delegations, w) \in Int /\ validators[w].delegated \in Int
      BY ExcessIs, InvParts
    <3>2. CASE w = src
      BY <1>2, <1>8, <1>12, <1>13, <1>14, <1>17, <3>1, <3>2
    <3>3. CASE w = dst
      BY <1>2, <1>9, <1>12, <1>13, <1>14, <1>17, <3>1, <3>3
    <3>4. CASE w # src /\ w # dst
      BY <1>12, <1>13, <1>14, <3>1, <3>4
    <3> QED
      BY <3>2, <3>3, <3>4
  <2> QED
    BY <1>12, <2>1, ExcessKept, InvParts DEF BooksInv
<1>22. Unused'
  <2> SUFFICES ASSUME NEW w \in Validator, validators'[w].status = "none"
               PROVE  /\ validators'[w].self = 0 /\ validators'[w].delegated = 0
                      /\ validators'[w].rewards = 0 /\ validators'[w].slashes = 0
                      /\ \A c \in Delegator : delegations'[c][w].amount = 0
    BY DEF Unused
  <2>1. w # src /\ w # dst
    BY <1>2, <1>4, <1>8, <1>9, <1>12
  <2>2. validators'[w] = validators[w] /\ \A c \in Delegator : delegations'[c][w] = delegations[c][w]
    BY <1>12, <2>1
  <2> QED
    BY <2>2, InvParts DEF BooksInv, Unused
<1>23. Moves(0, 0, 0, 0)
  BY <1>12, <1>19, <1>20, <1>21, <1>22 DEF Moves
<1>24. CountersOK'
  BY <1>10 DEF CountersOK, StakingInv
<1>25. /\ totalStaked' = totalStaked + 0 /\ totalShares' = totalShares + 0
       /\ deposited' - deposited = (withdrawn' - withdrawn) + (slashed' - slashed) + 0 + 0
       /\ (claimed' - claimed) + 0 <= totalRewards' - totalRewards
  BY <1>10, InvParts
<1> QED
  BY <1>10, <1>23, <1>24, <1>25, LedgerStep

---------------------------------------------------------------------------
\* Parts of a whole that are rounded down: they add up to at most the whole, and
\* to less by at most one for each part.

LEMMA ScaledSum ==
  ASSUME NEW S, IsFiniteSet(S), NEW f \in [S -> Int], NEW a \in Int
  PROVE  /\ [x \in S |-> a * f[x]] \in [S -> Int]
         /\ SumFunction([x \in S |-> a * f[x]]) = a * SumFunction(f)
<1> DEFINE h == [x \in S |-> a * f[x]]
           z == [x \in S |-> 0]
<1>1. h \in [S -> Int] /\ z \in [S -> Int]
  OBVIOUS
<1>2. \A x \in S : z[x] \in Int /\ f[x] \in Int /\ h[x] = z[x] + a * f[x]
  <2> SUFFICES ASSUME NEW x \in S
               PROVE  z[x] \in Int /\ f[x] \in Int /\ h[x] = z[x] + a * f[x]
    OBVIOUS
  <2>1. f[x] \in Int /\ a * f[x] \in Int /\ z[x] = 0 /\ h[x] = a * f[x]
    OBVIOUS
  <2> QED
    BY <2>1
<1>3. \A x \in S : z[x] = 0
  OBVIOUS
<1> HIDE DEF h, z
<1>4. SumFunctionOnSet(h, S) = SumFunctionOnSet(z, S) + a * SumFunctionOnSet(f, S)
  BY <1>2, SumLinear
<1>5. SumFunction(z) = 0
  BY <1>1, <1>3, SumOfZeros
<1>6. /\ SumFunction(h) = SumFunctionOnSet(h, S) /\ SumFunction(f) = SumFunctionOnSet(f, S)
      /\ SumFunction(z) = SumFunctionOnSet(z, S) /\ SumFunction(f) \in Int
  BY <1>1, SumType
<1>7. SumFunction(h) = a * SumFunction(f)
  <2>1. a * SumFunction(f) \in Int
    BY <1>6
  <2> QED
    BY <1>4, <1>5, <1>6, <2>1
<1> QED
  BY <1>1, <1>7 DEF h

LEMMA SumOrder ==
  ASSUME NEW S, IsFiniteSet(S), NEW f \in [S -> Int], NEW g \in [S -> Int],
         \A x \in S : f[x] <= g[x]
  PROVE  SumFunction(f) <= SumFunction(g)
<1>1. \A x \in S : f[x] \in Int /\ g[x] \in Int /\ f[x] <= g[x]
  OBVIOUS
<1> QED
  BY <1>1, SumMonotone, SumType

LEMMA SumAdds ==
  ASSUME NEW S, IsFiniteSet(S), NEW f \in [S -> Int], NEW g \in [S -> Int],
         NEW h \in [S -> Int], NEW a \in Int, \A x \in S : h[x] = f[x] + a * g[x]
  PROVE  SumFunction(h) = SumFunction(f) + a * SumFunction(g)
<1>1. \A x \in S : f[x] \in Int /\ g[x] \in Int /\ h[x] = f[x] + a * g[x]
  OBVIOUS
<1>2. SumFunctionOnSet(h, S) = SumFunctionOnSet(f, S) + a * SumFunctionOnSet(g, S)
  BY <1>1, SumLinear
<1> QED
  BY <1>2, SumType

LEMMA PartsOfWhole ==
  ASSUME NEW S, IsFiniteSet(S), NEW f \in [S -> Int], NEW part \in [S -> Int],
         NEW whole \in Nat \ {0}, NEW given \in Int,
         \A x \in S : part[x] = FloorDiv(given * f[x], whole)
  PROVE  /\ whole * SumFunction(part) <= given * SumFunction(f)
         /\ given * SumFunction(f) <= whole * SumFunction(part) + whole * Cardinality(S)
<1> DEFINE lower == [x \in S |-> whole * part[x]]
           middle == [x \in S |-> given * f[x]]
           wholes == [x \in S |-> whole]
           upper == [x \in S |-> whole + whole * part[x]]
<1>1. /\ lower \in [S -> Int] /\ SumFunction(lower) = whole * SumFunction(part)
      /\ middle \in [S -> Int] /\ SumFunction(middle) = given * SumFunction(f)
  BY ScaledSum
<1>2. ASSUME NEW x \in S
      PROVE  /\ whole * part[x] <= given * f[x]
             /\ given * f[x] <= whole + whole * part[x]
             /\ whole * part[x] \in Int
  <2>1. f[x] \in Int /\ part[x] \in Int
    OBVIOUS
  <2>2. given * f[x] \in Int /\ whole * part[x] \in Int
    BY <2>1
  <2>3. /\ whole * part[x] <= given * f[x]
        /\ given * f[x] < whole * part[x] + whole
    BY <2>2, FloorDivBounds
  <2> QED
    BY <2>2, <2>3
<1>3. wholes \in [S -> Int] /\ upper \in [S -> Int]
  BY <1>2
<1>4. /\ \A x \in S : lower[x] <= middle[x] /\ middle[x] <= upper[x]
      /\ \A x \in S : upper[x] = wholes[x] + whole * part[x]
      /\ \A x \in S : wholes[x] = whole
  BY <1>2
<1> HIDE DEF lower, middle, wholes, upper
<1>5. SumFunction(lower) <= SumFunction(middle) /\ SumFunction(middle) <= SumFunction(upper)
  BY <1>1, <1>3, <1>4, SumOrder
<1>6. SumFunction(upper) = SumFunction(wholes) + whole * SumFunction(part)
  <2>1. whole \in Int /\ \A x \in S : upper[x] = wholes[x] + whole * part[x]
    BY <1>4
  <2> QED
    BY ONLY <1>3, <2>1, SumAdds, IsFiniteSet(S), part \in [S -> Int]
<1>7. SumFunction(wholes) = whole * Cardinality(S)
  BY <1>3, <1>4, SumConstant, SumType
<1>8. whole * SumFunction(part) \in Int /\ whole * Cardinality(S) \in Int
  BY SumType, FS_CardinalityType
<1> QED
  BY <1>1, <1>5, <1>6, <1>7, <1>8

\* What the roundings of one slash do to the excess: `amounts' is what the
\* delegations are worth, `delegated' the stake, `lost' what the parts add up to.
LEMMA RoundingArithmetic ==
  ASSUME NEW delegated \in Nat \ {0}, NEW amounts \in Int, NEW part \in Nat,
         NEW lost \in Int, NEW n \in Nat, part <= delegated, delegated <= amounts,
         delegated * lost <= part * amounts,
         part * amounts <= delegated * lost + delegated * n
  PROVE  lost - part <= amounts - delegated /\ part - lost <= n
<1>1. (delegated - part) * (amounts - delegated) \in Nat
  <2>1. delegated - part \in Nat /\ amounts - delegated \in Nat
    OBVIOUS
  <2> QED
    BY ONLY <2>1
<1>2. (delegated - part) * (amounts - delegated)
        = delegated * (part + amounts - delegated) - part * amounts
  OBVIOUS
<1>3. delegated * lost <= delegated * (part + amounts - delegated)
  BY <1>1, <1>2
<1>4. lost <= part + amounts - delegated
  BY <1>3, ProductCancels
<1>5. part * delegated <= part * amounts
  BY ProductOrder
<1>6. delegated * part <= delegated * (lost + n)
  BY <1>5
<1>7. part <= lost + n
  BY <1>6, ProductCancels
<1> QED
  BY <1>4, <1>7

---------------------------------------------------------------------------
\* Slashing.

\* A validator's own stake covers the slash, or the delegated stake covers the
\* rest of it.
LEMMA SlashBounds ==
  ASSUME BooksOK, NEW v \in Validator, NEW f \in Fraction
  PROVE  /\ SlashAmount(v, f) \in Int /\ Remaining(v, f) \in Nat
         /\ Remaining(v, f) = 0 => SlashAmount(v, f) <= validators[v].self
         /\ Remaining(v, f) # 0 =>
              /\ validators[v].delegated > 0
              /\ Remaining(v, f) <= validators[v].delegated
              /\ SlashAmount(v, f) = validators[v].self + Remaining(v, f)
<1> DEFINE total == TotalStake(v)
           amount == SlashAmount(v, f)
<1>1. /\ validators[v].self \in Nat /\ validators[v].delegated \in Int /\ total \in Int
      /\ total = validators[v].self + validators[v].delegated
  BY FieldTypes DEF TotalStake
<1>2. f \in 0 .. BASIS_POINTS /\ f \in Nat /\ BASIS_POINTS \in Nat \ {0}
  <2>1. f \in 0 .. BASIS_POINTS /\ BASIS_POINTS \in Nat \ {0}
    BY StakingAssumption
  <2> QED
    BY <2>1
<1>3. amount \in Int /\ BASIS_POINTS * amount <= total * f
  <2>1. total * f \in Int /\ amount = FloorDiv(total * f, BASIS_POINTS)
    BY <1>1, <1>2 DEF SlashAmount
  <2> HIDE DEF total, amount
  <2> QED
    BY <1>2, <2>1, FloorDivBounds
<1> HIDE DEF total, amount
<1>4. total >= 0 => amount <= total
  <2> SUFFICES ASSUME total >= 0
               PROVE  amount <= total
    OBVIOUS
  <2>1. total \in Nat
    BY <1>1
  <2>2. total * f <= total * BASIS_POINTS
    BY <1>2, <2>1, ProductOrder
  <2>3. BASIS_POINTS * amount <= BASIS_POINTS * total
    BY <1>1, <1>2, <1>3, <2>2
  <2> QED
    BY <1>1, <1>2, <1>3, <2>3, ProductCancels
<1>5. total < 0 => amount <= 0
  <2> SUFFICES ASSUME total < 0
               PROVE  amount <= 0
    OBVIOUS
  <2>1. total * f <= 0 * f
    BY <1>1, <1>2, ProductOrder
  <2>2. BASIS_POINTS * amount <= BASIS_POINTS * 0
    BY <1>1, <1>2, <1>3, <2>1
  <2> QED
    BY <1>2, <1>3, <2>2, ProductCancels
<1>6. validators[v].delegated <= 0 => amount <= validators[v].self
  BY <1>1, <1>3, <1>4, <1>5
<1>7. Remaining(v, f) = IF validators[v].self >= amount \/ validators[v].delegated <= 0
                        THEN 0 ELSE amount - validators[v].self
  BY DEF Remaining, amount
<1>8. amount \in Int /\ Remaining(v, f) \in Nat
  BY <1>1, <1>3, <1>7
<1>9. Remaining(v, f) = 0 => amount <= validators[v].self
  BY <1>1, <1>3, <1>6, <1>7
<1>10. Remaining(v, f) # 0 =>
         /\ validators[v].delegated > 0
         /\ Remaining(v, f) <= validators[v].delegated
         /\ amount = validators[v].self + Remaining(v, f)
  BY <1>1, <1>3, <1>4, <1>7
<1> QED
  BY <1>8, <1>9, <1>10 DEF amount

\* What one delegation loses, and all of them.
LEMMA LostBounds ==
  ASSUME BooksInv, NEW v \in Validator, NEW f \in Fraction
  PROVE  /\ \A d \in Delegator : Lost(d, v, f) \in Int
         /\ LET lost == SumFunction([d \in Delegator |-> Lost(d, v, f)])
            IN  /\ lost \in Int
                /\ lost - Remaining(v, f) <= Excess(v)
                /\ Remaining(v, f) - lost <= Cardinality(Delegator)
<1> DEFINE part == Remaining(v, f)
           losses == [d \in Delegator |-> Lost(d, v, f)]
           amounts == [d \in Delegator |-> delegations[d][v].amount]
           n == Cardinality(Delegator)
<1>1. /\ part \in Nat /\ n \in Nat /\ BooksOK
      /\ part # 0 => validators[v].delegated > 0 /\ part <= validators[v].delegated
  BY SlashBounds, DelegatorsCounted DEF BooksInv
<1>2. \A d \in Delegator : delegations[d][v].amount \in Int
  BY <1>1, FieldTypes
<1>3. Excess(v) >= 0 /\ Excess(v) \in Int
  BY <1>1, ExcessIs DEF BooksInv, SlashRoundingBounded
<1>4. CASE part = 0
  <2>1. \A d \in Delegator : Lost(d, v, f) = 0
    BY <1>4 DEF Lost
  <2>2. losses \in [Delegator -> Int] /\ \A d \in Delegator : losses[d] = 0
    BY <2>1
  <2> HIDE DEF losses, part
  <2>3. SumFunction(losses) = 0
    BY <2>2, SumOfZeros, StakingAssumption
  <2>4. LET lost == SumFunction(losses)
        IN  lost \in Int /\ lost - part <= Excess(v) /\ part - lost <= n
    BY <1>1, <1>3, <1>4, <2>3
  <2> QED
    BY <1>2, <2>1, <2>4 DEF losses, part
<1>5. CASE part # 0
  <2> DEFINE whole == validators[v].delegated
  <2>1. whole \in Nat \ {0} /\ part <= whole
    BY <1>1, <1>5, FieldTypes
  <2>2. \A d \in Delegator : Lost(d, v, f) = FloorDiv(part * delegations[d][v].amount, whole)
    BY <1>5 DEF Lost
  <2> HIDE DEF part
  <2>3. \A d \in Delegator : Lost(d, v, f) \in Int
    <3> HIDE DEF whole
    <3>1. \A d \in Delegator : part * delegations[d][v].amount \in Int
      BY <1>1, <1>2
    <3> QED
      BY <2>1, <2>2, <3>1, FloorDivBounds
  <2>4. /\ losses \in [Delegator -> Int] /\ amounts \in [Delegator -> Int]
        /\ \A d \in Delegator : losses[d] = FloorDiv(part * amounts[d], whole)
    BY <1>2, <2>2, <2>3
  <2>5. Excess(v) = SumFunction(amounts) - whole
    BY DEF Excess, Delegated
  <2> HIDE DEF losses, amounts, whole
  <2>6. /\ SumFunction(losses) \in Int /\ SumFunction(amounts) \in Int
    BY <2>4, SumType, StakingAssumption
  <2>7. whole <= SumFunction(amounts)
    BY <1>3, <2>1, <2>5, <2>6
  <2>8. /\ whole * SumFunction(losses) <= part * SumFunction(amounts)
        /\ part * SumFunction(amounts) <= whole * SumFunction(losses) + whole * n
    <3>1. part \in Int
      BY <1>1
    <3> QED
      BY ONLY <2>1, <2>4, <3>1, PartsOfWhole, StakingAssumption
  <2>9. /\ SumFunction(losses) - part <= SumFunction(amounts) - whole
        /\ part - SumFunction(losses) <= n
    <3> HIDE DEF n
    <3> QED
      BY ONLY <1>1, <2>1, <2>6, <2>7, <2>8, RoundingArithmetic
  <2> QED
    BY <2>3, <2>5, <2>6, <2>9 DEF losses, part
<1> QED
  BY <1>4, <1>5

\* Sums of fields that do not change.
LEMMA SumsStay ==
  ASSUME NEW dels \in Books, NEW more \in Books
  PROVE  /\ (\A d \in Delegator, v \in Validator : more[d][v].shares = dels[d][v].shares)
              => AllShares(more) = AllShares(dels)
         /\ (\A d \in Delegator, v \in Validator : more[d][v].unbonding = dels[d][v].unbonding)
              => AllUnbonding(more) = AllUnbonding(dels)
         /\ (\A d \in Delegator, v \in Validator : more[d][v].rewards = dels[d][v].rewards)
              => \A v \in Validator : Credited(more, v) = Credited(dels, v)
         /\ \A v \in Validator :
              (\A d \in Delegator : more[d][v].amount = dels[d][v].amount)
                => Amounts(more, v) = Amounts(dels, v)
<1>1. ASSUME \A d \in Delegator, v \in Validator : more[d][v].shares = dels[d][v].shares
      PROVE  AllShares(more) = AllShares(dels)
  <2>1. ASSUME NEW v \in Validator
        PROVE  Shares(more, v) = Shares(dels, v)
    <3>1. [d \in Delegator |-> more[d][v].shares] = [d \in Delegator |-> dels[d][v].shares]
      BY <1>1
    <3> QED
      BY <3>1 DEF Shares
  <2>2. [v \in Validator |-> Shares(more, v)] = [v \in Validator |-> Shares(dels, v)]
    BY <2>1
  <2> QED
    BY <2>2 DEF AllShares
<1>2. ASSUME \A d \in Delegator, v \in Validator : more[d][v].unbonding = dels[d][v].unbonding
      PROVE  AllUnbonding(more) = AllUnbonding(dels)
  <2>1. ASSUME NEW d \in Delegator
        PROVE  Unbonding(more, d) = Unbonding(dels, d)
    <3>1. [v \in Validator |-> more[d][v].unbonding] = [v \in Validator |-> dels[d][v].unbonding]
      BY <1>2
    <3> QED
      BY <3>1 DEF Unbonding
  <2>2. [d \in Delegator |-> Unbonding(more, d)] = [d \in Delegator |-> Unbonding(dels, d)]
    BY <2>1
  <2> QED
    BY <2>2 DEF AllUnbonding
<1>3. ASSUME \A d \in Delegator, v \in Validator : more[d][v].rewards = dels[d][v].rewards,
             NEW v \in Validator
      PROVE  Credited(more, v) = Credited(dels, v)
  <2>1. [d \in Delegator |-> more[d][v].rewards] = [d \in Delegator |-> dels[d][v].rewards]
    BY <1>3
  <2> QED
    BY <2>1 DEF Credited
<1>4. ASSUME NEW v \in Validator, \A d \in Delegator : more[d][v].amount = dels[d][v].amount
      PROVE  Amounts(more, v) = Amounts(dels, v)
  <2>1. [d \in Delegator |-> more[d][v].amount] = [d \in Delegator |-> dels[d][v].amount]
    BY <1>4
  <2> QED
    BY <2>1 DEF Amounts
<1> QED
  BY <1>1, <1>2, <1>3, <1>4

LEMMA SlashKeeps ==
  ASSUME StakingInv, NEW v \in Validator, NEW f \in Fraction, SlashValidator(v, f)
  PROVE  StakingInv'
<1> DEFINE amount == SlashAmount(v, f)
           part == Remaining(v, f)
           old == validators[v]
           new == [old EXCEPT !.self = IF @ >= amount THEN @ - amount ELSE 0,
                              !.delegated = @ - part, !.slashes = @ + 1]
           loss(d) == Lost(d, v, f)
           less(d) == [delegations[d][v] EXCEPT !.amount = @ - loss(d)]
           lost == SumFunction([d \in Delegator |-> loss(d)])
<1>1. /\ old \in ValidatorRecord /\ old.self \in Nat /\ old.delegated \in Int
      /\ old.slashes \in Nat /\ old.rewards \in Int /\ BooksOK /\ BooksInv
      /\ old.status # "none"
  BY InvParts, FieldTypes DEF SlashValidator, Registered
<1>2. /\ amount \in Int /\ part \in Nat
      /\ part = 0 => amount <= old.self
      /\ part # 0 => amount = old.self + part
  BY <1>1, SlashBounds
<1>3. /\ \A d \in Delegator : loss(d) \in Int
      /\ lost \in Int /\ lost - part <= Excess(v) /\ part - lost <= Cardinality(Delegator)
  BY <1>1, LostBounds
<1>4. /\ validators' = [validators EXCEPT ![v] = new]
      /\ delegations' = [d \in Delegator |-> [delegations[d] EXCEPT ![v].amount = @ - loss(d)]]
      /\ totalStaked' = totalStaked - amount /\ slashed' = slashed + amount
      /\ UNCHANGED <<totalShares, totalRewards, now, rounds, deposited, withdrawn, claimed,
                     overcommitted>>
  BY DEF SlashValidator, OwnLeft
<1> HIDE DEF amount, part, loss, lost
<1>5. /\ new \in ValidatorRecord /\ new.status = old.status
      /\ new.self = IF old.self >= amount THEN old.self - amount ELSE 0
      /\ new.delegated = old.delegated - part
      /\ new.rewards = old.rewards /\ new.slashes = old.slashes + 1
  <2> DEFINE own == IF old.self >= amount THEN old.self - amount ELSE 0
  <2>1. own \in Nat /\ old.delegated - part \in Int /\ old.slashes + 1 \in Nat
    BY <1>1, <1>2
  <2> HIDE DEF old
  <2>2. new = [old EXCEPT !.self = own, !.delegated = @ - part, !.slashes = @ + 1]
    OBVIOUS
  <2> HIDE DEF own, new
  <2>3. /\ new \in ValidatorRecord /\ new.status = old.status /\ new.self = own
        /\ new.delegated = old.delegated - part
        /\ new.rewards = old.rewards /\ new.slashes = old.slashes + 1
    BY ONLY <1>1, <2>1, <2>2 DEF ValidatorRecord
  <2> QED
    BY <2>3 DEF own
<1>6. ASSUME NEW d \in Delegator
      PROVE  /\ less(d) \in DelegationRecord
             /\ less(d).amount = delegations[d][v].amount - loss(d)
             /\ less(d).shares = delegations[d][v].shares
             /\ less(d).unbonding = delegations[d][v].unbonding
             /\ less(d).rewards = delegations[d][v].rewards
  <2> DEFINE was == delegations[d][v]
             taken == loss(d)
  <2>1. was \in DelegationRecord /\ was.amount - taken \in Int
    BY <1>1, <1>3, FieldTypes
  <2> HIDE DEF was, taken
  <2>2. LET now1 == [was EXCEPT !.amount = @ - taken]
        IN  /\ now1 \in DelegationRecord /\ now1.amount = was.amount - taken
            /\ now1.shares = was.shares /\ now1.unbonding = was.unbonding
            /\ now1.rewards = was.rewards
    BY ONLY <2>1 DEF DelegationRecord
  <2> QED
    BY <2>2 DEF was, taken
<1>7. \A d \in Delegator : [delegations[d] EXCEPT ![v].amount = @ - loss(d)]
                             = [delegations[d] EXCEPT ![v] = less(d)]
  BY <1>1 DEF BooksOK
<1> HIDE DEF less, new
<1>8. /\ validators \in Register /\ delegations \in Books
      /\ validators' \in Register /\ validators'[v] = new
      /\ \A w \in Validator : w # v => validators'[w] = validators[w]
  BY <1>1, <1>4, <1>5, BooksAreTyped DEF Register
<1>9. /\ delegations' \in Books
      /\ \A d \in Delegator : delegations'[d][v] = less(d)
      /\ \A d \in Delegator, w \in Validator : w # v => delegations'[d][w] = delegations[d][w]
  <2>1. delegations' = [d \in Delegator |-> [delegations[d] EXCEPT ![v] = less(d)]]
    BY <1>4, <1>7
  <2>2. \A d \in Delegator : /\ [delegations[d] EXCEPT ![v] = less(d)]
                                  \in [Validator -> DelegationRecord]
                             /\ [delegations[d] EXCEPT ![v] = less(d)][v] = less(d)
    BY <1>6, <1>8 DEF Books
  <2>3. \A d \in Delegator, w \in Validator :
          w # v => [delegations[d] EXCEPT ![v] = less(d)][w] = delegations[d][w]
    BY <1>8 DEF Books
  <2> QED
    BY <2>1, <2>2, <2>3 DEF Books
<1>10. \A d \in Delegator, w \in Validator :
         /\ delegations'[d][w].shares = delegations[d][w].shares
         /\ delegations'[d][w].unbonding = delegations[d][w].unbonding
         /\ delegations'[d][w].rewards = delegations[d][w].rewards
  BY <1>6, <1>9
<1>11. /\ AllShares(delegations') = AllShares(delegations)
       /\ AllUnbonding(delegations') = AllUnbonding(delegations)
       /\ \A w \in Validator : Credited(delegations', w) = Credited(delegations, w)
       /\ \A w \in Validator : w # v => Amounts(delegations', w) = Amounts(delegations, w)
  BY <1>8, <1>9, <1>10, SumsStay
<1>12. AllRewards(validators', delegations') = AllRewards(validators', delegations)
  <2>1. [w \in Validator |-> validators'[w].rewards + Credited(delegations', w)]
          = [w \in Validator |-> validators'[w].rewards + Credited(delegations, w)]
    BY <1>11
  <2> QED
    BY <2>1 DEF AllRewards
<1>13. /\ AllStake(validators') = AllStake(validators) + (new.self - old.self)
                                    + (new.delegated - old.delegated)
       /\ AllRewards(validators', delegations)
            = AllRewards(validators, delegations) + (new.rewards - old.rewards)
  BY <1>8, OneValidator
<1>14. /\ AllStake(validators) \in Int /\ AllRewards(validators, delegations) \in Int
       /\ AllShares(delegations) \in Int /\ AllUnbonding(delegations) \in Int
       /\ Amounts(delegations, v) \in Int
  BY <1>8, Summands
<1>15. (new.self - old.self) + (new.delegated - old.delegated) = -amount
  BY <1>1, <1>2, <1>5
<1>16. /\ AllStake(validators') = AllStake(validators) + (-amount)
       /\ AllShares(delegations') = AllShares(delegations) + 0
       /\ AllUnbonding(delegations') = AllUnbonding(delegations) + 0
       /\ AllRewards(validators', delegations') = AllRewards(validators, delegations) + 0
  BY <1>1, <1>2, <1>5, <1>11, <1>12, <1>13, <1>14, <1>15
<1>17. Amounts(delegations', v) = Amounts(delegations, v) - lost
  <2> DEFINE g == [d \in Delegator |-> delegations[d][v].amount]
             l == [d \in Delegator |-> loss(d)]
             h == [d \in Delegator |-> delegations'[d][v].amount]
  <2>1. /\ g \in [Delegator -> Int] /\ l \in [Delegator -> Int] /\ h \in [Delegator -> Int]
        /\ \A d \in Delegator : h[d] = g[d] + (-1) * l[d]
    <3>1. \A d \in Delegator : /\ delegations[d][v].amount \in Int /\ loss(d) \in Int
                               /\ delegations'[d][v].amount
                                    = delegations[d][v].amount - loss(d)
      BY <1>1, <1>3, <1>6, <1>9, FieldTypes
    <3> QED
      BY <3>1
  <2> HIDE DEF g, l, h
  <2>2. -1 \in Int
    OBVIOUS
  <2>3. SumFunction(h) = SumFunction(g) + (-1) * SumFunction(l)
    BY ONLY <2>1, <2>2, SumAdds, StakingAssumption
  <2>4. SumFunction(g) \in Int /\ SumFunction(l) \in Int
    BY <2>1, SumType, StakingAssumption
  <2>5. SumFunction(h) = SumFunction(g) - SumFunction(l)
    BY <2>3, <2>4
  <2> QED
    BY <2>5 DEF g, h, l, Amounts, lost
<1>18. SlashRoundingBounded'
  <2> SUFFICES ASSUME NEW w \in Validator
               PROVE  Excess(w)' \in 0 .. validators'[w].slashes * Cardinality(Delegator)
    BY DEF SlashRoundingBounded
  <2>1. Excess(w)' = Amounts(delegations', w) - validators'[w].delegated
    BY DEF Excess, Delegated, Amounts
  <2>2. /\ Excess(w) = Amounts(delegations, w) - validators[w].delegated
        /\ Excess(w) \in Int /\ Amounts(delegations, w) \in Int
        /\ validators[w].delegated \in Int /\ validators[w].slashes \in Nat
        /\ Excess(w) \in 0 .. validators[w].slashes * Cardinality(Delegator)
    BY <1>1, ExcessIs DEF BooksInv, SlashRoundingBounded
  <2>3. CASE w # v
    BY <1>8, <1>11, <2>1, <2>2, <2>3
  <2>4. CASE w = v
    <3>1. PICK e \in Int, e1 \in Int, n \in Nat, k \in Nat :
            /\ e = Excess(v) /\ e1 = e + part - lost /\ n = Cardinality(Delegator)
            /\ k = old.slashes
      <4>1. /\ Excess(v) \in Int /\ Excess(v) + part - lost \in Int
            /\ Cardinality(Delegator) \in Nat /\ old.slashes \in Nat
        BY <1>1, <1>2, <1>3, <2>2, <2>4, DelegatorsCounted
      <4> QED
        BY ONLY <4>1
    <3>2. Excess(v)' = e1 /\ validators'[v].slashes = k + 1
      BY <1>1, <1>2, <1>3, <1>5, <1>8, <1>17, <2>1, <2>2, <2>4, <3>1
    <3>3. e \in 0 .. k * n /\ lost - part <= e /\ part - lost <= n
      BY <1>3, <2>2, <2>4, <3>1
    <3>4. k * n \in Nat /\ (k + 1) * n = k * n + n
      OBVIOUS
    <3>5. e1 \in 0 .. (k + 1) * n
      BY <1>2, <1>3, <3>1, <3>3, <3>4
    <3> QED
      BY <2>4, <3>1, <3>2, <3>5
  <2> QED
    BY <2>3, <2>4
<1>19. Unused'
  <2> SUFFICES ASSUME NEW w \in Validator, validators'[w].status = "none"
               PROVE  /\ validators'[w].self = 0 /\ validators'[w].delegated = 0
                      /\ validators'[w].rewards = 0 /\ validators'[w].slashes = 0
                      /\ \A c \in Delegator : delegations'[c][w].amount = 0
    BY DEF Unused
  <2>1. w # v
    BY <1>1, <1>5, <1>8
  <2>2. validators'[w] = validators[w] /\ \A c \in Delegator : delegations'[c][w] = delegations[c][w]
    BY <1>8, <1>9, <2>1
  <2> QED
    BY <1>1, <2>2 DEF BooksInv, Unused
<1>20. Moves(-amount, 0, 0, 0)
  BY <1>8, <1>9, <1>16, <1>18, <1>19 DEF Moves
<1>21. CountersOK'
  BY <1>2, <1>4, InvParts DEF CountersOK, StakingInv
<1>22. /\ totalStaked' = totalStaked + (-amount) /\ totalShares' = totalShares + 0
       /\ deposited' - deposited
            = (withdrawn' - withdrawn) + (slashed' - slashed) + (-amount) + 0
       /\ (claimed' - claimed) + 0 <= totalRewards' - totalRewards
       /\ -amount \in Int
  BY <1>2, <1>4, InvParts
<1> QED
  BY <1>4, <1>20, <1>21, <1>22, LedgerStep

---------------------------------------------------------------------------
\* Rewards.

LEMMA ClaimAllKeeps ==
  ASSUME StakingInv, NEW d \in Delegator, ClaimAllRewards(d)
  PROVE  StakingInv'
<1> DEFINE row == [v \in Validator |-> delegations[d][v].rewards]
           paid == SumFunction(row)
<1>1. BooksOK /\ BooksInv /\ validators \in Register /\ delegations \in Books
  BY InvParts, BooksAreTyped
<1>2. Claim(d, Validator) /\ Validator \in SUBSET Validator
  BY DEF ClaimAllRewards
<1>3. UNCHANGED <<validators, totalStaked, totalShares, totalRewards, now, rounds,
                  deposited, withdrawn, slashed, overcommitted>>
  BY DEF ClaimAllRewards, pool
<1>4. row \in [Validator -> Int] /\ paid \in Int /\ claimed' = claimed + paid
  <2>1. row \in [Validator -> Int]
    BY <1>1, FieldTypes
  <2> QED
    BY <1>2, <2>1, SumType, StakingAssumption DEF Claim
<1>5. /\ delegations' \in Books
      /\ \A v \in Validator :
           /\ delegations'[d][v].amount = delegations[d][v].amount
           /\ delegations'[d][v].shares = delegations[d][v].shares
           /\ delegations'[d][v].unbonding = delegations[d][v].unbonding
           /\ delegations'[d][v].rewards = 0
      /\ \A c \in Delegator \ {d} : delegations'[c] = delegations[c]
  BY <1>1, <1>2, ClaimResets DEF Books
<1> HIDE DEF paid
<1>6. \A c \in Delegator, v \in Validator :
        /\ delegations'[c][v].amount = delegations[c][v].amount
        /\ delegations'[c][v].shares = delegations[c][v].shares
        /\ delegations'[c][v].unbonding = delegations[c][v].unbonding
  BY <1>5
<1>7. /\ AllShares(delegations') = AllShares(delegations)
      /\ AllUnbonding(delegations') = AllUnbonding(delegations)
      /\ \A v \in Validator : Amounts(delegations', v) = Amounts(delegations, v)
  BY <1>1, <1>5, <1>6, SumsStay
<1>8. \A v \in Validator : Credited(delegations', v) = Credited(delegations, v) - row[v]
  <2> SUFFICES ASSUME NEW v \in Validator
               PROVE  Credited(delegations', v) = Credited(delegations, v) - row[v]
    OBVIOUS
  <2> DEFINE f == [c \in Delegator |-> delegations[c][v].rewards]
             g == [c \in Delegator |-> delegations'[c][v].rewards]
  <2>1. /\ f \in [Delegator -> Int] /\ g \in [Delegator -> Int]
        /\ \A c \in Delegator : c # d => g[c] = f[c]
    BY <1>1, <1>5, Summands
  <2>2. g[d] = 0 /\ f[d] = row[v] /\ row[v] \in Int
    BY <1>4, <1>5
  <2> HIDE DEF f, g, row
  <2>3. SumFunction(g) = SumFunction(f) + (g[d] - f[d])
    BY ONLY <2>1, SumChangesAt, StakingAssumption, d \in Delegator
  <2>4. SumFunction(f) \in Int
    BY <2>1, SumType, StakingAssumption
  <2>5. SumFunction(g) = SumFunction(f) - row[v]
    BY <2>2, <2>3, <2>4
  <2> QED
    BY <2>5 DEF Credited, f, g
<1>9. AllRewards(validators', delegations') = AllRewards(validators, delegations) + (-paid)
  <2> DEFINE f == [v \in Validator |-> validators[v].rewards + Credited(delegations, v)]
             h == [v \in Validator |-> validators[v].rewards + Credited(delegations', v)]
  <2>1. /\ f \in [Validator -> Int] /\ h \in [Validator -> Int]
        /\ \A v \in Validator : h[v] = f[v] + (-1) * row[v]
    <3>1. \A v \in Validator : /\ validators[v].rewards \in Int /\ row[v] \in Int
                               /\ Credited(delegations, v) \in Int
      BY <1>1, <1>4, Summands, FieldTypes
    <3> HIDE DEF row
    <3> QED
      BY <1>8, <3>1
  <2> HIDE DEF f, h, row
  <2>2. -1 \in Int
    OBVIOUS
  <2>3. SumFunction(h) = SumFunction(f) + (-1) * SumFunction(row)
    BY ONLY <1>4, <2>1, <2>2, SumAdds, StakingAssumption
  <2>4. SumFunction(f) \in Int
    BY <2>1, SumType, StakingAssumption
  <2>5. SumFunction(h) = SumFunction(f) + (-paid)
    BY <1>4, <2>3, <2>4 DEF paid
  <2> QED
    BY <1>3, <2>5 DEF AllRewards, f, h
<1>10. SlashRoundingBounded' /\ Unused'
  <2>1. \A w \in Validator :
          /\ Amounts(delegations', w) - Amounts(delegations, w)
               = validators'[w].delegated - validators[w].delegated
          /\ validators'[w].slashes = validators[w].slashes
    BY <1>1, <1>3, <1>7, ExcessIs
  <2>2. SlashRoundingBounded'
    BY <1>1, <1>3, <1>5, <2>1, ExcessKept DEF BooksInv
  <2>3. Unused'
    BY <1>1, <1>3, <1>6 DEF BooksInv, Unused
  <2> QED
    BY <2>2, <2>3
<1>11. /\ AllStake(validators') = AllStake(validators) + 0
       /\ AllShares(delegations') = AllShares(delegations) + 0
       /\ AllUnbonding(delegations') = AllUnbonding(delegations) + 0
  BY <1>1, <1>3, <1>7, Summands
<1>12. Moves(0, 0, 0, -paid)
  BY <1>1, <1>3, <1>5, <1>9, <1>10, <1>11 DEF Moves
<1>13. CountersOK'
  BY <1>3, <1>4, InvParts DEF CountersOK, StakingInv
<1>14. /\ totalStaked' = totalStaked + 0 /\ totalShares' = totalShares + 0
       /\ deposited' - deposited = (withdrawn' - withdrawn) + (slashed' - slashed) + 0 + 0
       /\ (claimed' - claimed) + (-paid) <= totalRewards' - totalRewards
       /\ -paid \in Int
  BY <1>3, <1>4, InvParts
<1> QED
  BY <1>3, <1>12, <1>13, <1>14, LedgerStep

LEMMA FloorDivNat ==
  ASSUME NEW a \in Nat, NEW b \in Nat \ {0}
  PROVE  FloorDiv(a, b) \in Nat
<1>1. PICK q \in Int : q = FloorDiv(a, b) /\ a < b * q + b
  <2>1. FloorDiv(a, b) \in Int /\ a < b * FloorDiv(a, b) + b
    BY FloorDivBounds
  <2> QED
    BY ONLY <2>1
<1>2. b * 0 < b * (q + 1)
  BY <1>1
<1>3. 0 < q + 1
  BY <1>2, ProductCancels
<1> QED
  BY <1>1, <1>3

\* What one distribution pays at one validator: numbers, and nothing without a share.
LEMMA PaidTypes ==
  ASSUME BooksOK, totalStaked \in Int, totalStaked # 0, NEW v \in Validator,
         NEW given \in Nat
  PROVE  /\ ShareOf(v, given) \in Int /\ CommissionOf(v, given) \in Int
         /\ DelegatorsGet(v, given) \in Int
         /\ \A d \in Delegator : RewardOf(d, v, given) \in Int
         /\ SumFunction([d \in Delegator |-> RewardOf(d, v, given)]) \in Int
         /\ Dust(v, given) \in Int
         /\ ShareOf(v, given) = 0 => CommissionOf(v, given) = 0 /\ Dust(v, given) = 0
<1> DEFINE share == ShareOf(v, given)
           com == CommissionOf(v, given)
           get == DelegatorsGet(v, given)
           rewards == [d \in Delegator |-> RewardOf(d, v, given)]
<1>1. /\ validators[v].commission \in Int /\ validators[v].commission <= BASIS_POINTS /\ validators[v].delegated \in Int
      /\ TotalStake(v) \in Int
      /\ \A d \in Delegator : delegations[d][v].amount \in Int
      /\ BASIS_POINTS \in Nat \ {0}
  BY FieldTypes, StakingAssumption
<1>2. share \in Int
  <2>1. given * TotalStake(v) \in Int
    BY <1>1
  <2> QED
    BY <2>1, FloorDivIsInt DEF ShareOf
<1> HIDE DEF share
<1>3. com \in Int /\ (share = 0 => com = 0)
  <2>1. share * validators[v].commission \in Int
    BY <1>1, <1>2
  <2>2. com = FloorDiv(share * validators[v].commission, BASIS_POINTS)
    BY DEF CommissionOf, share
  <2>3. ASSUME share = 0
        PROVE  com = 0
    <3>1. share * validators[v].commission = 0
      BY <1>1, <2>3
    <3> QED
      BY <1>1, <2>2, <3>1, FloorDivOfZero
  <2>4. com \in Int
    BY <1>1, <2>1, <2>2, FloorDivIsInt
  <2> QED
    BY <2>3, <2>4
<1> HIDE DEF com
<1>4. get \in Int /\ get = share - com
  BY <1>2, <1>3 DEF DelegatorsGet, share, com
<1> HIDE DEF get
<1>5. \A d \in Delegator : RewardOf(d, v, given) \in Int
  <2> SUFFICES ASSUME NEW d \in Delegator
               PROVE  RewardOf(d, v, given) \in Int
    OBVIOUS
  <2>1. CASE get > 0 /\ validators[v].delegated > 0
    <3>1. RewardOf(d, v, given) = FloorDiv(get * delegations[d][v].amount,
                                           validators[v].delegated)
      BY <2>1 DEF RewardOf, get
    <3>2. /\ get * delegations[d][v].amount \in Int
          /\ validators[v].delegated \in Nat \ {0}
      <4>1. get \in Nat /\ delegations[d][v].amount \in Int
        BY <1>1, <1>4, <2>1
      <4> QED
        BY <1>1, <2>1, <4>1
    <3> QED
      BY <3>1, <3>2, FloorDivBounds
  <2>2. CASE ~(get > 0 /\ validators[v].delegated > 0)
    BY <2>2 DEF RewardOf, get
  <2> QED
    BY <2>1, <2>2
<1>6. rewards \in [Delegator -> Int]
  BY <1>5
<1>7. get = 0 => \A d \in Delegator : rewards[d] = 0
  BY DEF RewardOf, get
<1> HIDE DEF rewards
<1>8. SumFunction(rewards) \in Int
  BY <1>6, SumType, StakingAssumption
<1>9. Dust(v, given) = IF get > SumFunction(rewards) /\ validators[v].delegated > 0
                       THEN get - SumFunction(rewards) ELSE 0
  BY DEF Dust, get, rewards
<1>10. Dust(v, given) \in Int
  BY <1>4, <1>8, <1>9
<1>11. share = 0 => Dust(v, given) = 0
  <2> SUFFICES ASSUME share = 0
               PROVE  Dust(v, given) = 0
    OBVIOUS
  <2>0. com = 0
    BY <1>3
  <2>1. get = 0
    BY ONLY <1>2, <1>4, <2>0, share = 0
  <2>2. SumFunction(rewards) = 0
    BY <1>6, <1>7, <2>1, SumOfZeros, StakingAssumption
  <2> QED
    BY <1>9, <2>1, <2>2
<1> QED
  BY <1>2, <1>3, <1>4, <1>5, <1>8, <1>10, <1>11 DEF share, com, get, rewards

\* Where the delegations are worth the delegated stake, what is paid at a validator
\* is at most its share, and its share at most its part of what is distributed.
LEMMA PaidBounded ==
  ASSUME BooksOK, totalStaked \in Nat \ {0}, NEW v \in Validator, NEW given \in Nat,
         Excess(v) = 0, TotalStake(v) >= 0, v \notin Registered => TotalStake(v) = 0
  PROVE  /\ CommissionOf(v, given) + Dust(v, given)
              + SumFunction([d \in Delegator |-> RewardOf(d, v, given)])
              <= ShareOf(v, given)
         /\ totalStaked * ShareOf(v, given) <= given * TotalStake(v)
<1> DEFINE share == ShareOf(v, given)
           total == TotalStake(v)
           com == CommissionOf(v, given)
           get == DelegatorsGet(v, given)
           rewards == [d \in Delegator |-> RewardOf(d, v, given)]
           amounts == [d \in Delegator |-> delegations[d][v].amount]
           whole == validators[v].delegated
           paid == SumFunction(rewards)
<1>1. /\ validators[v].commission \in Int /\ validators[v].commission <= BASIS_POINTS /\ whole \in Int
      /\ total \in Nat /\ BASIS_POINTS \in Nat \ {0}
      /\ \A d \in Delegator : delegations[d][v].amount \in Int
  <2>1. TotalStake(v) \in Int
    BY FieldTypes
  <2> QED
    BY <2>1, FieldTypes, StakingAssumption
<1>2. /\ share \in Int /\ com \in Int /\ get \in Int /\ paid \in Int
      /\ Dust(v, given) \in Int
      /\ \A d \in Delegator : RewardOf(d, v, given) \in Int
  <2>1. totalStaked \in Int /\ totalStaked # 0
    OBVIOUS
  <2> QED
    BY <2>1, PaidTypes
<1>3. share \in Nat /\ totalStaked * share <= given * total
  <2>1. CASE v \in Registered /\ total # 0
    <3>1. share = FloorDiv(given * total, totalStaked)
      BY <2>1 DEF ShareOf
    <3> HIDE DEF share, total
    <3>2. given * total \in Nat
      BY <1>1
    <3>3. share \in Nat
      BY <3>1, <3>2, FloorDivNat
    <3>4. totalStaked * FloorDiv(given * total, totalStaked) <= given * total
      <4>1. given * total \in Int
        BY <3>2
      <4> QED
        BY ONLY <4>1, FloorDivBounds, totalStaked \in Nat \ {0}
    <3> QED
      BY <3>1, <3>3, <3>4
  <2>2. CASE ~(v \in Registered /\ total # 0)
    <3>1. share = 0 /\ total = 0
      BY <2>2 DEF ShareOf
    <3> HIDE DEF share, total
    <3> QED
      BY <3>1
  <2> QED
    BY <2>1, <2>2
<1>4. com = FloorDiv(share * validators[v].commission, BASIS_POINTS)
  BY DEF CommissionOf
<1>5. get = share - com
  BY DEF DelegatorsGet
<1>6. Dust(v, given) = IF get > paid /\ whole > 0 THEN get - paid ELSE 0
  BY DEF Dust
<1>7. /\ get > 0 /\ whole > 0 =>
           \A d \in Delegator : rewards[d] = FloorDiv(get * amounts[d], whole)
      /\ ~(get > 0 /\ whole > 0) => \A d \in Delegator : rewards[d] = 0
      /\ rewards \in [Delegator -> Int] /\ amounts \in [Delegator -> Int]
  BY <1>1, <1>2 DEF RewardOf
<1>8. SumFunction(amounts) = whole
  <2>1. Excess(v) = SumFunction(amounts) - whole
    BY DEF Excess, Delegated
  <2> HIDE DEF amounts, whole
  <2>2. SumFunction(amounts) \in Int
    BY <1>7, SumType, StakingAssumption
  <2> QED
    BY <1>1, <2>1, <2>2
<1> HIDE DEF share, total, com, get, rewards, amounts, whole
<1>9. com <= share
  BY <1>1, <1>3, <1>4, PartBounds
<1>10. com + Dust(v, given) + paid <= share
  <2>1. CASE get > 0 /\ whole > 0
    <3>1. whole \in Nat \ {0}
      BY <1>1, <2>1
    <3>2. whole * paid <= get * SumFunction(amounts)
      BY <1>2, <1>7, <2>1, <3>1, PartsOfWhole, StakingAssumption DEF paid
    <3>3. whole * paid <= whole * get
      BY <1>2, <1>8, <3>1, <3>2
    <3>4. paid <= get
      BY <1>2, <3>1, <3>3, ProductCancels
    <3> HIDE DEF paid
    <3> QED
      BY <1>2, <1>5, <1>6, <2>1, <3>4
  <2>2. CASE ~(get > 0 /\ whole > 0)
    <3>1. paid = 0
      BY <1>7, <2>2, SumOfZeros, StakingAssumption
    <3> HIDE DEF paid
    <3> QED
      BY <1>2, <1>5, <1>6, <1>9, <2>2, <3>1
  <2> QED
    BY <2>1, <2>2
<1> QED
  BY <1>3, <1>10 DEF share, com, paid, rewards, total

\* Everything a distribution pays, when no validator's delegations are worth more
\* than its delegated stake and no stake is negative.
LEMMA AllPaidBounded ==
  ASSUME StakingInv, totalStaked # 0, NEW given \in Nat, NEW paid \in [Validator -> Int],
         \A v \in Validator :
           paid[v] = CommissionOf(v, given) + Dust(v, given)
                       + SumFunction([d \in Delegator |-> RewardOf(d, v, given)]),
         \A v \in Registered : Excess(v) = 0 /\ TotalStake(v) >= 0
  PROVE  SumFunction(paid) <= given
<1> DEFINE shares == [v \in Validator |-> ShareOf(v, given)]
           stakes == [v \in Validator |-> TotalStake(v)]
           scaled == [v \in Validator |-> totalStaked * shares[v]]
           scaledStakes == [v \in Validator |-> given * stakes[v]]
<1>1. BooksOK /\ BooksInv /\ totalStaked \in Int
  BY InvParts
<1>2. ASSUME NEW v \in Validator
      PROVE  /\ Excess(v) = 0 /\ TotalStake(v) >= 0 /\ TotalStake(v) \in Int
             /\ v \notin Registered => TotalStake(v) = 0
  <2>1. /\ validators[v].self \in Nat /\ validators[v].delegated \in Int
        /\ TotalStake(v) = validators[v].self + validators[v].delegated
        /\ TotalStake(v) \in Int
    BY <1>1, FieldTypes DEF TotalStake
  <2>2. CASE v \in Registered
    BY <2>1, <2>2
  <2>3. CASE v \notin Registered
    <3>1. validators[v].status = "none"
      BY <2>3 DEF Registered
    <3>2. /\ validators[v].self = 0 /\ validators[v].delegated = 0 /\ validators[v].slashes = 0
      BY <1>1, <3>1 DEF BooksInv, Unused
    <3>3. Excess(v) \in 0 .. 0 * Cardinality(Delegator)
      BY <1>1, <3>2 DEF BooksInv, SlashRoundingBounded
    <3>4. Excess(v) = 0
      BY <3>3, DelegatorsCounted
    <3> QED
      BY <2>1, <2>3, <3>2, <3>4
  <2> QED
    BY <2>2, <2>3
<1>3. stakes \in [Validator -> Int] /\ \A v \in Validator : stakes[v] >= 0
  BY <1>2
<1>4. SumFunction(stakes) = totalStaked
  BY DEF StakingInv, TokensConserved
<1>5. \A v \in Validator : shares[v] = ShareOf(v, given) /\ stakes[v] = TotalStake(v)
  OBVIOUS
<1>6. shares \in [Validator -> Int]
  BY <1>1, PaidTypes
<1> HIDE DEF shares, stakes
<1>7. totalStaked \in Nat \ {0}
  <2>1. SumFunction(stakes) \in Nat
    BY ONLY <1>3, SumOfNaturals, StakingAssumption
  <2> QED
    BY <1>4, <2>1
<1>8. \A v \in Validator : paid[v] <= shares[v] /\ totalStaked * shares[v] <= given * stakes[v]
  BY <1>1, <1>2, <1>5, <1>7, PaidBounded
<1>9. /\ scaled \in [Validator -> Int]
      /\ SumFunction(scaled) = totalStaked * SumFunction(shares)
  BY ONLY <1>1, <1>6, ScaledSum, StakingAssumption
<1>10. /\ scaledStakes \in [Validator -> Int]
       /\ SumFunction(scaledStakes) = given * SumFunction(stakes)
  <2>1. given \in Int
    OBVIOUS
  <2> QED
    BY ONLY <1>3, <2>1, ScaledSum, StakingAssumption
<1>11. \A v \in Validator : scaled[v] <= scaledStakes[v]
  BY <1>8
<1> HIDE DEF scaled, scaledStakes
<1>12. SumFunction(scaled) <= SumFunction(scaledStakes)
  BY ONLY <1>9, <1>10, <1>11, SumOrder, StakingAssumption
<1>13. SumFunction(paid) <= SumFunction(shares)
  BY <1>6, <1>8, SumOrder, StakingAssumption
<1>14. /\ SumFunction(shares) \in Int /\ SumFunction(paid) \in Int
  BY <1>6, SumType, StakingAssumption
<1>15. totalStaked * SumFunction(shares) <= totalStaked * given
  BY <1>4, <1>7, <1>9, <1>10, <1>12, <1>14
<1>16. SumFunction(shares) <= given
  <2>1. given \in Int
    OBVIOUS
  <2> QED
    BY ONLY <1>7, <1>14, <1>15, <2>1, ProductCancels
<1> QED
  BY <1>13, <1>14, <1>16

LEMMA DistributeKeeps ==
  ASSUME StakingInv, NEW given \in Reward, DistributeRewards(given)
  PROVE  StakingInv'
<1> DEFINE com(v) == CommissionOf(v, given)
           dust(v) == Dust(v, given)
           rew(d, v) == RewardOf(d, v, given)
           credit(v) == SumFunction([d \in Delegator |-> rew(d, v)])
           paid == [v \in Validator |-> com(v) + dust(v) + credit(v)]
           newVal(v) == [validators[v] EXCEPT !.rewards = @ + com(v) + dust(v)]
           newDel(d, v) == [delegations[d][v] EXCEPT !.rewards = @ + rew(d, v)]
<1>1. /\ given \in Nat /\ totalStaked \in Int /\ totalStaked # 0 /\ BooksOK /\ BooksInv
      /\ validators \in Register /\ delegations \in Books
  BY InvParts, BooksAreTyped, StakingAssumption DEF DistributeRewards
<1>2. /\ rounds < MaxDistributions /\ rounds' = rounds + 1
      /\ validators' = [v \in Validator |-> newVal(v)]
      /\ delegations' = [d \in Delegator |-> [v \in Validator |-> newDel(d, v)]]
      /\ totalRewards' = totalRewards + given
      /\ overcommitted' =
           (overcommitted \/ \E v \in Registered : Excess(v) # 0 \/ TotalStake(v) < 0)
      /\ UNCHANGED <<totalStaked, totalShares, now, deposited, withdrawn, slashed, claimed>>
  BY DEF DistributeRewards
<1>3. \A v \in Validator :
        /\ com(v) \in Int /\ dust(v) \in Int /\ credit(v) \in Int
        /\ \A d \in Delegator : rew(d, v) \in Int
        /\ v \notin Registered => com(v) = 0 /\ dust(v) = 0
  <2> SUFFICES ASSUME NEW v \in Validator
               PROVE  /\ com(v) \in Int /\ dust(v) \in Int /\ credit(v) \in Int
                      /\ \A d \in Delegator : rew(d, v) \in Int
                      /\ v \notin Registered => com(v) = 0 /\ dust(v) = 0
    OBVIOUS
  <2>1. v \notin Registered => ShareOf(v, given) = 0
    BY DEF ShareOf
  <2> QED
    BY <1>1, <2>1, PaidTypes
<1>4. /\ paid \in [Validator -> Int]
      /\ SumFunction(paid) \in Int
      /\ ~overcommitted' => SumFunction(paid) <= given
  <2>1. paid \in [Validator -> Int]
    <3> HIDE DEF com, dust, credit
    <3> QED
      BY <1>3
  <2>2. SumFunction(paid) \in Int
    <3> HIDE DEF paid
    <3> QED
      BY <2>1, SumType, StakingAssumption
  <2>3. ASSUME ~overcommitted'
        PROVE  SumFunction(paid) <= given
    <3>1. \A v \in Registered : Excess(v) = 0 /\ TotalStake(v) >= 0
      <4>1. \A v \in Validator : TotalStake(v) \in Int
        BY <1>1, FieldTypes
      <4>2. \A v \in Registered : Excess(v) = 0 /\ ~(TotalStake(v) < 0)
        BY <1>2, <2>3
      <4> QED
        BY ONLY <4>1, <4>2 DEF Registered
    <3>2. \A v \in Validator :
            paid[v] = CommissionOf(v, given) + Dust(v, given)
                        + SumFunction([d \in Delegator |-> RewardOf(d, v, given)])
      OBVIOUS
    <3> HIDE DEF paid
    <3> QED
      BY ONLY <1>1, <2>1, <3>1, <3>2, AllPaidBounded, StakingInv
  <2> QED
    BY <2>1, <2>2, <2>3
<1> HIDE DEF com, dust, rew
<1>5. ASSUME NEW v \in Validator
      PROVE  /\ newVal(v) \in ValidatorRecord
             /\ newVal(v).self = validators[v].self
             /\ newVal(v).delegated = validators[v].delegated
             /\ newVal(v).status = validators[v].status
             /\ newVal(v).slashes = validators[v].slashes
             /\ newVal(v).rewards = validators[v].rewards + com(v) + dust(v)
  <2> DEFINE old == validators[v]
             c == com(v)
             x == dust(v)
  <2>1. old \in ValidatorRecord /\ old.rewards + c + x \in Int
    <3>1. old \in ValidatorRecord /\ old.rewards \in Int /\ c \in Int /\ x \in Int
      BY <1>1, <1>3, FieldTypes
    <3> HIDE DEF old, c, x
    <3> QED
      BY ONLY <3>1
  <2> HIDE DEF old, c, x
  <2>2. LET new == [old EXCEPT !.rewards = @ + c + x]
        IN  /\ new \in ValidatorRecord /\ new.self = old.self
            /\ new.delegated = old.delegated /\ new.status = old.status
            /\ new.slashes = old.slashes /\ new.rewards = old.rewards + c + x
    BY ONLY <2>1 DEF ValidatorRecord
  <2> QED
    BY <2>2 DEF old, c, x
<1>6. ASSUME NEW d \in Delegator, NEW v \in Validator
      PROVE  /\ newDel(d, v) \in DelegationRecord
             /\ newDel(d, v).amount = delegations[d][v].amount
             /\ newDel(d, v).shares = delegations[d][v].shares
             /\ newDel(d, v).unbonding = delegations[d][v].unbonding
             /\ newDel(d, v).rewards = delegations[d][v].rewards + rew(d, v)
  <2> DEFINE old == delegations[d][v]
             x == rew(d, v)
  <2>1. old \in DelegationRecord /\ old.rewards + x \in Int
    <3>1. old \in DelegationRecord /\ old.rewards \in Int /\ x \in Int
      BY <1>1, <1>3, FieldTypes
    <3> QED
      BY <3>1
  <2> HIDE DEF old, x
  <2>2. LET new == [old EXCEPT !.rewards = @ + x]
        IN  /\ new \in DelegationRecord /\ new.amount = old.amount
            /\ new.shares = old.shares /\ new.unbonding = old.unbonding
            /\ new.rewards = old.rewards + x
    BY ONLY <2>1 DEF DelegationRecord
  <2> QED
    BY <2>2 DEF old, x
<1> HIDE DEF newVal, newDel
<1>7. /\ validators' \in Register /\ delegations' \in Books
      /\ \A v \in Validator : validators'[v] = newVal(v)
      /\ \A d \in Delegator, v \in Validator : delegations'[d][v] = newDel(d, v)
  BY <1>2, <1>5, <1>6 DEF Register, Books
<1>8. /\ AllShares(delegations') = AllShares(delegations)
      /\ AllUnbonding(delegations') = AllUnbonding(delegations)
      /\ \A v \in Validator : Amounts(delegations', v) = Amounts(delegations, v)
  <2>1. \A d \in Delegator, v \in Validator :
          /\ delegations'[d][v].amount = delegations[d][v].amount
          /\ delegations'[d][v].shares = delegations[d][v].shares
          /\ delegations'[d][v].unbonding = delegations[d][v].unbonding
    BY <1>6, <1>7
  <2> QED
    BY <1>1, <1>7, <2>1, SumsStay
<1>9. AllStake(validators') = AllStake(validators)
  <2>1. [v \in Validator |-> validators'[v].self + validators'[v].delegated]
          = [v \in Validator |-> validators[v].self + validators[v].delegated]
    BY <1>5, <1>7
  <2> QED
    BY <2>1 DEF AllStake
<1>10. \A v \in Validator : Credited(delegations', v) = Credited(delegations, v) + credit(v)
  <2> SUFFICES ASSUME NEW v \in Validator
               PROVE  Credited(delegations', v) = Credited(delegations, v) + credit(v)
    OBVIOUS
  <2> DEFINE f == [d \in Delegator |-> delegations[d][v].rewards]
             g == [d \in Delegator |-> rew(d, v)]
             h == [d \in Delegator |-> delegations'[d][v].rewards]
  <2>1. /\ f \in [Delegator -> Int] /\ g \in [Delegator -> Int] /\ h \in [Delegator -> Int]
        /\ \A d \in Delegator : h[d] = f[d] + 1 * g[d]
    <3>1. \A d \in Delegator :
            /\ delegations[d][v].rewards \in Int /\ rew(d, v) \in Int
            /\ delegations'[d][v].rewards = delegations[d][v].rewards + rew(d, v)
      <4> SUFFICES ASSUME NEW d \in Delegator
                   PROVE  /\ delegations[d][v].rewards \in Int /\ rew(d, v) \in Int
                          /\ delegations'[d][v].rewards = delegations[d][v].rewards + rew(d, v)
        OBVIOUS
      <4>1. delegations[d][v].rewards \in Int /\ rew(d, v) \in Int
        BY <1>1, <1>3, FieldTypes
      <4>2. delegations'[d][v] = newDel(d, v)
        BY <1>7
      <4> QED
        BY <1>6, <4>1, <4>2
    <3> QED
      BY <3>1
  <2>2. credit(v) = SumFunction(g)
    OBVIOUS
  <2> HIDE DEF f, g, h, credit
  <2>3. 1 \in Int
    OBVIOUS
  <2>4. SumFunction(h) = SumFunction(f) + 1 * SumFunction(g)
    BY ONLY <2>1, <2>3, SumAdds, StakingAssumption
  <2>5. SumFunction(f) \in Int /\ SumFunction(g) \in Int
    BY <2>1, SumType, StakingAssumption
  <2>6. SumFunction(h) = SumFunction(f) + credit(v)
    BY <2>2, <2>4, <2>5
  <2> QED
    BY <2>6 DEF Credited, f, h
<1> HIDE DEF credit
<1>11. AllRewards(validators', delegations')
         = AllRewards(validators, delegations) + SumFunction(paid)
  <2> DEFINE f == [v \in Validator |-> validators[v].rewards + Credited(delegations, v)]
             h == [v \in Validator |-> validators'[v].rewards + Credited(delegations', v)]
  <2>1. /\ f \in [Validator -> Int] /\ h \in [Validator -> Int]
        /\ \A v \in Validator : h[v] = f[v] + 1 * paid[v]
    <3> SUFFICES ASSUME NEW v \in Validator
                 PROVE  /\ f[v] \in Int /\ h[v] \in Int
                        /\ h[v] = f[v] + 1 * paid[v]
      BY Zenon
    <3>1. /\ validators[v].rewards \in Int /\ Credited(delegations, v) \in Int
          /\ com(v) \in Int /\ dust(v) \in Int /\ credit(v) \in Int
      BY <1>1, <1>3, Summands, FieldTypes
    <3>2. /\ validators'[v].rewards = validators[v].rewards + com(v) + dust(v)
          /\ Credited(delegations', v) = Credited(delegations, v) + credit(v)
      BY <1>5, <1>7, <1>10
    <3>3. /\ f[v] = validators[v].rewards + Credited(delegations, v)
          /\ h[v] = (validators[v].rewards + com(v) + dust(v))
                      + (Credited(delegations, v) + credit(v))
          /\ paid[v] = com(v) + dust(v) + credit(v)
      BY <3>2
    <3> HIDE DEF f, h, paid
    <3> QED
      BY ONLY <3>1, <3>3
  <2> HIDE DEF f, h, paid
  <2>2. 1 \in Int
    OBVIOUS
  <2>3. SumFunction(h) = SumFunction(f) + 1 * SumFunction(paid)
    BY ONLY <1>4, <2>1, <2>2, SumAdds, StakingAssumption
  <2>4. SumFunction(f) \in Int
    BY <2>1, SumType, StakingAssumption
  <2>5. SumFunction(h) = SumFunction(f) + SumFunction(paid)
    BY <1>4, <2>3, <2>4
  <2> QED
    BY <2>5 DEF AllRewards, f, h
<1> HIDE DEF paid
<1>12. SlashRoundingBounded'
  <2>1. \A w \in Validator :
          /\ Amounts(delegations', w) - Amounts(delegations, w)
               = validators'[w].delegated - validators[w].delegated
          /\ validators'[w].slashes = validators[w].slashes
    BY <1>1, <1>5, <1>7, <1>8, ExcessIs
  <2> QED
    BY <1>1, <1>7, <2>1, ExcessKept DEF BooksInv
<1>13. Unused'
  <2> SUFFICES ASSUME NEW w \in Validator, validators'[w].status = "none"
               PROVE  /\ validators'[w].self = 0 /\ validators'[w].delegated = 0
                      /\ validators'[w].rewards = 0 /\ validators'[w].slashes = 0
                      /\ \A c \in Delegator : delegations'[c][w].amount = 0
    BY DEF Unused
  <2>1. validators[w].status = "none" /\ w \notin Registered
    BY <1>5, <1>7 DEF Registered
  <2>2. /\ validators[w].self = 0 /\ validators[w].delegated = 0
        /\ validators[w].rewards = 0 /\ validators[w].slashes = 0
        /\ \A c \in Delegator : delegations[c][w].amount = 0
    BY <1>1, <2>1 DEF BooksInv, Unused
  <2>3. com(w) = 0 /\ dust(w) = 0
    BY <1>3, <2>1
  <2> QED
    BY <1>5, <1>6, <1>7, <2>2, <2>3
<1>14. /\ AllStake(validators') = AllStake(validators) + 0
       /\ AllShares(delegations') = AllShares(delegations) + 0
       /\ AllUnbonding(delegations') = AllUnbonding(delegations) + 0
  BY <1>1, <1>8, <1>9, Summands
<1>15. Moves(0, 0, 0, SumFunction(paid))
  BY <1>7, <1>11, <1>12, <1>13, <1>14 DEF Moves
<1>16. CountersOK'
  BY <1>1, <1>2, InvParts, StakingAssumption DEF CountersOK, StakingInv
<1>17. /\ totalStaked' = totalStaked + 0 /\ totalShares' = totalShares + 0
       /\ deposited' - deposited = (withdrawn' - withdrawn) + (slashed' - slashed) + 0 + 0
       /\ overcommitted => overcommitted'
       /\ overcommitted' \/ (claimed' - claimed) + SumFunction(paid)
                              <= totalRewards' - totalRewards
  <2>1. /\ totalStaked' = totalStaked + 0 /\ totalShares' = totalShares + 0
        /\ deposited' - deposited = (withdrawn' - withdrawn) + (slashed' - slashed) + 0 + 0
        /\ claimed' - claimed = 0 /\ totalRewards' - totalRewards = given
    BY <1>1, <1>2, InvParts
  <2>2. overcommitted => overcommitted'
    BY <1>2
  <2>3. ~overcommitted' => (claimed' - claimed) + SumFunction(paid)
                              <= totalRewards' - totalRewards
    BY <1>4, <2>1
  <2> QED
    BY <2>1, <2>2, <2>3
<1> QED
  BY <1>4, <1>15, <1>16, <1>17, LedgerStep

---------------------------------------------------------------------------
LEMMA TimeKeeps ==
  ASSUME StakingInv, \/ TimePasses
                     \/ UNCHANGED stakingVars
  PROVE  StakingInv'
<1>1. /\ UNCHANGED <<validators, delegations, totalStaked, totalShares, totalRewards, rounds,
                     deposited, withdrawn, slashed, claimed, overcommitted>>
      /\ now' \in 0 .. MaxNow
  BY StakingAssumption DEF TimePasses, stakingVars, pool, StakingInv, CountersOK
<1>2. BooksInv'
  BY <1>1 DEF StakingInv, BooksInv, BooksOK, Unused, SlashRoundingBounded, Excess, Delegated
<1>3. CountersOK'
  BY <1>1 DEF StakingInv, CountersOK
<1>4. TokensConserved' /\ RewardsBacked'
  BY <1>1, ConservedIs, ConservedNextIs DEF StakingInv
<1> QED
  BY <1>2, <1>3, <1>4 DEF StakingInv

LEMMA InitKeeps == StakingInit => StakingInv
<1> SUFFICES ASSUME StakingInit
             PROVE  StakingInv
  OBVIOUS
<1>1. /\ validators \in Register /\ delegations \in Books
      /\ \A v \in Validator : validators[v] = Unregistered
      /\ \A d \in Delegator, v \in Validator : delegations[d][v] = NoDelegation
  <2>1. Unregistered \in ValidatorRecord /\ NoDelegation \in DelegationRecord
    BY DEF Unregistered, NoDelegation, ValidatorRecord, DelegationRecord
  <2> QED
    BY <2>1 DEF StakingInit, Register, Books
<1>2. /\ \A v \in Validator : /\ validators[v].self = 0 /\ validators[v].delegated = 0
                              /\ validators[v].rewards = 0 /\ validators[v].slashes = 0
      /\ \A d \in Delegator, v \in Validator :
           /\ delegations[d][v].amount = 0 /\ delegations[d][v].shares = 0
           /\ delegations[d][v].unbonding = 0 /\ delegations[d][v].rewards = 0
  BY <1>1 DEF Unregistered, NoDelegation
<1>3. /\ \A v \in Validator : /\ Shares(delegations, v) = 0 /\ Amounts(delegations, v) = 0
                              /\ Credited(delegations, v) = 0
      /\ \A d \in Delegator : Unbonding(delegations, d) = 0
  BY <1>1, <1>2, Summands, SumOfZeros, StakingAssumption
     DEF Shares, Amounts, Credited, Unbonding
<1>4. /\ AllStake(validators) = 0 /\ AllShares(delegations) = 0
      /\ AllUnbonding(delegations) = 0 /\ AllRewards(validators, delegations) = 0
  BY SMTT(30), <1>1, <1>2, <1>3, Summands, SumOfZeros, StakingAssumption
     DEF AllStake, AllShares, AllUnbonding, AllRewards
<1>5. TokensConserved /\ RewardsBacked
  BY <1>4, ConservedIs DEF StakingInit
<1>6. BooksOK
  BY <1>1, BooksAreTyped
<1>7. SlashRoundingBounded /\ Unused
  <2>1. \A v \in Validator : Excess(v) = 0 /\ validators[v].slashes \in Nat
    BY <1>2, <1>3, <1>6, ExcessIs
  <2>2. \A k \in Nat : k * Cardinality(Delegator) \in Nat
    BY DelegatorsCounted
  <2> QED
    BY <1>2, <2>1, <2>2 DEF SlashRoundingBounded, Unused
<1>8. CountersOK
  <2>1. /\ 0 \in 0 .. MaxNow /\ 0 \in 0 .. MaxDistributions /\ 0 \in 0 .. MaxDeposit
        /\ 0 \in Nat /\ 0 \in Int
    BY StakingAssumption
  <2>2. /\ totalStaked = 0 /\ totalShares = 0 /\ totalRewards = 0 /\ now = 0 /\ rounds = 0
        /\ deposited = 0 /\ withdrawn = 0 /\ slashed = 0 /\ claimed = 0
        /\ overcommitted = FALSE
    BY DEF StakingInit
  <2> QED
    BY ONLY <2>1, <2>2 DEF CountersOK
<1> QED
  BY <1>5, <1>6, <1>7, <1>8 DEF StakingInv, BooksInv

LEMMA NextKeeps == StakingInv /\ [StakingNext]_stakingVars => StakingInv'
<1> SUFFICES ASSUME StakingInv, [StakingNext]_stakingVars
             PROVE  StakingInv'
  OBVIOUS
<1>1. ASSUME NEW v \in Validator, NEW c \in Commission, UpdateCommission(v, c)
      PROVE  StakingInv'
  BY <1>1, UpdateCommissionKeeps
<1>2. ASSUME NEW v \in Validator, NEW c \in Commission, NEW stake \in Amount,
             RegisterValidator(v, c, stake)
      PROVE  StakingInv'
  BY <1>2, RegisterKeeps
<1>3. ASSUME NEW v \in Validator, NEW f \in Fraction, SlashValidator(v, f)
      PROVE  StakingInv'
  BY <1>3, SlashKeeps
<1>4. ASSUME NEW v \in Validator, NEW t \in JailTime, JailValidator(v, t)
      PROVE  StakingInv'
  BY <1>4, JailKeeps
<1>5. ASSUME NEW v \in Validator, UnjailValidator(v) \/ ClaimValidatorRewards(v)
      PROVE  StakingInv'
  BY <1>5, UnjailKeeps, ClaimValidatorKeeps
<1>6. ASSUME NEW v \in Validator, NEW d \in Delegator, NEW a \in Amount,
             Delegate(d, v, a) \/ Undelegate(d, v, a)
      PROVE  StakingInv'
  BY <1>6, DelegateKeeps, UndelegateKeeps
<1>7. ASSUME NEW v \in Validator, NEW d \in Delegator, NEW a \in Amount,
             NEW dst \in Validator, Redelegate(d, v, dst, a)
      PROVE  StakingInv'
  BY <1>7, RedelegateKeeps
<1>8. ASSUME NEW v \in Validator, NEW d \in Delegator,
             WithdrawUnbonded(d, v) \/ ClaimRewards(d, v) \/ CompoundRewards(d, v)
      PROVE  StakingInv'
  BY <1>8, WithdrawKeeps, ClaimRewardsKeeps, CompoundKeeps
<1>9. ASSUME NEW d \in Delegator, ClaimAllRewards(d)
      PROVE  StakingInv'
  BY <1>9, ClaimAllKeeps
<1>10. ASSUME NEW given \in Reward, DistributeRewards(given)
       PROVE  StakingInv'
  BY <1>10, DistributeKeeps
<1>11. ASSUME TimePasses \/ UNCHANGED stakingVars
       PROVE  StakingInv'
  BY <1>11, TimeKeeps
<1> QED
  BY <1>1, <1>2, <1>3, <1>4, <1>5, <1>6, <1>7, <1>8, <1>9, <1>10, <1>11
     DEF StakingNext, StakingStep

LEMMA StakingInvHolds == StakingSpec => []StakingInv
BY InitKeeps, NextKeeps, PTL DEF StakingSpec

\* The books are typed in every reachable state, for amounts of either sign: what
\* calls with negative amounts make negative are delegations, unbonding entries and
\* shares, never a validator's own stake (register_validator, undelegate,
\* redelegate, slash_validator).
THEOREM StakingIsTyped == StakingSpec => []StakingTypeOK
<1>1. StakingInv => StakingTypeOK
  BY TypeSplits DEF StakingInv, BooksInv
<1> QED
  BY <1>1, StakingInvHolds, PTL

\* The totals each method updates by itself stay the sums of the books, and no
\* token appears or is lost between being staked, unbonding, handed back and
\* slashed.
THEOREM TokensAreConserved == StakingSpec => []TokensConserved
<1>1. StakingInv => TokensConserved
  BY DEF StakingInv
<1> QED
  BY <1>1, StakingInvHolds, PTL

\* The delegations to a validator are never worth less than its delegated stake,
\* and more only by at most one token for each delegator and slash, for every
\* sequence of slash_validator calls.
THEOREM SlashRoundingIsBounded == StakingSpec => []SlashRoundingBounded
<1>1. StakingInv => SlashRoundingBounded
  BY DEF StakingInv, BooksInv
<1> QED
  BY <1>1, StakingInvHolds, PTL

\* distribute_rewards never credits more than it was given, commissions and dust
\* included, unless it ran while the roundings of a slash were outstanding or the
\* stake of a validator was negative.
THEOREM RewardsAreBacked == StakingSpec => []RewardsBacked
<1>1. StakingInv => RewardsBacked
  BY DEF StakingInv
<1> QED
  BY <1>1, StakingInvHolds, PTL

=============================================================================
