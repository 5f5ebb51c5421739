----------------------------- MODULE SumTheorems ------------------------------
(***************************************************************************)
(* Sums of integers over finite sets. SumFunction of the community modules *)
(* is a fold that chooses an order; everything a report adds up is         *)
(* reasoned about through the facts below, which hold for finite sets of   *)
(* any size.                                                               *)
(***************************************************************************)
EXTENDS Integers, FiniteSets, Functions, FiniteSetTheorems, WellFoundedInduction, TLAPS

-----------------------------------------------------------------------------
\* The numbers are well founded: the only induction the proofs rest on.
LEMMA NatBelow == IsWellFoundedOn({p \in Nat \X Nat : p[1] < p[2]}, Nat)
BY NatLessThanWellFounded DEF OpToRel

\* Induction over the numbers, for a set in place of a predicate.
LEMMA NatUpwards ==
    ASSUME NEW G, 0 \in G, \A n \in Nat : n \in G => n + 1 \in G
    PROVE  Nat \subseteq G
<1> DEFINE Below == {p \in Nat \X Nat : p[1] < p[2]}
           Bad   == Nat \ G
<1> SUFFICES ASSUME Bad # {} PROVE FALSE
    OBVIOUS
<1>1. IsWellFoundedOn(Below, Nat)
    BY NatBelow
<1>2. PICK n \in Bad : \A m \in Bad : <<m, n>> \notin Below
  <2> HIDE DEF Below
  <2> QED  BY <1>1, WFMin
<1>3. n - 1 \in Nat /\ <<n - 1, n>> \in Below
    OBVIOUS
<1> QED
    BY <1>2, <1>3

\* Induction over the subsets of a finite set: what holds of T when it holds of
\* every T without one element holds of all of them.
LEMMA SubsetsUpwards ==
    ASSUME NEW S, IsFiniteSet(S), NEW G,
           \A T \in SUBSET S : (\A x \in T : T \ {x} \in G) => T \in G
    PROVE  SUBSET S \subseteq G
<1> DEFINE Bad == (SUBSET S) \ G
           Within == StrictSubsetOrdering(S)
<1> SUFFICES ASSUME Bad # {} PROVE FALSE
    OBVIOUS
<1>1. IsWellFoundedOn(Within, SUBSET S)
  <2>1. FiniteSubsetsOf(S) = SUBSET S
      BY FS_FiniteSubsetsOfFinite
  <2>2. IsWellFoundedOn(StrictSubsetOrdering(S), FiniteSubsetsOf(S))
      BY FS_StrictSubsetOrderingWellFounded
  <2> QED
      BY <2>1, <2>2
<1>2. PICK T \in Bad : \A U \in Bad : <<U, T>> \notin Within
  <2>1. Bad # {} /\ Bad \subseteq SUBSET S
      OBVIOUS
  <2> HIDE DEF Bad, Within
  <2> QED  BY <1>1, <2>1, WFMin
<1>3. \A x \in T : <<T \ {x}, T>> \in Within
    BY DEF StrictSubsetOrdering
<1>4. \A x \in T : T \ {x} \in G
    BY <1>2, <1>3
<1> QED
    BY <1>4

(* recursion over subsets *)
Unfolds(g, S, pick, base, V, step) ==
    /\ g \in [SUBSET S -> V]
    /\ \A T \in SUBSET S :
          g[T] = IF T = {} THEN base ELSE step[<<pick[T], g[T \ {pick[T]}]>>]

\* A function over the subsets of a finite set may be defined by taking out one
\* element, the one that pick names.
LEMMA SubsetRecursion ==
    ASSUME NEW S, IsFiniteSet(S), NEW pick, \A T \in SUBSET S : T # {} => pick[T] \in T,
           NEW V, NEW base \in V, NEW step \in [S \X V -> V]
    PROVE  \E g : Unfolds(g, S, pick, base, V, step)
<1> DEFINE D(n) == {T \in SUBSET S : Cardinality(T) <= n}
           Body(g, T) == IF T = {} THEN base ELSE step[<<pick[T], g[T \ {pick[T]}]>>]
           Upto(g, n) == g \in [D(n) -> V] /\ \A T \in D(n) : g[T] = Body(g, T)
           G == {n \in Nat : \E g : Upto(g, n)}
<1>1. \A T \in SUBSET S : Cardinality(T) \in Nat /\ (Cardinality(T) = 0 => T = {}) /\
      Cardinality(T) <= Cardinality(S)
    BY FS_Subset, FS_CardinalityType, FS_EmptySet
<1>2. \A n \in Nat : \A T \in D(n + 1) : T # {} => T \ {pick[T]} \in D(n)
  <2> TAKE n \in Nat
  <2> TAKE T \in D(n + 1)
  <2> HAVE T # {}
  <2>1. pick[T] \in T /\ IsFiniteSet(T)
      BY FS_Subset
  <2>2. Cardinality(T \ {pick[T]}) = Cardinality(T) - 1
      BY <2>1, FS_RemoveElement
  <2> QED
      BY <1>1, <2>2
<1>3. 0 \in G
  <2> DEFINE g == [T \in D(0) |-> base]
  <2>1. \A T \in D(0) : T = {}
      BY <1>1
  <2>2. Upto(g, 0)
      BY <2>1
  <2> QED
      BY <2>2
<1>4. ASSUME NEW n \in Nat, n \in G PROVE n + 1 \in G
  <2>1. PICK g : Upto(g, n)
      BY <1>4
  <2> DEFINE h == [T \in D(n + 1) |-> Body(g, T)]
  <2>2. \A T \in D(n + 1) : T # {} => T \ {pick[T]} \in D(n) /\ pick[T] \in S
      BY <1>2
  <2>3. \A T \in D(n + 1) : Body(g, T) \in V
    <3> SUFFICES ASSUME NEW T \in D(n + 1), T # {} PROVE Body(g, T) \in V
        OBVIOUS
    <3>1. g[T \ {pick[T]}] \in V /\ pick[T] \in S
        BY <2>1, <2>2
    <3> QED
        BY <3>1
  <2>4. \A T \in D(n) : T \in D(n + 1) /\ h[T] = g[T]
    <3> TAKE T \in D(n)
    <3>1. T \in D(n + 1)
        BY <1>1
    <3> QED
        BY <2>1, <3>1
  <2>5. \A T \in D(n + 1) : h[T] = Body(h, T)
      BY <2>2, <2>4
  <2>6. Upto(h, n + 1)
      BY <2>3, <2>5
  <2>7. \E f : Upto(f, n + 1)
    <3> HIDE DEF Upto, h
    <3> QED  BY <2>6
  <2> HIDE DEF Upto
  <2> QED
      BY <2>7
<1>5. Cardinality(S) \in G
  <2> HIDE DEF G
  <2> QED  BY <1>1, <1>3, <1>4, NatUpwards
<1>6. D(Cardinality(S)) = SUBSET S
    BY <1>1
<1> QED
    BY <1>5, <1>6 DEF Unfolds

\* The recursion that SumFunction makes, as one function over all parts of S.
AddsUp(g, f, S) ==
    /\ g \in [SUBSET S -> Int]
    /\ \A T \in SUBSET S :
          g[T] = IF T = {} THEN 0 ELSE LET x == CHOOSE x \in T : TRUE IN f[x] + g[T \ {x}]

\* SumFunction is the fold of its values: it is unfolded one element at a time.
LEMMA SumUnfolds ==
    ASSUME NEW S, IsFiniteSet(S), NEW f \in [S -> Int]
    PROVE  \E g : AddsUp(g, f, S) /\ SumFunction(f) = g[S]
<1> DEFINE pick == [T \in SUBSET S |-> CHOOSE x \in T : TRUE]
           step == [p \in S \X Int |-> f[p[1]] + p[2]]
           F(g) == [T \in SUBSET S |->
                       IF T = {} THEN 0 ELSE LET x == CHOOSE x \in T : TRUE IN f[x] + g[T \ {x}]]
           iter == CHOOSE g : g = F(g)
<1>1. \A T \in SUBSET S : T # {} => pick[T] \in T /\ pick[T] = CHOOSE x \in T : TRUE
    OBVIOUS
<1>2. PICK g : Unfolds(g, S, pick, 0, Int, step)
  <2>1. step \in [S \X Int -> Int]
      OBVIOUS
  <2>2. 0 \in Int
      OBVIOUS
  <2> HIDE DEF pick, step
  <2> QED
      BY <1>1, <2>1, <2>2, SubsetRecursion
<1>3. AddsUp(g, f, S)
  <2> SUFFICES ASSUME NEW T \in SUBSET S, T # {}
               PROVE  g[T] = f[pick[T]] + g[T \ {pick[T]}]
      BY <1>1, <1>2 DEF Unfolds, AddsUp
  <2>1. g[T] = step[<<pick[T], g[T \ {pick[T]}]>>]
    <3> HIDE DEF pick, step
    <3> QED  BY <1>2 DEF Unfolds
  <2>2. pick[T] \in S /\ g[T \ {pick[T]}] \in Int
    <3> HIDE DEF pick, step
    <3> QED  BY <1>1, <1>2 DEF Unfolds
  <2> HIDE DEF pick
  <2> QED
      BY <2>1, <2>2
<1>4. g = F(g)
    BY <1>3 DEF AddsUp
<1>5. iter = F(iter)
  <2> HIDE DEF F
  <2> QED  BY <1>4
<1>6. SUBSET S \subseteq {T \in SUBSET S : iter[T] = g[T]}
  <2> DEFINE G == {T \in SUBSET S : iter[T] = g[T]}
  <2>1. ASSUME NEW T \in SUBSET S, \A x \in T : T \ {x} \in G PROVE T \in G
    <3>1. CASE T = {}
      <4>1. iter[T] = 0
        <5> HIDE DEF iter
        <5> QED  BY <1>5, <3>1
      <4>2. g[T] = 0
        BY <1>4, <3>1
      <4> HIDE DEF iter
      <4> QED  BY <4>1, <4>2
    <3>2. CASE T # {}
      <4>1. iter[T] = f[pick[T]] + iter[T \ {pick[T]}]
        <5> HIDE DEF iter
        <5> QED  BY <1>5, <3>2
      <4>2. g[T] = f[pick[T]] + g[T \ {pick[T]}]
        BY <1>4, <3>2
      <4> HIDE DEF iter, pick
      <4> QED  BY <1>1, <2>1, <3>2, <4>1, <4>2
    <3> QED
      BY <3>1, <3>2
  <2>2. SUBSET S \subseteq G
    <3> HIDE DEF G
    <3> QED  BY <2>1, SubsetsUpwards
  <2> QED
    BY <2>2
<1> QED
    BY <1>3, <1>6 DEF SumFunction, SumFunctionOnSet, FoldFunctionOnSet, MapThenFoldSet

\* The sum does not depend on which element is taken out first.
LEMMA AnyFirst ==
    ASSUME NEW S, IsFiniteSet(S), NEW f \in [S -> Int], NEW g, AddsUp(g, f, S)
    PROVE  \A T \in SUBSET S : \A x \in T : g[T] = f[x] + g[T \ {x}]
<1> DEFINE G == {T \in SUBSET S : \A x \in T : g[T] = f[x] + g[T \ {x}]}
<1>1. ASSUME NEW T \in SUBSET S, \A x \in T : T \ {x} \in G PROVE T \in G
  <2> SUFFICES ASSUME NEW x \in T PROVE g[T] = f[x] + g[T \ {x}]
      OBVIOUS
  <2> DEFINE c == CHOOSE y \in T : TRUE
  <2>1. c \in T
      OBVIOUS
  <2>2. g[T] = f[c] + g[T \ {c}]
      BY DEF AddsUp
  <2> HIDE DEF c
  <2>3. CASE x # c
    <3> DEFINE rest == g[(T \ {x}) \ {c}]
    <3>1. (T \ {c}) \ {x} = (T \ {x}) \ {c}
        OBVIOUS
    <3>2. g[T \ {c}] = f[x] + rest
        BY <1>1, <2>1, <2>3, <3>1
    <3>3. g[T \ {x}] = f[c] + rest
        BY <1>1, <2>1, <2>3
    <3>4. f[x] \in Int /\ f[c] \in Int /\ rest \in Int
        BY <2>1 DEF AddsUp
    <3> HIDE DEF rest, G
    <3> QED
        BY <2>2, <3>2, <3>3, <3>4
  <2> QED
      BY <2>2, <2>3
<1>2. SUBSET S \subseteq G
  <2> HIDE DEF G
  <2> QED  BY <1>1, SubsetsUpwards
<1> QED
    BY <1>2

\* The sum of f over T.
SumOn(f, T) == SumFunction([x \in T |-> f[x]])

\* The sum over a part is the value of the same recursion at that part.
LEMMA SumOfPart ==
    ASSUME NEW S, IsFiniteSet(S), NEW f \in [S -> Int], NEW g, AddsUp(g, f, S), NEW T \in SUBSET S
    PROVE  SumOn(f, T) = g[T]
<1> DEFINE part == [x \in T |-> f[x]]
<1>1. IsFiniteSet(T) /\ part \in [T -> Int]
    BY FS_Subset
<1>2. PICK h : AddsUp(h, part, T) /\ SumFunction(part) = h[T]
  <2> HIDE DEF part
  <2> QED  BY <1>1, SumUnfolds
<1> DEFINE G == {U \in SUBSET T : h[U] = g[U]}
<1>3. ASSUME NEW U \in SUBSET T, \A x \in U : U \ {x} \in G PROVE U \in G
  <2>1. CASE U = {}
      BY <1>2, <2>1 DEF AddsUp
  <2>2. CASE U # {}
    <3> PICK x \in U : TRUE
        BY <2>2
    <3>1. h[U] = part[x] + h[U \ {x}]
      <4> HIDE DEF part
      <4> QED  BY <1>1, <1>2, AnyFirst
    <3>2. g[U] = f[x] + g[U \ {x}]
        BY AnyFirst
    <3> QED
        BY <1>3, <3>1, <3>2
  <2> QED
      BY <2>1, <2>2
<1>4. SUBSET T \subseteq G
  <2> HIDE DEF G
  <2> QED  BY <1>1, <1>3, SubsetsUpwards
<1> QED
    BY <1>2, <1>4 DEF SumOn

\* A function that is one on S is summed by SumFunction as by SumOn.
LEMMA SumIsSumOn ==
    ASSUME NEW S, NEW f, f = [x \in S |-> f[x]]
    PROVE  SumFunction(f) = SumOn(f, S)
BY DEF SumOn

\* A sum of integers is an integer, zero over nothing, and any element can be
\* taken out of it.
LEMMA SumSteps ==
    ASSUME NEW S, IsFiniteSet(S), NEW f, \A x \in S : f[x] \in Int
    PROVE  /\ SumOn(f, S) \in Int
           /\ SumOn(f, {}) = 0
           /\ \A x \in S : SumOn(f, S) = f[x] + SumOn(f, S \ {x})
<1> DEFINE whole == [x \in S |-> f[x]]
<1>1. whole \in [S -> Int]
    OBVIOUS
<1>2. PICK g : AddsUp(g, whole, S)
  <2> HIDE DEF whole
  <2> QED  BY <1>1, SumUnfolds
<1>3. \A T \in SUBSET S : SumOn(f, T) = g[T]
  <2> TAKE T \in SUBSET S
  <2>1. SumOn(whole, T) = g[T]
    <3> HIDE DEF whole
    <3> QED  BY <1>1, <1>2, SumOfPart
  <2>2. [x \in T |-> whole[x]] = [x \in T |-> f[x]]
      OBVIOUS
  <2> QED
      BY <2>1, <2>2 DEF SumOn
<1>4. \A x \in S : g[S] = whole[x] + g[S \ {x}]
  <2> HIDE DEF whole
  <2> QED  BY <1>1, <1>2, AnyFirst
<1>5. g[{}] = 0 /\ g[S] \in Int
    BY <1>2 DEF AddsUp
<1> QED
    BY <1>3, <1>4, <1>5

\* Equal terms, equal sums.
LEMMA SumSame ==
    ASSUME NEW S, NEW f, NEW g, \A x \in S : f[x] = g[x]
    PROVE  SumOn(f, S) = SumOn(g, S)
<1>1. [x \in S |-> f[x]] = [x \in S |-> g[x]]
    OBVIOUS
<1> QED
    BY <1>1 DEF SumOn

\* A sum of zeros.
LEMMA SumZero ==
    ASSUME NEW S, IsFiniteSet(S), NEW f, \A x \in S : f[x] = 0
    PROVE  SumOn(f, S) = 0
<1> DEFINE G == {T \in SUBSET S : SumOn(f, T) = 0}
<1>1. ASSUME NEW T \in SUBSET S, \A x \in T : T \ {x} \in G PROVE T \in G
  <2>1. IsFiniteSet(T) /\ \A x \in T : f[x] \in Int
      BY FS_Subset
  <2>2. /\ SumOn(f, {}) = 0
        /\ \A x \in T : SumOn(f, T) = f[x] + SumOn(f, T \ {x})
      BY <2>1, SumSteps
  <2>3. CASE T = {}
      BY <2>2, <2>3
  <2>4. CASE T # {}
    <3> PICK x \in T : TRUE
        BY <2>4
    <3>1. T \ {x} \in G
        BY <1>1
    <3> QED
        BY <2>2, <3>1
  <2> QED
      BY <2>3, <2>4
<1>2. SUBSET S \subseteq G
  <2> HIDE DEF G
  <2> QED  BY <1>1, SubsetsUpwards
<1> QED
    BY <1>2

\* The sum of differences is the difference of the sums.
LEMMA SumDifference ==
    ASSUME NEW S, IsFiniteSet(S), NEW f, NEW g, \A x \in S : f[x] \in Int /\ g[x] \in Int
    PROVE  SumOn([x \in S |-> f[x] - g[x]], S) = SumOn(f, S) - SumOn(g, S)
<1> DEFINE d == [x \in S |-> f[x] - g[x]]
           G == {T \in SUBSET S : SumOn(d, T) = SumOn(f, T) - SumOn(g, T)}
<1>1. ASSUME NEW T \in SUBSET S, \A x \in T : T \ {x} \in G PROVE T \in G
  <2>1. IsFiniteSet(T) /\ \A x \in T : d[x] \in Int /\ d[x] = f[x] - g[x]
      BY FS_Subset
  <2> HIDE DEF d
  <2>2. /\ SumOn(d, {}) = 0 /\ SumOn(f, {}) = 0 /\ SumOn(g, {}) = 0
        /\ \A x \in T : SumOn(d, T) = d[x] + SumOn(d, T \ {x})
        /\ \A x \in T : SumOn(f, T) = f[x] + SumOn(f, T \ {x})
        /\ \A x \in T : SumOn(g, T) = g[x] + SumOn(g, T \ {x})
      BY <2>1, SumSteps
  <2>3. \A x \in T : SumOn(f, T \ {x}) \in Int /\ SumOn(g, T \ {x}) \in Int
    <3> TAKE x \in T
    <3>1. IsFiniteSet(T \ {x}) /\ T \ {x} \subseteq S
        BY <2>1, FS_Subset
    <3> QED
        BY <3>1, SumSteps
  <2>4. CASE T = {}
      BY <2>2, <2>4
  <2>5. CASE T # {}
    <3> PICK x \in T : TRUE
        BY <2>5
    <3> DEFINE U == T \ {x}
    <3>1. SumOn(d, U) = SumOn(f, U) - SumOn(g, U)
        BY <1>1
    <3>2. f[x] \in Int /\ g[x] \in Int /\ SumOn(f, U) \in Int /\ SumOn(g, U) \in Int
        BY <2>3
    <3>3. /\ SumOn(d, T) = (f[x] - g[x]) + SumOn(d, U)
          /\ SumOn(f, T) = f[x] + SumOn(f, U)
          /\ SumOn(g, T) = g[x] + SumOn(g, U)
        BY <2>1, <2>2
    <3> HIDE DEF U
    <3>4. SumOn(d, T) = SumOn(f, T) - SumOn(g, T)
        BY <3>1, <3>2, <3>3
    <3> QED
        BY <3>4
  <2> QED
      BY <2>4, <2>5
<1>2. SUBSET S \subseteq G
  <2> HIDE DEF G
  <2> QED  BY <1>1, SubsetsUpwards
<1> QED
    BY <1>2

\* The sum over two disjoint sets.
LEMMA SumUnion ==
    ASSUME NEW A, IsFiniteSet(A), NEW B, IsFiniteSet(B), A \cap B = {},
           NEW f, \A x \in A \cup B : f[x] \in Int
    PROVE  SumOn(f, A \cup B) = SumOn(f, A) + SumOn(f, B)
<1> DEFINE G == {T \in SUBSET B : SumOn(f, A \cup T) = SumOn(f, A) + SumOn(f, T)}
<1>1. ASSUME NEW T \in SUBSET B, \A x \in T : T \ {x} \in G PROVE T \in G
  <2>1. IsFiniteSet(T) /\ IsFiniteSet(A \cup T)
      BY FS_Subset, FS_Union
  <2>2. SumOn(f, A) \in Int /\ SumOn(f, {}) = 0
      BY SumSteps
  <2>3. CASE T = {}
      BY <2>2, <2>3
  <2>4. CASE T # {}
    <3> PICK x \in T : TRUE
        BY <2>4
    <3>1. SumOn(f, A \cup T) = f[x] + SumOn(f, (A \cup T) \ {x})
        BY <2>1, SumSteps
    <3>2. (A \cup T) \ {x} = A \cup (T \ {x})
        OBVIOUS
    <3>3. SumOn(f, T) = f[x] + SumOn(f, T \ {x})
        BY <2>1, SumSteps
    <3>4. IsFiniteSet(T \ {x})
        BY <2>1, FS_Subset
    <3>5. SumOn(f, T \ {x}) \in Int /\ f[x] \in Int
        BY <3>4, SumSteps
    <3> QED
        BY <1>1, <2>2, <3>1, <3>2, <3>3, <3>5
  <2> QED
      BY <2>3, <2>4
<1>2. SUBSET B \subseteq G
  <2> HIDE DEF G
  <2> QED  BY <1>1, SubsetsUpwards
<1> QED
    BY <1>2

\* Terms that are zero may be left out.
LEMMA SumSupport ==
    ASSUME NEW S, IsFiniteSet(S), NEW f, \A x \in S : f[x] \in Int,
           NEW U \in SUBSET S, \A x \in S \ U : f[x] = 0
    PROVE  SumOn(f, S) = SumOn(f, U)
<1>1. IsFiniteSet(U) /\ IsFiniteSet(S \ U)
    BY FS_Subset
<1>2. SumOn(f, S \ U) = 0 /\ SumOn(f, U) \in Int
    BY <1>1, SumZero, SumSteps
<1>3. U \cap (S \ U) = {} /\ U \cup (S \ U) = S
    OBVIOUS
<1>4. SumOn(f, S) = SumOn(f, U) + SumOn(f, S \ U)
  <2> DEFINE V == S \ U
  <2> HIDE DEF V
  <2>1. SumOn(f, U \cup V) = SumOn(f, U) + SumOn(f, V)
      BY <1>1, <1>3, SumUnion DEF V
  <2> QED
      BY <1>3, <2>1 DEF V
<1> QED
    BY <1>2, <1>4

\* A sum may be taken key by key: first what has the same key, then over the keys.
LEMMA SumFibres ==
    ASSUME NEW S, IsFiniteSet(S), NEW f, \A x \in S : f[x] \in Int,
           NEW K, IsFiniteSet(K), NEW k, \A x \in S : k[x] \in K
    PROVE  SumOn(f, S) = SumOn([a \in K |-> SumOn(f, {x \in S : k[x] = a})], K)
<1> DEFINE Fibre(T, a) == {x \in T : k[x] = a}
           Part(T) == [a \in K |-> SumOn(f, Fibre(T, a))]
           G == {T \in SUBSET S : SumOn(f, T) = SumOn(Part(T), K)}
<1>1. \A T \in SUBSET S : \A a \in K : Part(T)[a] \in Int
  <2> TAKE T \in SUBSET S
  <2> TAKE a \in K
  <2>1. IsFiniteSet(Fibre(T, a)) /\ \A x \in Fibre(T, a) : f[x] \in Int
      BY FS_Subset
  <2> HIDE DEF Fibre
  <2> QED
      BY <2>1, SumSteps
<1>2. ASSUME NEW T \in SUBSET S, \A x \in T : T \ {x} \in G PROVE T \in G
  <2>1. CASE T = {}
    <3>1. SumOn(f, {}) = 0
        BY FS_EmptySet, SumSteps
    <3>2. \A a \in K : Part(T)[a] = 0
        BY <2>1, <3>1
    <3>3. SumOn(Part(T), K) = 0
      <4> HIDE DEF Part
      <4> QED  BY <3>2, SumZero
    <3> QED
        BY <2>1, <3>1, <3>3
  <2>2. CASE T # {}
    <3> PICK x \in T : TRUE
        BY <2>2
    <3> DEFINE U == T \ {x}
               c == k[x]
    <3>1. c \in K /\ f[x] \in Int /\ U \in SUBSET S /\ IsFiniteSet(T) /\ IsFiniteSet(U)
        BY FS_Subset
    <3>2. SumOn(f, T) = f[x] + SumOn(f, U)
        BY <3>1, SumSteps
    <3>3. SumOn(f, Fibre(T, c)) = f[x] + SumOn(f, Fibre(U, c))
      <4>1. x \in Fibre(T, c) /\ Fibre(T, c) \ {x} = Fibre(U, c)
          OBVIOUS
      <4>2. IsFiniteSet(Fibre(T, c)) /\ \A y \in Fibre(T, c) : f[y] \in Int
          BY <3>1, FS_Subset
      <4> HIDE DEF Fibre, U, c
      <4> QED
          BY <4>1, <4>2, SumSteps
    <3>4. \A a \in K \ {c} : Fibre(T, a) = Fibre(U, a)
        OBVIOUS
    <3>5. Part(T)[c] = f[x] + Part(U)[c] /\ \A a \in K \ {c} : Part(T)[a] = Part(U)[a]
        BY <3>1, <3>3, <3>4
    <3>6. /\ \A a \in K : Part(T)[a] \in Int /\ Part(U)[a] \in Int
          /\ SumOn(f, U) = SumOn(Part(U), K)
        BY <1>1, <1>2, <3>1
    <3> HIDE DEF Part, U, c
    <3>7. /\ SumOn(Part(T), K) = Part(T)[c] + SumOn(Part(T), K \ {c})
          /\ SumOn(Part(U), K) = Part(U)[c] + SumOn(Part(U), K \ {c})
        BY <3>1, <3>6, SumSteps
    <3>8. SumOn(Part(T), K \ {c}) = SumOn(Part(U), K \ {c})
        BY <3>5, SumSame
    <3>9. SumOn(Part(U), K \ {c}) \in Int
      <4>1. IsFiniteSet(K \ {c})
          BY FS_Subset
      <4> QED
          BY <3>6, <4>1, SumSteps
    <3> QED
        BY <3>1, <3>2, <3>5, <3>6, <3>7, <3>8, <3>9
  <2> QED
      BY <2>1, <2>2
<1>3. SUBSET S \subseteq G
  <2> HIDE DEF G
  <2> QED  BY <1>2, SubsetsUpwards
<1> QED
    BY <1>3

\* The sum over the images of an injection is the sum over its arguments.
LEMMA SumRenamed ==
    ASSUME NEW S, IsFiniteSet(S), NEW h, \A x, y \in S : h[x] = h[y] => x = y,
           NEW f, \A x \in S : f[h[x]] \in Int
    PROVE  SumOn(f, {h[x] : x \in S}) = SumOn([x \in S |-> f[h[x]]], S)
<1> DEFINE e == [x \in S |-> f[h[x]]]
           Image(T) == {h[x] : x \in T}
           G == {T \in SUBSET S : SumOn(f, Image(T)) = SumOn(e, T)}
<1>1. ASSUME NEW T \in SUBSET S, \A x \in T : T \ {x} \in G PROVE T \in G
  <2>1. CASE T = {}
    <3>1. SumOn(f, {}) = 0 /\ SumOn(e, {}) = 0
        BY FS_EmptySet, SumSteps
    <3>2. Image(T) = {}
        BY <2>1
    <3> HIDE DEF Image, e
    <3> QED
        BY <2>1, <3>1, <3>2
  <2>2. CASE T # {}
    <3> PICK x \in T : TRUE
        BY <2>2
    <3>1. h[x] \in Image(T) /\ Image(T) \ {h[x]} = Image(T \ {x})
        OBVIOUS
    <3>2. IsFiniteSet(T) /\ IsFiniteSet(Image(T))
      <4>1. IsFiniteSet(T)
          BY FS_Subset
      <4> DEFINE m == [y \in T |-> h[y]]
      <4>2. m \in Surjection(T, Image(T))
          BY DEF Surjection
      <4> HIDE DEF m, Image
      <4> QED
          BY <4>1, <4>2, FS_Surjection
    <3>3. /\ \A y \in T : e[y] \in Int /\ e[y] = f[h[y]]
          /\ \A z \in Image(T) : f[z] \in Int
        OBVIOUS
    <3> HIDE DEF Image, e
    <3>4. SumOn(f, Image(T)) = f[h[x]] + SumOn(f, Image(T) \ {h[x]})
        BY <3>1, <3>2, <3>3, SumSteps
    <3>5. SumOn(e, T) = e[x] + SumOn(e, T \ {x})
        BY <3>2, <3>3, SumSteps
    <3> QED
        BY <1>1, <3>1, <3>3, <3>4, <3>5
  <2> QED
      BY <2>1, <2>2
<1>2. SUBSET S \subseteq G
  <2> HIDE DEF G
  <2> QED  BY <1>1, SubsetsUpwards
<1> QED
    BY <1>2

\* Counting is adding ones.
LEMMA SumOfOnes ==
    ASSUME NEW S, IsFiniteSet(S)
    PROVE  Cardinality(S) = SumOn([x \in S |-> 1], S)
<1> DEFINE one == [x \in S |-> 1]
           G == {T \in SUBSET S : Cardinality(T) = SumOn(one, T)}
<1>1. ASSUME NEW T \in SUBSET S, \A x \in T : T \ {x} \in G PROVE T \in G
  <2>1. IsFiniteSet(T) /\ \A x \in T : one[x] \in Int /\ one[x] = 1
      BY FS_Subset
  <2> HIDE DEF one
  <2>2. /\ SumOn(one, {}) = 0
        /\ \A x \in T : SumOn(one, T) = one[x] + SumOn(one, T \ {x})
      BY <2>1, SumSteps
  <2>3. Cardinality(T) \in Nat /\ \A x \in T : Cardinality(T \ {x}) = Cardinality(T) - 1
      BY <2>1, FS_RemoveElement, FS_CardinalityType
  <2>4. T = {} => Cardinality(T) = 0
      BY FS_EmptySet
  <2>5. CASE T = {}
      BY <2>2, <2>4, <2>5
  <2>6. CASE T # {}
    <3> PICK x \in T : TRUE
        BY <2>6
    <3>1. T \ {x} \in G
        BY <1>1
    <3> QED
        BY <2>1, <2>2, <2>3, <3>1
  <2> QED
      BY <2>5, <2>6
<1>2. SUBSET S \subseteq G
  <2> HIDE DEF G
  <2> QED  BY <1>1, SubsetsUpwards
<1> QED
    BY <1>2

\* A sum of naturals is one.
LEMMA SumNat ==
    ASSUME NEW S, IsFiniteSet(S), NEW f, \A x \in S : f[x] \in Nat
    PROVE  SumOn(f, S) \in Nat
<1> DEFINE G == {T \in SUBSET S : SumOn(f, T) \in Nat}
<1>1. ASSUME NEW T \in SUBSET S, \A x \in T : T \ {x} \in G PROVE T \in G
  <2>1. IsFiniteSet(T) /\ \A x \in T : f[x] \in Int
      BY FS_Subset
  <2>2. /\ SumOn(f, {}) = 0
        /\ \A x \in T : SumOn(f, T) = f[x] + SumOn(f, T \ {x})
      BY <2>1, SumSteps
  <2>3. CASE T = {}
      BY <2>2, <2>3
  <2>4. CASE T # {}
    <3> PICK x \in T : TRUE
        BY <2>4
    <3>1. T \ {x} \in G
        BY <1>1
    <3> QED
        BY <2>2, <3>1
  <2> QED
      BY <2>3, <2>4
<1>2. SUBSET S \subseteq G
  <2> HIDE DEF G
  <2> QED  BY <1>1, SubsetsUpwards
<1> QED
    BY <1>2
==============================================================================
