----------------------------- MODULE SumProofs -----------------------------
(***************************************************************************)
(* Sums over a finite set, as the community module Functions defines them   *)
(* (SumFunctionOnSet, a fold): what the proofs about grades rest on. No     *)
(* induction theorem with an operator parameter is used; a property is      *)
(* given as the set of what has it, and a counterexample is taken minimal.  *)
(***************************************************************************)
EXTENDS Functions, FiniteSetTheorems, TLAPS

\* The order of the natural numbers, as a relation.
Before == {p \in Nat \X Nat : p[1] < p[2]}

\* Every set of natural numbers but the empty one has a least member.
LEMMA LeastNumber ==
    ASSUME NEW T \in SUBSET Nat, T # {}
    PROVE  \E n \in T : \A m \in T : n <= m
<1>1. IsWellFoundedOn(Before, Nat)
  BY NatLessThanWellFounded DEF OpToRel, Before
<1>2. PICK n \in T : \A m \in T : <<m, n>> \notin Before
  BY <1>1, WFMin
<1>3. n \in Nat /\ \A m \in T : m \in Nat
  OBVIOUS
<1>4. ASSUME NEW m \in T PROVE n <= m
  <2>1. ~(m < n)
    BY <1>2, <1>3 DEF Before
  <2> QED BY <2>1, <1>3
<1> QED BY <1>4

\* The member that the library's folds take next.
Pick(S) == CHOOSE x \in S : TRUE

\* The sum of f over S from the sums h of the smaller sets.
SumStep(f, h, S) ==
    IF S = {} THEN 0
    ELSE f[Pick(S)] + h[S \ {Pick(S)}]

\* The subsets of S with no more than n members.
Small(S, n) == {T \in SUBSET S : Cardinality(T) <= n}

\* The recursion has a solution on the subsets of each size: a least size without one would
\* be extended from the size before it.
LEMMA SumUpTo ==
    ASSUME NEW f, NEW S, IsFiniteSet(S), NEW n \in Nat
    PROVE  \E h : h = [T \in Small(S, n) |-> SumStep(f, h, T)]
<1> DEFINE Bad == {m \in Nat : ~ \E h : h = [T \in Small(S, m) |-> SumStep(f, h, T)]}
<1>1. SUFFICES ASSUME Bad # {} PROVE FALSE
  OBVIOUS
<1>2. PICK m \in Bad : \A k \in Bad : m <= k
  BY <1>1, LeastNumber
<1>3. \A T \in SUBSET S : Cardinality(T) \in Nat /\ IsFiniteSet(T)
  BY FS_Subset, FS_CardinalityType
<1>4. ASSUME NEW T \in SUBSET S, T # {}
      PROVE  T \ {Pick(T)} \in SUBSET S /\ Cardinality(T \ {Pick(T)}) = Cardinality(T) - 1
  BY <1>3, <1>4, FS_RemoveElement DEF Pick
<1>5. CASE m = 0
  <2>1. Small(S, 0) = {{}}
    BY <1>3, FS_EmptySet DEF Small
  <2> DEFINE h == [T \in Small(S, 0) |-> 0]
  <2>2. h = [T \in Small(S, 0) |-> SumStep(f, h, T)]
    BY <2>1 DEF SumStep
  <2> HIDE DEF h
  <2> QED BY <1>5, <2>2
<1>6. CASE m # 0
  <2>1. m \in Nat /\ m - 1 \in Nat /\ m - 1 \notin Bad
    BY <1>2, <1>6
  <2>2. PICK g : g = [T \in Small(S, m - 1) |-> SumStep(f, g, T)]
    BY <2>1
  <2> DEFINE h == [T \in Small(S, m) |-> SumStep(f, g, T)]
  <2>3. ASSUME NEW T \in Small(S, m) PROVE SumStep(f, g, T) = SumStep(f, h, T)
    <3>1. CASE T = {}
      BY <3>1 DEF SumStep
    <3>2. CASE T # {}
      <4>1. PICK x : x = Pick(T)
        OBVIOUS
      <4>2. T \ {x} \in Small(S, m - 1) /\ T \ {x} \in Small(S, m)
        BY <1>3, <1>4, <2>1, <2>3, <3>2, <4>1 DEF Small
      <4>3. g[T \ {x}] = SumStep(f, g, T \ {x}) /\ h[T \ {x}] = SumStep(f, g, T \ {x})
        <5> HIDE DEF SumStep
        <5> QED BY <2>2, <4>2
      <4> HIDE DEF h
      <4> QED BY <3>2, <4>1, <4>3 DEF SumStep
    <3> QED BY <3>1, <3>2
  <2>4. h = [T \in Small(S, m) |-> SumStep(f, h, T)]
    BY <2>3
  <2> HIDE DEF h
  <2> QED BY <2>4
<1> QED BY <1>5, <1>6

\* h sums f over the subsets of S, and the library's operator is its value at S.
Sums(h, f, S) ==
    /\ SumFunctionOnSet(f, S) = h[S]
    /\ h[{}] = 0
    /\ \A T \in SUBSET S : T # {} => h[T] = f[Pick(T)] + h[T \ {Pick(T)}]

\* There is such an h: the library defines what it says it defines.
LEMMA SumEquation ==
    ASSUME NEW S, IsFiniteSet(S), NEW f
    PROVE  \E h : Sums(h, f, S)
<1>1. PICK n \in Nat : n = Cardinality(S)
  BY FS_CardinalityType
<1>2. Small(S, n) = SUBSET S
  BY <1>1, FS_Subset DEF Small
<1>3. \E h : h = [T \in Small(S, n) |-> SumStep(f, h, T)]
  BY SumUpTo
<1>4. SumFunctionOnSet(f, S) = (CHOOSE h : h = [T \in SUBSET S |-> SumStep(f, h, T)])[S]
  BY DEF SumFunctionOnSet, FoldFunctionOnSet, MapThenFoldSet, SumStep, Pick
<1>5. PICK h : h = [T \in SUBSET S |-> SumStep(f, h, T)] /\ SumFunctionOnSet(f, S) = h[S]
  BY <1>2, <1>3, <1>4
<1>6. h[{}] = 0 /\ \A T \in SUBSET S : T # {} => h[T] = f[Pick(T)] + h[T \ {Pick(T)}]
  BY <1>5 DEF SumStep
<1> QED BY <1>5, <1>6 DEF Sums

\* What is picked is a member.
LEMMA PickIsIn == \A T : T # {} => Pick(T) \in T
BY DEF Pick

\* What holds of the empty set, and of a set whenever it holds of that set less the member
\* picked, holds of every subset of a finite set. G is the set of those it holds of.
LEMMA SetInduction ==
    ASSUME NEW S, IsFiniteSet(S), NEW G, {} \in G,
           \A T \in SUBSET S : T # {} /\ T \ {Pick(T)} \in G => T \in G
    PROVE  \A T \in SUBSET S : T \in G
<1> DEFINE Bad == {T \in SUBSET S : T \notin G}
<1>1. SUFFICES ASSUME Bad # {} PROVE FALSE
  OBVIOUS
<1>2. FiniteSubsetsOf(S) = SUBSET S
  BY FS_FiniteSubsetsOfFinite
<1>3. IsWellFoundedOn(StrictSubsetOrdering(S), SUBSET S)
  BY <1>2, FS_StrictSubsetOrderingWellFounded
<1>4. PICK T \in Bad : \A U \in Bad : <<U, T>> \notin StrictSubsetOrdering(S)
  BY <1>1, <1>3, WFMin
<1>5. T \in SUBSET S /\ T # {} /\ Pick(T) \in T
  BY <1>4, PickIsIn
<1> DEFINE U == T \ {Pick(T)}
<1>6. U \in SUBSET S /\ U \subseteq T /\ U # T
  BY <1>5
<1>7. <<U, T>> \in StrictSubsetOrdering(S)
  <2> HIDE DEF U
  <2> QED BY <1>5, <1>6 DEF StrictSubsetOrdering
<1>8. U \in G
  BY <1>4, <1>6, <1>7
<1> QED BY <1>4, <1>5, <1>8

\* A sum of natural numbers is a natural number.
LEMMA SumIsNat ==
    ASSUME NEW S, IsFiniteSet(S), NEW f, \A x \in S : f[x] \in Nat
    PROVE  SumFunctionOnSet(f, S) \in Nat
<1>1. PICK h : Sums(h, f, S)
  BY SumEquation
<1> DEFINE G == {T \in SUBSET S : h[T] \in Nat}
<1>2. {} \in G
  BY <1>1 DEF Sums
<1>3. ASSUME NEW T \in SUBSET S, T # {}, T \ {Pick(T)} \in G PROVE T \in G
  <2>1. Pick(T) \in S
    BY <1>3, PickIsIn
  <2>2. h[T] = f[Pick(T)] + h[T \ {Pick(T)}]
    BY <1>1, <1>3 DEF Sums
  <2> QED BY <1>3, <2>1, <2>2
<1>4. \A T \in SUBSET S : T \in G
  <2> HIDE DEF G
  <2> QED BY <1>2, <1>3, SetInduction
<1> QED BY <1>1, <1>4 DEF Sums

\* A sum of integers is an integer.
LEMMA SumIsInt ==
    ASSUME NEW S, IsFiniteSet(S), NEW f, \A x \in S : f[x] \in Int
    PROVE  SumFunctionOnSet(f, S) \in Int
<1>1. PICK h : Sums(h, f, S)
  BY SumEquation
<1> DEFINE G == {T \in SUBSET S : h[T] \in Int}
<1>2. {} \in G
  BY <1>1 DEF Sums
<1>3. ASSUME NEW T \in SUBSET S, T # {}, T \ {Pick(T)} \in G PROVE T \in G
  <2>1. Pick(T) \in S
    BY <1>3, PickIsIn
  <2>2. h[T] = f[Pick(T)] + h[T \ {Pick(T)}]
    BY <1>1, <1>3 DEF Sums
  <2> QED BY <1>3, <2>1, <2>2
<1>4. \A T \in SUBSET S : T \in G
  <2> HIDE DEF G
  <2> QED BY <1>2, <1>3, SetInduction
<1> QED BY <1>1, <1>4 DEF Sums

\* Multiplication distributes over addition.
LEMMA Distribute ==
    ASSUME NEW c \in Int, NEW u \in Int, NEW v \in Int
    PROVE  c * u + c * v = c * (u + v)
OBVIOUS

\* A factor comes out of a sum.
LEMMA SumOfMultiples ==
    ASSUME NEW S, IsFiniteSet(S), NEW c \in Int, NEW f, NEW g,
           \A x \in S : f[x] \in Int /\ g[x] = c * f[x]
    PROVE  SumFunctionOnSet(g, S) = c * SumFunctionOnSet(f, S)
<1>1. PICK h : Sums(h, f, S)
  BY SumEquation
<1>2. PICK k : Sums(k, g, S)
  BY SumEquation
<1> DEFINE G == {T \in SUBSET S : h[T] \in Int /\ k[T] = c * h[T]}
<1>3. {} \in G
  BY <1>1, <1>2 DEF Sums
<1>4. ASSUME NEW T \in SUBSET S, T # {}, T \ {Pick(T)} \in G PROVE T \in G
  <2>1. PICK x \in T : x = Pick(T)
    BY <1>4, PickIsIn
  <2>2. h[T] = f[x] + h[T \ {x}] /\ k[T] = g[x] + k[T \ {x}]
    BY <1>1, <1>2, <1>4, <2>1 DEF Sums
  <2>3. f[x] \in Int /\ g[x] = c * f[x] /\ h[T \ {x}] \in Int /\ k[T \ {x}] = c * h[T \ {x}]
    BY <1>4, <2>1
  <2>4. PICK u \in Int, v \in Int : u = f[x] /\ v = h[T \ {x}]
    BY <2>3
  <2>5. c * u + c * v = c * (u + v)
    BY Distribute
  <2> QED BY <2>2, <2>3, <2>4, <2>5
<1>5. \A T \in SUBSET S : T \in G
  <2> HIDE DEF G
  <2> QED BY <1>3, <1>4, SetInduction
<1> QED BY <1>1, <1>2, <1>5 DEF Sums

\* Greater terms have a greater sum, by at least what one of them is greater by.
LEMMA SumIsMonotone ==
    ASSUME NEW S, IsFiniteSet(S), NEW f, NEW g,
           \A x \in S : f[x] \in Nat /\ g[x] \in Nat /\ f[x] <= g[x]
    PROVE  /\ SumFunctionOnSet(f, S) <= SumFunctionOnSet(g, S)
           /\ \A x \in S : g[x] - f[x] <= SumFunctionOnSet(g, S) - SumFunctionOnSet(f, S)
<1>1. PICK h : Sums(h, f, S)
  BY SumEquation
<1>2. PICK k : Sums(k, g, S)
  BY SumEquation
<1> DEFINE G == {T \in SUBSET S : /\ h[T] \in Nat /\ k[T] \in Nat /\ h[T] <= k[T]
                                  /\ \A x \in T : g[x] - f[x] <= k[T] - h[T]}
<1>3. {} \in G
  BY <1>1, <1>2 DEF Sums
<1>4. ASSUME NEW T \in SUBSET S, T # {}, T \ {Pick(T)} \in G PROVE T \in G
  <2>1. PICK x \in T : x = Pick(T)
    BY <1>4, PickIsIn
  <2>2. h[T] = f[x] + h[T \ {x}] /\ k[T] = g[x] + k[T \ {x}]
    BY <1>1, <1>2, <1>4, <2>1 DEF Sums
  <2>3. f[x] \in Nat /\ g[x] \in Nat /\ f[x] <= g[x]
    OBVIOUS
  <2>4. /\ h[T \ {x}] \in Nat /\ k[T \ {x}] \in Nat /\ h[T \ {x}] <= k[T \ {x}]
        /\ \A y \in T \ {x} : g[y] - f[y] <= k[T \ {x}] - h[T \ {x}]
    BY <1>4, <2>1
  <2>5. h[T] \in Nat /\ k[T] \in Nat /\ h[T] <= k[T]
    BY <2>2, <2>3, <2>4
  <2>6. ASSUME NEW y \in T PROVE g[y] - f[y] <= k[T] - h[T]
    <3>1. CASE y = x
      BY <2>2, <2>3, <2>4, <3>1
    <3>2. CASE y # x
      <4>1. g[y] - f[y] <= k[T \ {x}] - h[T \ {x}]
        BY <2>4, <2>6, <3>2
      <4>2. f[y] \in Nat /\ g[y] \in Nat
        OBVIOUS
      <4> QED BY <2>2, <2>3, <2>4, <4>1, <4>2
    <3> QED BY <3>1, <3>2
  <2> QED BY <2>5, <2>6
<1>5. \A T \in SUBSET S : T \in G
  <2> HIDE DEF G
  <2> QED BY <1>3, <1>4, SetInduction
<1> QED BY <1>1, <1>2, <1>5 DEF Sums
=============================================================================
