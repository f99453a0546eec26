----------------------------- MODULE SumLemmas -----------------------------
(***************************************************************************)
(* Sums of a function over a finite set, as SumFunctionOnSet of Functions  *)
(* computes them.  The books of the services are such sums: of the credits *)
(* of all users, of what open packets hold, of what runs were charged.     *)
(*                                                                         *)
(* SumFunctionOnSet is a fold, and a fold a recursive function on the      *)
(* subsets of its set.  Induction over these subsets, in the form of the   *)
(* theorem that a well-founded ordering has minimal elements, shows that   *)
(* the recursion has a solution and what it computes.  So does the lemma   *)
(* on least numbers for what counts down.                                  *)
(***************************************************************************)
EXTENDS Integers, FiniteSets, Folds, Functions, FiniteSetTheorems, TLAPS

\* Nonempty sets of numbers have a least one.
LEMMA LeastNumber == ASSUME NEW S \in SUBSET Nat, S # {} PROVE \E n \in S : \A m \in S : n <= m
<1>1. PICK x \in S : \A y \in S : ~(<< y, x >> \in OpToRel(<, Nat))
  BY NatLessThanWellFounded, WFMin
<1>2. ASSUME NEW m \in S, m < x
      PROVE  FALSE
  <2>1. << m, x >> \in Nat \X Nat /\ << m, x >>[1] < << m, x >>[2]
    BY <1>2
  <2>2. << m, x >> \in OpToRel(<, Nat)
    BY <2>1 DEF OpToRel
  <2> QED  BY <1>1, <2>2
<1>3. \A m \in S : m \in Nat
  OBVIOUS
<1> QED  BY <1>2, <1>3

\* Induction over the subsets of a finite set, for a property that is given as the
\* set of those that have it.
LEMMA SubsetInduction ==
  ASSUME NEW S, IsFiniteSet(S), NEW Good,
         \A T \in SUBSET S : (\A U \in SUBSET T : U # T => U \in Good) => T \in Good
  PROVE  SUBSET S \subseteq Good
<1> DEFINE Bad == {T \in SUBSET S : T \notin Good}
<1>1. SUFFICES ASSUME Bad # {} PROVE FALSE
  OBVIOUS
<1>2. IsWellFoundedOn(StrictSubsetOrdering(S), SUBSET S)
  BY FS_StrictSubsetOrderingWellFounded, FS_FiniteSubsetsOfFinite
<1>3. PICK T \in Bad : \A U \in Bad : ~(<< U, T >> \in StrictSubsetOrdering(S))
  <2>1. Bad \subseteq SUBSET S
    OBVIOUS
  <2> HIDE DEF Bad
  <2> QED
    BY <1>1, <1>2, <2>1, WFMin
<1>4. \A U \in SUBSET T : U # T => U \in Good
  BY <1>3 DEF StrictSubsetOrdering
<1> QED
  BY <1>3, <1>4

\* A place at the end of a sequence counts one if it has what is counted.
LEMMA PlacesGrow ==
  ASSUME NEW n \in Nat, NEW A \in SUBSET (1 .. n), NEW B, B = A \cup {n + 1} \/ B = A
  PROVE  /\ Cardinality(A) \in Nat /\ IsFiniteSet(A)
         /\ Cardinality(B) = Cardinality(A) + (IF B # A THEN 1 ELSE 0)
         /\ (Cardinality(A) = 0) <=> (A = {})
<1>1. IsFiniteSet(1 .. n)
  BY FS_Interval
<1>2. IsFiniteSet(A) /\ Cardinality(A) \in Nat
  BY <1>1, FS_Subset, FS_CardinalityType
<1>3. n + 1 \notin A
  OBVIOUS
<1>4. Cardinality(A \cup {n + 1}) = Cardinality(A) + 1
  BY <1>2, <1>3, FS_AddElement
<1>5. (Cardinality(A) = 0) <=> (A = {})
  BY <1>2, FS_EmptySet
<1> QED  BY <1>2, <1>3, <1>4, <1>5

\* A larger number of a set has a higher rank in it.
LEMMA RankGrows ==
  ASSUME NEW S \in SUBSET Nat, IsFiniteSet(S), NEW i \in S, NEW m \in Nat, i < m
  PROVE  /\ Cardinality({j \in S : j < i}) \in Nat /\ Cardinality({j \in S : j < m}) \in Nat
         /\ Cardinality({j \in S : j < i}) < Cardinality({j \in S : j < m})
<1> DEFINE Below(x) == {j \in S : j < x}
<1>1. i \in Nat /\ \A j \in S : j \in Nat
  OBVIOUS
<1>2. \A j \in S : j < i => j < m
  BY <1>1
<1>3. Below(i) \in SUBSET Below(m)
  BY <1>2
<1>4. i \in Below(m) /\ i \notin Below(i) /\ Below(m) \in SUBSET S
  BY <1>1
<1> HIDE DEF Below
<1>5. IsFiniteSet(Below(m)) /\ IsFiniteSet(Below(i)) /\ Cardinality(Below(i)) <= Cardinality(Below(m))
      /\ Cardinality(Below(i)) # Cardinality(Below(m))
  BY <1>3, <1>4, FS_Subset
<1>6. Cardinality(Below(i)) \in Nat /\ Cardinality(Below(m)) \in Nat
  BY <1>5, FS_CardinalityType
<1>7. Cardinality(Below(i)) < Cardinality(Below(m))
  BY <1>5, <1>6
<1> QED  BY <1>6, <1>7 DEF Below

\* The numbers below a bound and the others are all there are.
LEMMA RankSplits ==
  ASSUME NEW S \in SUBSET Nat, IsFiniteSet(S), NEW a \in Nat
  PROVE  /\ Cardinality({j \in S : j < a}) \in Nat /\ Cardinality({j \in S : a <= j}) \in Nat
         /\ Cardinality({j \in S : j < a}) + Cardinality({j \in S : a <= j}) = Cardinality(S)
<1> DEFINE B == {j \in S : j < a}
           C == {j \in S : a <= j}
<1>1. \A j \in S : (j < a /\ ~(a <= j)) \/ (a <= j /\ ~(j < a))
  <2>1. \A j \in S : j \in Nat
    OBVIOUS
  <2> QED  BY <2>1
<1>2. B \in SUBSET S /\ S \ B = C /\ S \cap B = B
  BY <1>1
<1> HIDE DEF B, C
<1>3. IsFiniteSet(B) /\ IsFiniteSet(C) /\ Cardinality(C) = Cardinality(S) - Cardinality(B)
  <2>1. IsFiniteSet(B) /\ C \in SUBSET S
    BY <1>2, FS_Subset
  <2>2. IsFiniteSet(C)
    BY <2>1, FS_Subset
  <2>3. Cardinality(S \ B) = Cardinality(S) - Cardinality(S \cap B)
    BY <2>1, FS_Difference
  <2> QED  BY <1>2, <2>1, <2>2, <2>3
<1>4. Cardinality(B) \in Nat /\ Cardinality(C) \in Nat /\ Cardinality(S) \in Nat
  BY <1>3, FS_CardinalityType
<1>5. Cardinality(B) + Cardinality(C) = Cardinality(S)
  BY <1>3, <1>4
<1> QED  BY <1>4, <1>5 DEF B, C

\* Every rank below the size of a finite set of numbers is taken by one of its elements.
LEMMA RanksTaken ==
  ASSUME NEW S \in SUBSET Nat, IsFiniteSet(S), NEW k \in 0 .. Cardinality(S) - 1
  PROVE  \E i \in S : Cardinality({j \in S : j < i}) = k
<1> DEFINE Below(i) == {j \in S : j < i}
           f == [i \in S |-> Cardinality(Below(i))]
           T == 0 .. Cardinality(S) - 1
<1>1. Cardinality(S) \in Nat /\ IsFiniteSet(T) /\ Cardinality(T) = Cardinality(S)
  BY FS_CardinalityType, FS_Interval
<1>2. ASSUME NEW i \in S PROVE IsFiniteSet(Below(i)) /\ Cardinality(Below(i)) \in T
  <2>1. Below(i) \in SUBSET S /\ i \notin Below(i)
    OBVIOUS
  <2> HIDE DEF Below
  <2>2. IsFiniteSet(Below(i)) /\ Cardinality(Below(i)) <= Cardinality(S) /\ Cardinality(S) # Cardinality(Below(i))
    BY <2>1, FS_Subset
  <2>3. Cardinality(Below(i)) \in Nat
    BY <2>2, FS_CardinalityType
  <2> QED  BY <1>1, <2>2, <2>3
<1>3. f \in Injection(S, T)
  <2>1. f \in [S -> T]
    BY <1>2
  <2>2. ASSUME NEW i \in S, NEW m \in S, f[i] = f[m] PROVE i = m
    <3>1. f[i] = Cardinality(Below(i)) /\ f[m] = Cardinality(Below(m)) /\ i \in Nat /\ m \in Nat
      OBVIOUS
    <3>2. ~(i < m) /\ ~(m < i)
      BY <2>2, <3>1, RankGrows
    <3> QED  BY <3>1, <3>2
  <2> HIDE DEF f, T
  <2> QED  BY <2>1, <2>2 DEF Injection, IsInjective
<1>4. f \in Surjection(S, T)
  <2> HIDE DEF f, T
  <2> QED  BY <1>1, <1>3, FS_Injection
<1>5. PICK i \in S : f[i] = k
  <2> HIDE DEF f
  <2> QED  BY <1>4 DEF Surjection
<1> QED  BY <1>5

\* The element the sum takes first
First(S) == CHOOSE x \in S : TRUE

\* The right-hand side of the recursion
Term(f, g, S) == IF S = {} THEN 0 ELSE f[First(S)] + g[S \ {First(S)}]

\* The function g on the subsets of S is a solution of the recursion.
Solves(g, f, S) == g = [s \in SUBSET S |-> Term(f, g, s)]

\* A set that is not empty has a first element.
LEMMA FirstIsIn == ASSUME NEW S, S # {} PROVE First(S) \in S
  BY DEF First

\* The fold of the library is the value of such a solution.
LEMMA SumUnfold ==
  ASSUME NEW f, NEW S
  PROVE  SumFunctionOnSet(f, S) = (CHOOSE g : Solves(g, f, S))[S]
  BY DEF Solves, SumFunctionOnSet, FoldFunctionOnSet, MapThenFoldSet, Term, First

\* Two solutions of the recursion are the same.
LEMMA SolutionIsUnique ==
  ASSUME NEW f, NEW S, IsFiniteSet(S),
         NEW g, Solves(g, f, S), NEW h, Solves(h, f, S)
  PROVE  g = h
<1> DEFINE Good == {s \in SUBSET S : g[s] = h[s]}
<1>1. ASSUME NEW T \in SUBSET S, \A U \in SUBSET T : U # T => U \in Good
      PROVE  T \in Good
  <2>1. g[T] = Term(f, g, T) /\ h[T] = Term(f, h, T)
    BY DEF Solves
  <2>2. T # {} => T \ {First(T)} \in SUBSET T /\ T \ {First(T)} # T
    BY FirstIsIn
  <2>3. Term(f, g, T) = Term(f, h, T)
    BY <1>1, <2>2 DEF Term
  <2> QED
    BY <2>1, <2>3
<1>2. SUBSET S \subseteq Good
  <2> HIDE DEF Good
  <2> QED
    BY <1>1, SubsetInduction
<1>3. \A s \in SUBSET S : g[s] = h[s]
  BY <1>2
<1>4. /\ DOMAIN g = SUBSET S /\ g = [s \in DOMAIN g |-> g[s]]
      /\ DOMAIN h = SUBSET S /\ h = [s \in DOMAIN h |-> h[s]]
  BY DEF Solves
<1> QED
  BY <1>3, <1>4

\* The sum of what is left when one element has been taken: the recursion equation.
LEMMA SumEquation ==
  ASSUME NEW f, NEW S, IsFiniteSet(S)
  PROVE  SumFunctionOnSet(f, S)
           = IF S = {} THEN 0 ELSE f[First(S)] + SumFunctionOnSet(f, S \ {First(S)})
<1> DEFINE V == [s \in SUBSET S |-> SumFunctionOnSet(f, s)]
           Good == {s \in SUBSET S : V[s] = Term(f, V, s)}
<1>1. ASSUME NEW T \in SUBSET S, \A U \in SUBSET T : U # T => U \in Good
      PROVE  T \in Good
  <2> DEFINE h == [s \in SUBSET T |-> IF s = T THEN Term(f, V, T) ELSE V[s]]
  <2>1. Solves(h, f, T)
    <3>1. ASSUME NEW s \in SUBSET T
          PROVE  h[s] = Term(f, h, s)
      <4>1. s # {} => s \ {First(s)} \in SUBSET T /\ s \ {First(s)} # T
        BY FirstIsIn
      <4>2. Term(f, h, s) = Term(f, V, s)
        BY <4>1 DEF Term
      <4>3. CASE s = T
        BY <4>2, <4>3
      <4>4. CASE s # T
        <5>1. s \in Good
          BY <1>1, <4>4
        <5> QED
          BY <4>2, <4>4, <5>1
      <4> QED
        BY <4>3, <4>4
    <3>2. h = [s \in SUBSET T |-> h[s]]
      OBVIOUS
    <3> HIDE DEF h
    <3> QED
      BY <3>1, <3>2 DEF Solves
  <2> DEFINE c == CHOOSE g : Solves(g, f, T)
  <2>2. Solves(c, f, T)
    <3> HIDE DEF h
    <3> QED
      BY <2>1
  <2>3. IsFiniteSet(T)
    BY FS_Subset
  <2>4. c = h
    <3> HIDE DEF c, h
    <3> QED
      BY <2>1, <2>2, <2>3, SolutionIsUnique
  <2>5. SumFunctionOnSet(f, T) = c[T]
    BY SumUnfold
  <2>6. h[T] = Term(f, V, T)
    OBVIOUS
  <2> QED
    BY <2>4, <2>5, <2>6
<1>2. SUBSET S \subseteq Good
  <2> HIDE DEF Good
  <2> QED
    BY <1>1, SubsetInduction
<1>3. V[S] = Term(f, V, S)
  BY <1>2
<1>4. S # {} => S \ {First(S)} \in SUBSET S
  OBVIOUS
<1> QED
  BY <1>3, <1>4 DEF Term

\* The sum of no elements
LEMMA SumOfNone == ASSUME NEW f PROVE SumFunctionOnSet(f, {}) = 0
  BY SumEquation, FS_EmptySet

\* A sum of integers is an integer.
LEMMA SumType ==
  ASSUME NEW f, NEW S, IsFiniteSet(S), \A x \in S : f[x] \in Int
  PROVE  SumFunctionOnSet(f, S) \in Int
<1> DEFINE Good == {s \in SUBSET S : SumFunctionOnSet(f, s) \in Int}
<1>1. ASSUME NEW T \in SUBSET S, \A U \in SUBSET T : U # T => U \in Good
      PROVE  T \in Good
  <2>1. IsFiniteSet(T)
    BY FS_Subset
  <2>2. CASE T = {}
    BY <2>2, SumOfNone
  <2>3. CASE T # {}
    <3>1. First(T) \in T /\ T \ {First(T)} \in Good
      BY <1>1, <2>3, FirstIsIn
    <3>2. SumFunctionOnSet(f, T) = f[First(T)] + SumFunctionOnSet(f, T \ {First(T)})
      BY <2>1, <2>3, SumEquation
    <3> QED
      BY <3>1, <3>2
  <2> QED
    BY <2>2, <2>3
<1>2. SUBSET S \subseteq Good
  <2> HIDE DEF Good
  <2> QED
    BY <1>1, SubsetInduction
<1> QED
  BY <1>2

\* The same for natural numbers
LEMMA SumTypeNat ==
  ASSUME NEW f, NEW S, IsFiniteSet(S), \A x \in S : f[x] \in Nat
  PROVE  SumFunctionOnSet(f, S) \in Nat
<1> DEFINE Good == {s \in SUBSET S : SumFunctionOnSet(f, s) \in Nat}
<1>1. ASSUME NEW T \in SUBSET S, \A U \in SUBSET T : U # T => U \in Good
      PROVE  T \in Good
  <2>1. IsFiniteSet(T)
    BY FS_Subset
  <2>2. CASE T = {}
    BY <2>2, SumOfNone
  <2>3. CASE T # {}
    <3>1. First(T) \in T /\ T \ {First(T)} \in Good
      BY <1>1, <2>3, FirstIsIn
    <3>2. SumFunctionOnSet(f, T) = f[First(T)] + SumFunctionOnSet(f, T \ {First(T)})
      BY <2>1, <2>3, SumEquation
    <3> QED
      BY <3>1, <3>2
  <2> QED
    BY <2>2, <2>3
<1>2. SUBSET S \subseteq Good
  <2> HIDE DEF Good
  <2> QED
    BY <1>1, SubsetInduction
<1> QED
  BY <1>2

\* Two functions that differ by what a third one says: so do their sums.
LEMMA SumOfSums ==
  ASSUME NEW f, NEW g, NEW d, NEW S, IsFiniteSet(S),
         \A x \in S : f[x] \in Int /\ d[x] \in Int /\ g[x] = f[x] + d[x]
  PROVE  SumFunctionOnSet(g, S) = SumFunctionOnSet(f, S) + SumFunctionOnSet(d, S)
<1> DEFINE Good == {s \in SUBSET S :
              SumFunctionOnSet(g, s) = SumFunctionOnSet(f, s) + SumFunctionOnSet(d, s)}
<1>1. ASSUME NEW T \in SUBSET S, \A U \in SUBSET T : U # T => U \in Good
      PROVE  T \in Good
  <2>1. IsFiniteSet(T)
    BY FS_Subset
  <2>2. CASE T = {}
    BY <2>2, SumOfNone
  <2>3. CASE T # {}
    <3> DEFINE a == First(T)
               U == T \ {a}
    <3>1. a \in S /\ U \in Good /\ IsFiniteSet(U)
      BY <1>1, <2>1, <2>3, FirstIsIn, FS_Subset
    <3>2. /\ SumFunctionOnSet(f, T) = f[a] + SumFunctionOnSet(f, U)
          /\ SumFunctionOnSet(g, T) = g[a] + SumFunctionOnSet(g, U)
          /\ SumFunctionOnSet(d, T) = d[a] + SumFunctionOnSet(d, U)
      BY <2>1, <2>3, SumEquation
    <3>3. SumFunctionOnSet(f, U) \in Int /\ SumFunctionOnSet(d, U) \in Int
      BY <3>1, SumType
    <3> HIDE DEF a, U
    <3> QED
      BY <3>1, <3>2, <3>3
  <2> QED
    BY <2>2, <2>3
<1>2. SUBSET S \subseteq Good
  <2> HIDE DEF Good
  <2> QED
    BY <1>1, SubsetInduction
<1> QED
  BY <1>2

\* Functions that agree on a set have one sum over it.
LEMMA SumExtensional ==
  ASSUME NEW f, NEW g, NEW S, IsFiniteSet(S), \A x \in S : g[x] = f[x]
  PROVE  SumFunctionOnSet(g, S) = SumFunctionOnSet(f, S)
<1> DEFINE Good == {s \in SUBSET S : SumFunctionOnSet(g, s) = SumFunctionOnSet(f, s)}
<1>1. ASSUME NEW T \in SUBSET S, \A U \in SUBSET T : U # T => U \in Good
      PROVE  T \in Good
  <2>1. IsFiniteSet(T)
    BY FS_Subset
  <2>2. CASE T = {}
    BY <2>2, SumOfNone
  <2>3. CASE T # {}
    <3>1. First(T) \in T /\ T \ {First(T)} \in Good
      BY <1>1, <2>3, FirstIsIn
    <3> QED
      BY <2>1, <2>3, <3>1, SumEquation
  <2> QED
    BY <2>2, <2>3
<1>2. SUBSET S \subseteq Good
  <2> HIDE DEF Good
  <2> QED
    BY <1>1, SubsetInduction
<1> QED
  BY <1>2

\* Which element is taken first does not matter.
LEMMA SumWithout ==
  ASSUME NEW f, NEW S, IsFiniteSet(S), \A x \in S : f[x] \in Int, NEW a \in S
  PROVE  SumFunctionOnSet(f, S) = f[a] + SumFunctionOnSet(f, S \ {a})
<1> DEFINE Good == {s \in SUBSET S :
              \A x \in s : SumFunctionOnSet(f, s) = f[x] + SumFunctionOnSet(f, s \ {x})}
<1>1. ASSUME NEW T \in SUBSET S, \A U \in SUBSET T : U # T => U \in Good
      PROVE  T \in Good
  <2>1. SUFFICES ASSUME NEW x \in T
                 PROVE  SumFunctionOnSet(f, T) = f[x] + SumFunctionOnSet(f, T \ {x})
    OBVIOUS
  <2>2. IsFiniteSet(T)
    BY FS_Subset
  <2> DEFINE a0 == First(T)
  <2>3. a0 \in T /\ SumFunctionOnSet(f, T) = f[a0] + SumFunctionOnSet(f, T \ {a0})
    BY <2>2, SumEquation, FirstIsIn
  <2>4. CASE x = a0
    BY <2>3, <2>4
  <2>5. CASE x # a0
    <3> HIDE DEF a0
    <3>1. T \ {a0} \in Good /\ x \in T \ {a0} /\ T \ {x} \in Good /\ a0 \in T \ {x}
      BY <1>1, <2>3, <2>5
    <3>2. (T \ {a0}) \ {x} = (T \ {x}) \ {a0}
      OBVIOUS
    <3>3. SumFunctionOnSet(f, T \ {a0}) = f[x] + SumFunctionOnSet(f, (T \ {a0}) \ {x})
      BY <3>1
    <3>4. SumFunctionOnSet(f, T \ {x}) = f[a0] + SumFunctionOnSet(f, (T \ {a0}) \ {x})
      BY <3>1, <3>2
    <3>5. SumFunctionOnSet(f, (T \ {a0}) \ {x}) \in Int
      BY <2>2, FS_Subset, SumType
    <3>6. f[x] \in Int /\ f[a0] \in Int
      BY <2>3
    <3> QED
      BY <2>3, <3>3, <3>4, <3>5, <3>6
  <2> QED
    BY <2>4, <2>5
<1>2. SUBSET S \subseteq Good
  <2> HIDE DEF Good
  <2> QED
    BY <1>1, SubsetInduction
<1> QED
  BY <1>2

\* An element more
LEMMA SumWith ==
  ASSUME NEW f, NEW S, IsFiniteSet(S), NEW a, a \notin S, \A x \in S \cup {a} : f[x] \in Int
  PROVE  SumFunctionOnSet(f, S \cup {a}) = f[a] + SumFunctionOnSet(f, S)
<1>1. IsFiniteSet(S \cup {a}) /\ (S \cup {a}) \ {a} = S
  BY FS_AddElement
<1> QED
  BY <1>1, SumWithout

\* One element changes: the sum changes by as much.
LEMMA SumChangesBy ==
  ASSUME NEW f, NEW g, NEW S, IsFiniteSet(S), NEW a \in S,
         \A x \in S : f[x] \in Int /\ g[x] \in Int,
         \A x \in S : x # a => g[x] = f[x]
  PROVE  SumFunctionOnSet(g, S) = SumFunctionOnSet(f, S) + g[a] - f[a]
<1>1. IsFiniteSet(S \ {a})
  BY FS_Subset
<1>2. SumFunctionOnSet(g, S \ {a}) = SumFunctionOnSet(f, S \ {a})
  BY <1>1, SumExtensional
<1>3. SumFunctionOnSet(f, S \ {a}) \in Int
  BY <1>1, SumType
<1>4. SumFunctionOnSet(f, S) = f[a] + SumFunctionOnSet(f, S \ {a})
  BY SumWithout
<1>5. SumFunctionOnSet(g, S) = g[a] + SumFunctionOnSet(g, S \ {a})
  BY SumWithout
<1> QED
  BY <1>2, <1>3, <1>4, <1>5

\* A constant is counted as often as there are elements.
LEMMA SumOfConstant ==
  ASSUME NEW f, NEW S, IsFiniteSet(S), NEW k \in Int, \A x \in S : f[x] = k
  PROVE  SumFunctionOnSet(f, S) = Cardinality(S) * k
<1> DEFINE Good == {s \in SUBSET S : SumFunctionOnSet(f, s) = Cardinality(s) * k}
<1>1. ASSUME NEW T \in SUBSET S, \A U \in SUBSET T : U # T => U \in Good
      PROVE  T \in Good
  <2>1. IsFiniteSet(T)
    BY FS_Subset
  <2>2. CASE T = {}
    BY <2>2, SumOfNone, FS_EmptySet
  <2>3. CASE T # {}
    <3>1. First(T) \in T /\ T \ {First(T)} \in Good
      BY <1>1, <2>3, FirstIsIn
    <3>2. SumFunctionOnSet(f, T) = k + SumFunctionOnSet(f, T \ {First(T)})
      BY <2>1, <2>3, <3>1, SumEquation
    <3>3. Cardinality(T) \in Nat /\ Cardinality(T \ {First(T)}) = Cardinality(T) - 1
      BY <2>1, <3>1, FS_RemoveElement, FS_CardinalityType
    <3>4. (Cardinality(T) - 1) * k = Cardinality(T) * k - k
      BY <3>3
    <3>5. Cardinality(T) * k \in Int
      BY <3>3
    <3> HIDE DEF Good
    <3> QED
      BY <3>1, <3>2, <3>3, <3>4, <3>5 DEF Good
  <2> QED
    BY <2>2, <2>3
<1>2. SUBSET S \subseteq Good
  <2> HIDE DEF Good
  <2> QED
    BY <1>1, SubsetInduction
<1> QED
  BY <1>2

\* Sums over disjoint sets add up.
LEMMA SumOfUnion ==
  ASSUME NEW f, NEW S, NEW T, IsFiniteSet(S), IsFiniteSet(T), S \cap T = {},
         \A x \in S \cup T : f[x] \in Int
  PROVE  SumFunctionOnSet(f, S \cup T) = SumFunctionOnSet(f, S) + SumFunctionOnSet(f, T)
<1> DEFINE Good == {s \in SUBSET T :
              SumFunctionOnSet(f, S \cup s) = SumFunctionOnSet(f, S) + SumFunctionOnSet(f, s)}
<1>1. ASSUME NEW U \in SUBSET T, \A V \in SUBSET U : V # U => V \in Good
      PROVE  U \in Good
  <2>1. IsFiniteSet(U)
    BY FS_Subset
  <2>2. SumFunctionOnSet(f, S) \in Int
    BY SumType
  <2>3. CASE U = {}
    <3>1. S \cup U = S
      BY <2>3
    <3> QED  BY <2>2, <2>3, <3>1, SumOfNone
  <2>4. CASE U # {}
    <3>1. PICK x \in U : TRUE
      BY <2>4
    <3>2. U \ {x} \in Good
      BY <1>1, <3>1
    <3>3. /\ (S \cup (U \ {x})) \cup {x} = S \cup U /\ x \notin S \cup (U \ {x})
          /\ \A y \in (S \cup (U \ {x})) \cup {x} : f[y] \in Int
      BY <3>1
    <3>4. IsFiniteSet(U \ {x})
      BY <2>1, FS_Subset
    <3>5. IsFiniteSet(S \cup (U \ {x}))
      BY <3>4, FS_Union
    <3>6. SumFunctionOnSet(f, (S \cup (U \ {x})) \cup {x}) = f[x] + SumFunctionOnSet(f, S \cup (U \ {x}))
      BY <3>3, <3>5, SumWith
    <3>7. SumFunctionOnSet(f, U) = f[x] + SumFunctionOnSet(f, U \ {x})
      BY <2>1, <3>1, SumWithout
    <3>8. SumFunctionOnSet(f, U \ {x}) \in Int /\ f[x] \in Int
      BY <3>1, <3>4, SumType
    <3>9. SumFunctionOnSet(f, S \cup (U \ {x})) = SumFunctionOnSet(f, S) + SumFunctionOnSet(f, U \ {x})
      BY <3>2
    <3> DEFINE W == (S \cup (U \ {x})) \cup {x}
    <3>10. W = S \cup U /\ SumFunctionOnSet(f, W) = f[x] + SumFunctionOnSet(f, S \cup (U \ {x}))
      BY <3>3, <3>6
    <3> HIDE DEF W
    <3>11. SumFunctionOnSet(f, S \cup U) = SumFunctionOnSet(f, W)
      BY ONLY <3>10
    <3>12. SumFunctionOnSet(f, S \cup U) = SumFunctionOnSet(f, S) + SumFunctionOnSet(f, U)
      BY <2>2, <3>7, <3>8, <3>9, <3>10, <3>11
    <3> QED  BY <3>12
  <2> QED  BY <2>3, <2>4
<1>2. SUBSET T \subseteq Good
  <2> HIDE DEF Good
  <2> QED  BY <1>1, SubsetInduction
<1> QED  BY <1>2

\* A part of a sum of naturals is no more than the whole.
LEMMA SumOfPart ==
  ASSUME NEW f, NEW S, NEW T \in SUBSET S, IsFiniteSet(S), \A x \in S : f[x] \in Nat
  PROVE  SumFunctionOnSet(f, T) <= SumFunctionOnSet(f, S)
<1>1. IsFiniteSet(T) /\ IsFiniteSet(S \ T)
  BY FS_Subset
<1> DEFINE W == T \cup (S \ T)
<1>2. W = S /\ T \cap (S \ T) = {} /\ \A x \in W : f[x] \in Int
  OBVIOUS
<1>3. SumFunctionOnSet(f, W) = SumFunctionOnSet(f, T) + SumFunctionOnSet(f, S \ T)
  BY <1>1, <1>2, SumOfUnion
<1> HIDE DEF W
<1>4. SumFunctionOnSet(f, T) \in Nat /\ SumFunctionOnSet(f, S \ T) \in Nat
  BY <1>1, SumTypeNat
<1> QED  BY <1>2, <1>3, <1>4

\* What is zero outside a part sums up to the sum of the part.
LEMMA SumWhere ==
  ASSUME NEW f, NEW g, NEW S, NEW T \in SUBSET S, IsFiniteSet(S),
         \A x \in T : f[x] \in Int /\ g[x] = f[x],
         \A x \in S \ T : g[x] = 0
  PROVE  SumFunctionOnSet(g, S) = SumFunctionOnSet(f, T)
<1>1. IsFiniteSet(T) /\ IsFiniteSet(S \ T)
  BY FS_Subset
<1> DEFINE W == T \cup (S \ T)
<1>2. W = S /\ T \cap (S \ T) = {} /\ \A x \in W : g[x] \in Int
  OBVIOUS
<1>3. SumFunctionOnSet(g, W) = SumFunctionOnSet(g, T) + SumFunctionOnSet(g, S \ T)
  BY <1>1, <1>2, SumOfUnion
<1> HIDE DEF W
<1>4. SumFunctionOnSet(g, T) = SumFunctionOnSet(f, T)
  BY <1>1, SumExtensional
<1>5. SumFunctionOnSet(g, S \ T) = 0
  <2>1. 0 \in Int /\ \A x \in S \ T : g[x] = 0
    OBVIOUS
  <2>2. SumFunctionOnSet(g, S \ T) = Cardinality(S \ T) * 0
    BY <1>1, <2>1, SumOfConstant
  <2> QED  BY <1>1, <2>2, FS_CardinalityType
<1>6. SumFunctionOnSet(f, T) \in Int
  BY <1>1, SumType
<1> QED  BY <1>2, <1>3, <1>4, <1>5, <1>6

=============================================================================
