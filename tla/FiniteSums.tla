----------------------------- MODULE FiniteSums -----------------------------
(***************************************************************************)
(* Facts about least elements and finite sums that the proofs about the    *)
(* ledgers, the risk of the open positions and the row a query returns     *)
(* share.                                                                   *)
(***************************************************************************)
EXTENDS Integers, FiniteSets, Functions, FiniteSetTheorems, WellFoundedInduction, TLAPS

\* A set of natural numbers that is not empty has a least element: of the
\* intervals from 0 to its elements, one is strictly inside no other.
LEMMA Least ==
    ASSUME NEW T, T \subseteq Nat, T # {}
    PROVE  \E n \in T : \A m \in T : n <= m
<1>1. PICK top \in T : TRUE
  OBVIOUS
<1> DEFINE F == {0..n : n \in {k \in T : k <= top}}
<1>2. IsFiniteSet(0..top)
  BY <1>1, FS_Interval
<1>3. F \subseteq FiniteSubsetsOf(0..top)
  <2>1. F \subseteq SUBSET (0..top)
    BY <1>1
  <2>. QED
    BY <1>2, <2>1, FS_FiniteSubsetsOfFinite
<1>4. F # {}
  BY <1>1
<1>5. \E x \in F : \A y \in F : ~(<<y, x>> \in StrictSubsetOrdering(0..top))
  <2> HIDE DEF F
  <2>. QED
    BY <1>3, <1>4, FS_StrictSubsetOrderingWellFounded, WFMin
<1>6. PICK n \in T : n <= top /\ \A y \in F : ~(<<y, 0..n>> \in StrictSubsetOrdering(0..top))
  BY <1>5
<1>7. ASSUME NEW m \in T PROVE n <= m
  <2>1. CASE m > top
    BY <1>1, <1>6, <2>1
  <2>2. CASE m <= top /\ m < n
    <3>1. 0..m \in F
      BY <2>2
    <3>2. 0..m \subseteq 0..n /\ 0..m # 0..n /\ 0..n \subseteq 0..top
      <4>1. n \in 0..n /\ n \notin 0..m
        BY <2>2
      <4>. QED
        BY <1>1, <1>6, <2>2, <4>1
    <3>. QED
      BY <1>6, <3>1, <3>2 DEF StrictSubsetOrdering
  <2>. QED
    BY <1>1, <2>1, <2>2
<1>. QED
  BY <1>7

\* Induction over the subsets of a finite set, with the set of those that have
\* the property in the place of the property.
LEMMA SubsetInduction ==
    ASSUME NEW D, IsFiniteSet(D), NEW P,
           \A T \in SUBSET D : (\A x \in T : T \ {x} \in P) => T \in P
    PROVE  \A T \in SUBSET D : T \in P
<1> DEFINE Bad == (SUBSET D) \ P
<1> SUFFICES ASSUME Bad # {} PROVE FALSE
  OBVIOUS
<1>1. Bad \subseteq FiniteSubsetsOf(D)
  BY FS_FiniteSubsetsOfFinite
<1>2. \E T \in Bad : \A U \in Bad : ~(<<U, T>> \in StrictSubsetOrdering(D))
  <2> HIDE DEF Bad
  <2>. QED
    BY <1>1, FS_StrictSubsetOrderingWellFounded, WFMin
<1>3. PICK T \in Bad : \A U \in Bad : ~(<<U, T>> \in StrictSubsetOrdering(D))
  BY <1>2
<1>4. ASSUME NEW x \in T PROVE T \ {x} \in P
  <2>1. T \ {x} \in SUBSET D /\ T \ {x} \subseteq T /\ T \ {x} # T
    BY <1>4
  <2>2. <<T \ {x}, T>> \in StrictSubsetOrdering(D)
    BY <2>1 DEF StrictSubsetOrdering
  <2>. QED
    BY <1>3, <2>1, <2>2
<1>. QED
  BY <1>3, <1>4

-----------------------------------------------------------------------------
(* SumFunctionOnSet takes the elements out one by one, in the order of a     *)
(* CHOOSE.  The function it recurs with exists, and is the same for all sets *)
(* it is started with.                                                       *)

Some(T) == CHOOSE x \in T : TRUE

Recursion(g, f, Domain) ==
    g = [T \in Domain |-> IF T = {} THEN 0 ELSE f[Some(T)] + g[T \ {Some(T)}]]

\* The same, equation by equation.
Sums(g, f, S) ==
    /\ g[{}] = 0
    /\ \A T \in SUBSET S : T # {} => g[T] = f[Some(T)] + g[T \ {Some(T)}]

UpTo(S, n) == {T \in SUBSET S : Cardinality(T) <= n}

LEMMA SumUnfolds ==
    ASSUME NEW f, NEW S
    PROVE  SumFunctionOnSet(f, S) = (CHOOSE g : Recursion(g, f, SUBSET S))[S]
  BY DEF SumFunctionOnSet, FoldFunctionOnSet, MapThenFoldSet, Some, Recursion

\* A set that is not empty is one smaller without the element that is taken out.
LEMMA TakenOut ==
    ASSUME NEW S, IsFiniteSet(S), NEW T \in SUBSET S, T # {}
    PROVE  /\ Some(T) \in T /\ T \ {Some(T)} \in SUBSET S
           /\ Cardinality(T) \in Nat /\ Cardinality(T \ {Some(T)}) = Cardinality(T) - 1
<1>1. Some(T) \in T
  BY DEF Some
<1>2. IsFiniteSet(T)
  BY FS_Subset
<1>. QED
  BY <1>1, <1>2, FS_RemoveElement, FS_CardinalityType

LEMMA RecursionExists ==
    ASSUME NEW f, NEW S, IsFiniteSet(S)
    PROVE  \A n \in Nat : \E g : Recursion(g, f, UpTo(S, n))
<1> DEFINE Bad == {n \in Nat : ~ \E g : Recursion(g, f, UpTo(S, n))}
<1> SUFFICES ASSUME Bad # {} PROVE FALSE
  OBVIOUS
<1>1. PICK n \in Bad : \A m \in Bad : n <= m
  BY Least
<1>2. CASE n = 0
  <2> DEFINE h == [T \in UpTo(S, 0) |-> 0]
  <2>1. \A T \in UpTo(S, 0) : T = {}
    BY FS_Subset, FS_EmptySet, FS_CardinalityType DEF UpTo
  <2>2. Recursion(h, f, UpTo(S, 0))
    BY <2>1 DEF Recursion
  <2>. QED
    BY <1>2, <2>2
<1>3. CASE n # 0
  <2> DEFINE k == n - 1
  <2>1. k \in Nat /\ n = k + 1 /\ n \in Nat
    BY <1>1, <1>3
  <2>2. PICK g : Recursion(g, f, UpTo(S, k))
    BY <1>1, <2>1
  <2> HIDE DEF k
  <2> DEFINE body(e, T) == IF T = {} THEN 0 ELSE f[Some(T)] + e[T \ {Some(T)}]
             h == [T \in UpTo(S, n) |-> body(g, T)]
  <2>3. \A T \in UpTo(S, n) : T # {} => T \ {Some(T)} \in UpTo(S, k)
    BY <2>1, TakenOut DEF UpTo
  <2>4. \A T \in UpTo(S, k) : T \in UpTo(S, n)
    BY <2>1, FS_Subset, FS_CardinalityType DEF UpTo
  <2>5. \A T \in UpTo(S, k) : g[T] = body(g, T)
    <3>1. g = [T \in UpTo(S, k) |-> body(g, T)]
      BY <2>2 DEF Recursion
    <3> HIDE DEF body
    <3>. QED
      BY <3>1
  <2>6. \A T \in UpTo(S, k) : h[T] = g[T]
    <3> HIDE DEF body
    <3>. QED
      BY <2>4, <2>5
  <2>7. \A T \in UpTo(S, n) : body(g, T) = body(h, T)
    <3> TAKE T \in UpTo(S, n)
    <3>1. CASE T = {}
      BY <3>1
    <3>2. CASE T # {}
      <4> HIDE DEF h
      <4>. QED
        BY <3>2, <2>3, <2>6
    <3>. QED
      BY <3>1, <3>2
  <2>8. h = [T \in UpTo(S, n) |-> body(h, T)]
    <3> HIDE DEF body
    <3>. QED
      BY <2>7
  <2>9. Recursion(h, f, UpTo(S, n))
    BY <2>8 DEF Recursion
  <2>. QED
    BY <1>1, <2>9
<1>. QED
  BY <1>2, <1>3

\* The recursion over all subsets.
LEMMA SumRecurs ==
    ASSUME NEW f, NEW S, IsFiniteSet(S)
    PROVE  \E g : SumFunctionOnSet(f, S) = g[S] /\ Sums(g, f, S)
<1>1. Cardinality(S) \in Nat
  BY FS_CardinalityType
<1>2. UpTo(S, Cardinality(S)) = SUBSET S
  BY FS_Subset DEF UpTo
<1>3. \E g : Recursion(g, f, SUBSET S)
  <2>1. \E g : Recursion(g, f, UpTo(S, Cardinality(S)))
    BY <1>1, RecursionExists
  <2>. QED
    BY <1>2, <2>1
<1> DEFINE g == CHOOSE g : Recursion(g, f, SUBSET S)
<1>4. Recursion(g, f, SUBSET S)
  BY <1>3
<1>5. SumFunctionOnSet(f, S) = g[S]
  BY SumUnfolds
<1> HIDE DEF g
<1> DEFINE body(T) == IF T = {} THEN 0 ELSE f[Some(T)] + g[T \ {Some(T)}]
<1>6. \A T \in SUBSET S : g[T] = body(T)
  <2>1. g = [T \in SUBSET S |-> body(T)]
    BY <1>4 DEF Recursion
  <2> HIDE DEF body
  <2>. QED
    BY <2>1
<1>7. Sums(g, f, S)
  BY <1>6 DEF Sums
<1>. QED
  BY <1>5, <1>7

\* Started with two sets, it is the same on the subsets of both.
LEMMA RecursionUnique ==
    ASSUME NEW f, NEW D, IsFiniteSet(D), NEW g, NEW h, Sums(g, f, D), Sums(h, f, D)
    PROVE  \A T \in SUBSET D : g[T] = h[T]
<1> DEFINE P == {T \in SUBSET D : g[T] = h[T]}
<1>1. ASSUME NEW T \in SUBSET D, \A x \in T : T \ {x} \in P PROVE T \in P
  <2>1. CASE T = {}
    BY <2>1 DEF Sums
  <2>2. CASE T # {}
    <3> DEFINE x == Some(T)
    <3>1. x \in T
      BY <2>2 DEF Some
    <3>2. g[T \ {x}] = h[T \ {x}]
      BY <1>1, <3>1
    <3>3. g[T] = f[x] + g[T \ {x}] /\ h[T] = f[x] + h[T \ {x}]
      BY <2>2 DEF Sums
    <3>. QED
      BY <3>2, <3>3
  <2>. QED
    BY <2>1, <2>2
<1>2. \A T \in SUBSET D : T \in P
  <2> HIDE DEF P
  <2>. QED
    BY <1>1, SubsetInduction
<1>. QED
  BY <1>2

\* The sum of nothing is zero.
LEMMA SumEmpty ==
    ASSUME NEW f
    PROVE  SumFunctionOnSet(f, {}) = 0
<1>1. IsFiniteSet({})
  BY FS_EmptySet
<1>2. PICK g : SumFunctionOnSet(f, {}) = g[{}] /\ Sums(g, f, {})
  BY <1>1, SumRecurs
<1>. QED
  BY <1>2 DEF Sums

\* One element is taken out, the rest is summed.
LEMMA SumStep ==
    ASSUME NEW f, NEW S, IsFiniteSet(S), S # {}
    PROVE  SumFunctionOnSet(f, S) = f[Some(S)] + SumFunctionOnSet(f, S \ {Some(S)})
<1> DEFINE R == S \ {Some(S)}
<1>1. IsFiniteSet(R) /\ R \in SUBSET S
  BY FS_Subset
<1>2. PICK g : SumFunctionOnSet(f, S) = g[S] /\ Sums(g, f, S)
  BY SumRecurs
<1> HIDE DEF R
<1>3. PICK h : SumFunctionOnSet(f, R) = h[R] /\ Sums(h, f, R)
  BY <1>1, SumRecurs
<1>4. Sums(g, f, R)
  BY <1>1, <1>2 DEF Sums
<1>5. \A T \in SUBSET R : g[T] = h[T]
  BY <1>1, <1>3, <1>4, RecursionUnique
<1>6. g[S] = f[Some(S)] + g[R]
  BY <1>2 DEF Sums, R
<1>. QED
  BY <1>2, <1>3, <1>5, <1>6 DEF R

-----------------------------------------------------------------------------
(* What the proofs use of it: for integers the order does not matter.       *)

\* A sum of integers is an integer.
LEMMA SumIsInt ==
    ASSUME NEW f, NEW D, IsFiniteSet(D), \A x \in D : f[x] \in Int
    PROVE  \A T \in SUBSET D : SumFunctionOnSet(f, T) \in Int
<1> DEFINE P == {T \in SUBSET D : SumFunctionOnSet(f, T) \in Int}
<1>1. ASSUME NEW T \in SUBSET D, \A x \in T : T \ {x} \in P PROVE T \in P
  <2>1. CASE T = {}
    BY <2>1, SumEmpty
  <2>2. CASE T # {}
    <3>1. Some(T) \in T /\ IsFiniteSet(T)
      BY <2>2, FS_Subset DEF Some
    <3>2. SumFunctionOnSet(f, T) = f[Some(T)] + SumFunctionOnSet(f, T \ {Some(T)})
      BY <2>2, <3>1, SumStep
    <3>3. f[Some(T)] \in Int /\ SumFunctionOnSet(f, T \ {Some(T)}) \in Int
      BY <1>1, <3>1
    <3>. QED
      BY <3>2, <3>3
  <2>. QED
    BY <2>1, <2>2
<1>2. \A T \in SUBSET D : T \in P
  <2> HIDE DEF P
  <2>. QED
    BY <1>1, SubsetInduction
<1>. QED
  BY <1>2

\* Any element can be taken out first.
LEMMA SumWithout ==
    ASSUME NEW f, NEW D, IsFiniteSet(D), \A x \in D : f[x] \in Int
    PROVE  \A x \in D : SumFunctionOnSet(f, D) = SumFunctionOnSet(f, D \ {x}) + f[x]
<1> DEFINE Takes(T, x) == SumFunctionOnSet(f, T) = SumFunctionOnSet(f, T \ {x}) + f[x]
           P == {T \in SUBSET D : \A x \in T : Takes(T, x)}
<1>1. ASSUME NEW T \in SUBSET D, \A x \in T : T \ {x} \in P PROVE T \in P
  <2>1. CASE T = {}
    BY <2>1
  <2>2. CASE T # {}
    <3> DEFINE y == Some(T)
               R == T \ {y}
    <3>1. y \in T /\ IsFiniteSet(T)
      BY <2>2, FS_Subset DEF Some
    <3>2. SumFunctionOnSet(f, T) = f[y] + SumFunctionOnSet(f, R)
      BY <2>2, <3>1, SumStep
    <3> HIDE DEF y
    <3>3. f[y] \in Int /\ SumFunctionOnSet(f, R) \in Int
      BY <3>1, SumIsInt
    <3>4. ASSUME NEW x \in T, x # y PROVE Takes(T, x)
      <4>1. x \in R /\ y \in T \ {x} /\ (T \ {x}) \ {y} = R \ {x}
        BY <3>1, <3>4
      <4>2. SumFunctionOnSet(f, R) = SumFunctionOnSet(f, R \ {x}) + f[x]
        BY <1>1, <3>1, <4>1
      <4>3. SumFunctionOnSet(f, T \ {x}) = SumFunctionOnSet(f, R \ {x}) + f[y]
        BY <1>1, <3>4, <4>1
      <4>4. f[x] \in Int /\ SumFunctionOnSet(f, R \ {x}) \in Int
        <5>1. R \ {x} \in SUBSET D
          OBVIOUS
        <5>. QED
          BY <3>4, <5>1, SumIsInt
      <4>. QED
        BY <3>2, <3>3, <4>2, <4>3, <4>4
    <3>5. Takes(T, y)
      BY <3>2, <3>3
    <3>. QED
      BY <3>4, <3>5
  <2>. QED
    BY <2>1, <2>2
<1>2. \A T \in SUBSET D : T \in P
  <2> HIDE DEF P
  <2>. QED
    BY <1>1, SubsetInduction
<1>. QED
  BY <1>2

\* One more element adds its value, one fewer takes it away.
LEMMA SumWith ==
    ASSUME NEW f, NEW S, IsFiniteSet(S), NEW x, \A y \in S \cup {x} : f[y] \in Int, x \notin S
    PROVE  SumFunctionOnSet(f, S \cup {x}) = SumFunctionOnSet(f, S) + f[x]
<1> DEFINE U == S \cup {x}
<1>1. IsFiniteSet(U)
  BY FS_AddElement
<1>2. U \ {x} = S /\ x \in U
  OBVIOUS
<1> HIDE DEF U
<1>3. \A y \in U : f[y] \in Int
  BY DEF U
<1>. QED
  BY <1>1, <1>2, <1>3, SumWithout DEF U

\* Only the values on the set matter.
LEMMA SumSame ==
    ASSUME NEW f, NEW g, NEW D, IsFiniteSet(D), \A x \in D : f[x] = g[x]
    PROVE  SumFunctionOnSet(f, D) = SumFunctionOnSet(g, D)
<1> DEFINE P == {T \in SUBSET D : SumFunctionOnSet(f, T) = SumFunctionOnSet(g, T)}
<1>1. ASSUME NEW T \in SUBSET D, \A x \in T : T \ {x} \in P PROVE T \in P
  <2>1. CASE T = {}
    BY <2>1, SumEmpty
  <2>2. CASE T # {}
    <3>1. Some(T) \in T /\ IsFiniteSet(T)
      BY <2>2, FS_Subset DEF Some
    <3>2. /\ SumFunctionOnSet(f, T) = f[Some(T)] + SumFunctionOnSet(f, T \ {Some(T)})
          /\ SumFunctionOnSet(g, T) = g[Some(T)] + SumFunctionOnSet(g, T \ {Some(T)})
      BY <2>2, <3>1, SumStep
    <3>3. /\ f[Some(T)] = g[Some(T)]
          /\ SumFunctionOnSet(f, T \ {Some(T)}) = SumFunctionOnSet(g, T \ {Some(T)})
      BY <1>1, <3>1
    <3>. QED
      BY <3>2, <3>3
  <2>. QED
    BY <2>1, <2>2
<1>2. \A T \in SUBSET D : T \in P
  <2> HIDE DEF P
  <2>. QED
    BY <1>1, SubsetInduction
<1>. QED
  BY <1>2

\* Where the summands are in proportion, so are the sums.
LEMMA SumInProportion ==
    ASSUME NEW f, NEW g, NEW a \in Nat, NEW b \in Nat, NEW D, IsFiniteSet(D),
           \A x \in D : f[x] \in Int /\ g[x] \in Int /\ f[x] * a <= b * g[x]
    PROVE  SumFunctionOnSet(f, D) * a <= b * SumFunctionOnSet(g, D)
<1> DEFINE P == {T \in SUBSET D : SumFunctionOnSet(f, T) * a <= b * SumFunctionOnSet(g, T)}
<1>1. ASSUME NEW T \in SUBSET D, \A x \in T : T \ {x} \in P PROVE T \in P
  <2>1. CASE T = {}
    BY <2>1, SumEmpty
  <2>2. CASE T # {}
    <3> DEFINE fx == f[Some(T)]
               gx == g[Some(T)]
               fs == SumFunctionOnSet(f, T \ {Some(T)})
               gs == SumFunctionOnSet(g, T \ {Some(T)})
    <3>1. Some(T) \in T /\ IsFiniteSet(T)
      BY <2>2, FS_Subset DEF Some
    <3>2. SumFunctionOnSet(f, T) = fx + fs /\ SumFunctionOnSet(g, T) = gx + gs
      BY <2>2, <3>1, SumStep
    <3>3. fx \in Int /\ gx \in Int /\ fx * a <= b * gx /\ fs * a <= b * gs
      BY <1>1, <3>1
    <3>4. T \ {Some(T)} \in SUBSET D
      OBVIOUS
    <3>5. fs \in Int /\ gs \in Int
      BY <3>4, SumIsInt
    <3> HIDE DEF fx, gx, fs, gs
    <3>6. (fx + fs) * a = fx * a + fs * a /\ b * (gx + gs) = b * gx + b * gs
      BY <3>3, <3>5
    <3>7. (fx + fs) * a <= b * (gx + gs)
      BY <3>3, <3>5, <3>6
    <3>. QED
      BY <3>2, <3>7
  <2>. QED
    BY <2>1, <2>2
<1>2. \A T \in SUBSET D : T \in P
  <2> HIDE DEF P
  <2>. QED
    BY <1>1, SubsetInduction
<1>. QED
  BY <1>2

\* Summand by summand no more, together no more.
LEMMA SumAtMost ==
    ASSUME NEW f, NEW g, NEW D, IsFiniteSet(D),
           \A x \in D : f[x] \in Int /\ g[x] \in Int /\ f[x] <= g[x]
    PROVE  SumFunctionOnSet(f, D) <= SumFunctionOnSet(g, D)
<1>1. \A x \in D : f[x] \in Int /\ g[x] \in Int /\ f[x] * 1 <= 1 * g[x]
  OBVIOUS
<1>2. SumFunctionOnSet(f, D) * 1 <= 1 * SumFunctionOnSet(g, D)
  BY <1>1, SumInProportion
<1>3. SumFunctionOnSet(f, D) \in Int /\ SumFunctionOnSet(g, D) \in Int
  BY <1>1, SumIsInt
<1>. QED
  BY <1>2, <1>3

\* A sum of equal summands.
LEMMA SumOfEqual ==
    ASSUME NEW f, NEW D, IsFiniteSet(D), NEW c \in Int, \A x \in D : f[x] = c
    PROVE  SumFunctionOnSet(f, D) = Cardinality(D) * c
<1> DEFINE P == {T \in SUBSET D : SumFunctionOnSet(f, T) = Cardinality(T) * c}
<1>1. ASSUME NEW T \in SUBSET D, \A x \in T : T \ {x} \in P PROVE T \in P
  <2>1. CASE T = {}
    BY <2>1, SumEmpty, FS_EmptySet
  <2>2. CASE T # {}
    <3>1. Some(T) \in T /\ IsFiniteSet(T)
      BY <2>2, FS_Subset DEF Some
    <3>2. SumFunctionOnSet(f, T) = f[Some(T)] + SumFunctionOnSet(f, T \ {Some(T)})
      BY <2>2, <3>1, SumStep
    <3>3. f[Some(T)] = c /\ SumFunctionOnSet(f, T \ {Some(T)}) = Cardinality(T \ {Some(T)}) * c
      BY <1>1, <3>1
    <3>4. Cardinality(T) \in Nat /\ Cardinality(T \ {Some(T)}) = Cardinality(T) - 1
      BY <2>2, TakenOut
    <3> DEFINE n == Cardinality(T)
    <3> HIDE DEF n
    <3>5. SumFunctionOnSet(f, T) = c + (n - 1) * c /\ n \in Nat
      BY <3>2, <3>3, <3>4 DEF n
    <3>6. c + (n - 1) * c = n * c
      BY <3>5
    <3>. QED
      BY <3>5, <3>6 DEF n
  <2>. QED
    BY <2>1, <2>2
<1>2. \A T \in SUBSET D : T \in P
  <2> HIDE DEF P
  <2>. QED
    BY <1>1, SubsetInduction
<1>. QED
  BY <1>2
=============================================================================
