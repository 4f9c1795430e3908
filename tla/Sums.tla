-------------------------------- MODULE Sums --------------------------------
(***************************************************************************)
(* Sums over finite sets.  MapThenSumSet takes the elements in the order   *)
(* in which CHOOSE picks them; the lemmas say that the order does not      *)
(* matter: a sum changes by f[x] when x joins the set.                     *)
(***************************************************************************)
EXTENDS Integers, FiniteSets, FiniteSetsExt, FiniteSetTheorems, WellFoundedInduction,
        TLAPS

Pick(s) == CHOOSE x \in s : TRUE

\* sum maps each subset of S to the sum of f over it.
Sums(sum, f, S) ==
  sum = [s \in SUBSET S |-> IF s = {} THEN 0 ELSE f[Pick(s)] + sum[s \ {Pick(s)}]]

Total(f, S) == MapThenSumSet(LAMBDA x : f[x], S)

\* Induction over the natural numbers, for sets of them.
LEMMA NatSets ==
  ASSUME NEW N \in SUBSET Nat, 0 \in N, \A n \in N : n + 1 \in N
  PROVE  N = Nat
<1> SUFFICES ASSUME Nat \ N # {} PROVE FALSE
  OBVIOUS
<1> DEFINE Less == {p \in Nat \X Nat : p[1] < p[2]}
<1>1. OpToRel(<, Nat) = Less
  BY DEF OpToRel
<1>2. IsWellFoundedOn(Less, Nat)
  BY <1>1, NatLessThanWellFounded
<1>3. PICK n \in Nat \ N : \A m \in Nat \ N : <<m, n>> \notin Less
  BY <1>2, WFMin
<1>4. n # 0 /\ n - 1 \in Nat /\ n - 1 + 1 = n
  OBVIOUS
<1>5. <<n - 1, n>> \in Less
  BY <1>4
<1>6. n - 1 \in N
  BY <1>3, <1>4, <1>5
<1> QED BY <1>4, <1>6

\* A property of sets that each set has if its strict subsets have it.
LEMMA FiniteSubsets ==
  ASSUME NEW S, IsFiniteSet(S), NEW P \in SUBSET SUBSET S,
         \A s \in SUBSET S : (\A t \in SUBSET s : t # s => t \in P) => s \in P
  PROVE  P = SUBSET S
<1> DEFINE N == {n \in Nat : \A s \in SUBSET S : Cardinality(s) <= n => s \in P}
<1>a. \A s \in SUBSET S : IsFiniteSet(s) /\ Cardinality(s) \in Nat
  BY FS_Subset, FS_CardinalityType
<1>b. ASSUME NEW s \in SUBSET S, NEW t \in SUBSET s, t # s
      PROVE  Cardinality(t) < Cardinality(s) /\ t \in SUBSET S
  BY <1>a, <1>b, FS_Subset
<1>1. 0 \in N
  <2>1. ASSUME NEW s \in SUBSET S, Cardinality(s) <= 0 PROVE s \in P
    BY <1>a, <1>b, <2>1
  <2> QED BY <2>1
<1>2. ASSUME NEW n \in N PROVE n + 1 \in N
  <2>1. ASSUME NEW s \in SUBSET S, Cardinality(s) <= n + 1 PROVE s \in P
    BY <1>a, <1>b, <2>1
  <2> QED BY <2>1
<1>3. N = Nat
  <2> HIDE DEF N
  <2>1. N \in SUBSET Nat
    BY DEF N
  <2> QED BY <1>1, <1>2, <2>1, NatSets
<1> QED BY <1>3, <1>a

\* Picking one element after the other defines a sum: for the subsets of up to n
\* elements, whatever n.
LEMMA SumExists ==
  ASSUME NEW S, IsFiniteSet(S), NEW f
  PROVE  \E sum : Sums(sum, f, S)
<1> DEFINE D(n) == {s \in SUBSET S : Cardinality(s) <= n}
           SumsUpTo(sum, n) ==
             sum = [s \in D(n) |-> IF s = {} THEN 0 ELSE f[Pick(s)] + sum[s \ {Pick(s)}]]
           N == {n \in Nat : \E sum : SumsUpTo(sum, n)}
<1>a. \A s \in SUBSET S : IsFiniteSet(s) /\ Cardinality(s) \in Nat
  BY FS_Subset, FS_CardinalityType
<1>b. ASSUME NEW s \in SUBSET S, s # {}
      PROVE  /\ s \ {Pick(s)} \in SUBSET S
             /\ Cardinality(s \ {Pick(s)}) = Cardinality(s) - 1
  <2>1. Pick(s) \in s
    BY <1>b DEF Pick
  <2> QED BY <1>a, <2>1, FS_RemoveElement
<1>1. 0 \in N
  <2>1. \A s \in D(0) : s = {}
    BY <1>a, FS_EmptySet
  <2>2. SumsUpTo([s \in D(0) |-> 0], 0)
    BY <2>1
  <2> QED BY <2>2
<1>2. ASSUME NEW n \in N PROVE n + 1 \in N
  <2>1. PICK sum : SumsUpTo(sum, n)
    BY <1>2
  <2> DEFINE next == [s \in D(n + 1) |->
                       IF s = {} THEN 0 ELSE f[Pick(s)] + sum[s \ {Pick(s)}]]
  <2>2. ASSUME NEW s \in D(n) PROVE next[s] = sum[s]
    <3>1. s \in D(n + 1)
      BY <1>2, <1>a
    <3> QED BY <2>1, <3>1
  <2>3. ASSUME NEW s \in D(n + 1), s # {} PROVE next[s \ {Pick(s)}] = sum[s \ {Pick(s)}]
    <3>1. s \ {Pick(s)} \in D(n)
      BY <1>a, <1>b, <2>3
    <3> QED BY <2>2, <3>1
  <2>4. SumsUpTo(next, n + 1)
    <3> DEFINE step(q, s) == IF s = {} THEN 0 ELSE f[Pick(s)] + q[s \ {Pick(s)}]
    <3>1. \A s \in D(n + 1) : step(sum, s) = step(next, s)
      BY <2>3
    <3> QED BY <3>1
  <2>5. \E q : SumsUpTo(q, n + 1)
    <3> HIDE DEF next, SumsUpTo
    <3> QED BY <2>4
  <2>6. n + 1 \in Nat
    BY <1>2
  <2> QED BY <2>5, <2>6
<1>3. N = Nat
  <2> HIDE DEF N
  <2>1. N \in SUBSET Nat
    BY DEF N
  <2> QED BY <1>1, <1>2, <2>1, NatSets
<1>4. Cardinality(S) \in N
  BY <1>3, FS_CardinalityType
<1>5. D(Cardinality(S)) = SUBSET S
  BY <1>a, FS_Subset
<1> QED BY <1>4, <1>5 DEF Sums

\* What one sum says of a set, every sum of the same values says of it.
LEMMA SumsAgree ==
  ASSUME NEW S, IsFiniteSet(S), NEW T \in SUBSET S, NEW f, NEW g,
         \A x \in T : f[x] = g[x], NEW a, NEW b, Sums(a, f, S), Sums(b, g, T)
  PROVE  a[T] = b[T]
<1> DEFINE P == {s \in SUBSET T : a[s] = b[s]}
<1>1. IsFiniteSet(T)
  BY FS_Subset
<1>2. ASSUME NEW s \in SUBSET T, \A t \in SUBSET s : t # s => t \in P PROVE s \in P
  <2>1. CASE s = {}
    BY <2>1 DEF Sums
  <2>2. CASE s # {}
    <3>1. Pick(s) \in s
      BY <2>2 DEF Pick
    <3>2. s \ {Pick(s)} \in P
      BY <1>2, <3>1
    <3>3. a[s] = f[Pick(s)] + a[s \ {Pick(s)}] /\ b[s] = g[Pick(s)] + b[s \ {Pick(s)}]
      BY <2>2 DEF Sums
    <3> QED BY <3>1, <3>2, <3>3
  <2> QED BY <2>1, <2>2
<1>3. P = SUBSET T
  <2> HIDE DEF P
  <2>1. P \in SUBSET SUBSET T
    BY DEF P
  <2> QED BY <1>1, <1>2, <2>1, FiniteSubsets
<1> QED BY <1>3

LEMMA SumInt ==
  ASSUME NEW S, IsFiniteSet(S), NEW f, \A x \in S : f[x] \in Int, NEW sum, Sums(sum, f, S)
  PROVE  \A s \in SUBSET S : sum[s] \in Int
<1> DEFINE P == {s \in SUBSET S : sum[s] \in Int}
<1>1. ASSUME NEW s \in SUBSET S, \A t \in SUBSET s : t # s => t \in P PROVE s \in P
  <2>1. CASE s = {}
    BY <2>1 DEF Sums
  <2>2. CASE s # {}
    <3>1. Pick(s) \in s
      BY <2>2 DEF Pick
    <3>2. s \ {Pick(s)} \in P
      BY <1>1, <3>1
    <3>3. sum[s] = f[Pick(s)] + sum[s \ {Pick(s)}]
      BY <2>2 DEF Sums
    <3> QED BY <3>1, <3>2, <3>3
  <2> QED BY <2>1, <2>2
<1>2. P = SUBSET S
  <2> HIDE DEF P
  <2>1. P \in SUBSET SUBSET S
    BY DEF P
  <2> QED BY <1>1, <2>1, FiniteSubsets
<1> QED BY <1>2

\* Any element may be picked first.
LEMMA AnyOrder ==
  ASSUME NEW S, IsFiniteSet(S), NEW f, \A x \in S : f[x] \in Int, NEW sum, Sums(sum, f, S)
  PROVE  \A s \in SUBSET S : \A x \in s : sum[s] = f[x] + sum[s \ {x}]
<1> DEFINE P == {s \in SUBSET S : \A x \in s : sum[s] = f[x] + sum[s \ {x}]}
<1>a. \A s \in SUBSET S : s # {} => sum[s] = f[Pick(s)] + sum[s \ {Pick(s)}]
  BY DEF Sums
<1>1. ASSUME NEW s \in SUBSET S, \A t \in SUBSET s : t # s => t \in P PROVE s \in P
  <2>1. ASSUME NEW x \in s, x # Pick(s) PROVE sum[s] = f[x] + sum[s \ {x}]
    <3> DEFINE c == Pick(s)
    <3>1. c \in s
      BY DEF Pick
    <3>2. s \ {c} \in P /\ s \ {x} \in P
      BY <1>1, <3>1
    <3>3. (s \ {c}) \ {x} = (s \ {x}) \ {c}
      OBVIOUS
    <3>4. sum[s \ {c}] = f[x] + sum[(s \ {c}) \ {x}]
      BY <2>1, <3>2
    <3>5. sum[s \ {x}] = f[c] + sum[(s \ {x}) \ {c}]
      BY <2>1, <3>1, <3>2
    <3>6. sum[s] = f[c] + sum[s \ {c}]
      BY <1>a, <3>1
    <3>7. f[c] \in Int /\ f[x] \in Int /\ sum[(s \ {x}) \ {c}] \in Int
      BY <3>1, SumInt
    <3>8. \A i, j, k \in Int : i + (j + k) = j + (i + k)
      OBVIOUS
    <3> HIDE DEF c
    <3>9. sum[s] = f[c] + (f[x] + sum[(s \ {x}) \ {c}])
      BY <3>3, <3>4, <3>6, Zenon
    <3>10. f[c] + (f[x] + sum[(s \ {x}) \ {c}]) = f[x] + (f[c] + sum[(s \ {x}) \ {c}])
      BY <3>7, <3>8
    <3> QED BY <3>5, <3>9, <3>10, Zenon
  <2> QED BY <1>a, <2>1
<1>2. P = SUBSET S
  <2> HIDE DEF P
  <2>1. P \in SUBSET SUBSET S
    BY DEF P
  <2> QED BY <1>1, <2>1, FiniteSubsets
<1> QED BY <1>2

-----------------------------------------------------------------------------
(***************************************************************************)
(* What the proofs about Payments use.                                     *)
(***************************************************************************)
LEMMA TotalDef ==
  ASSUME NEW f, NEW S, IsFiniteSet(S)
  PROVE  \E sum : Sums(sum, f, S) /\ Total(f, S) = sum[S]
<1>1. Total(f, S) = (CHOOSE sum : Sums(sum, f, S))[S]
  BY DEF Total, MapThenSumSet, MapThenFoldSet, Sums, Pick
<1> QED BY <1>1, SumExists

LEMMA TotalInt ==
  ASSUME NEW f, NEW S, IsFiniteSet(S), \A x \in S : f[x] \in Int
  PROVE  Total(f, S) \in Int
BY TotalDef, SumInt

\* The sum depends on the values in the set alone.
LEMMA TotalSame ==
  ASSUME NEW f, NEW g, NEW S, IsFiniteSet(S), \A x \in S : f[x] = g[x]
  PROVE  Total(f, S) = Total(g, S)
BY TotalDef, SumsAgree

LEMMA TotalEmpty == ASSUME NEW f PROVE Total(f, {}) = 0
<1>1. PICK sum : Sums(sum, f, {}) /\ Total(f, {}) = sum[{}]
  BY TotalDef, FS_EmptySet
<1> QED BY <1>1 DEF Sums

LEMMA TotalAdd ==
  ASSUME NEW f, NEW S, IsFiniteSet(S), NEW x, x \notin S, \A y \in S \cup {x} : f[y] \in Int
  PROVE  Total(f, S \cup {x}) = Total(f, S) + f[x] /\ Total(f, S) \in Int
<1> DEFINE T == S \cup {x}
<1>1. IsFiniteSet(T) /\ T \ {x} = S /\ S \in SUBSET T
  BY FS_AddElement
<1>2. PICK sum : Sums(sum, f, T) /\ Total(f, T) = sum[T]
  BY <1>1, TotalDef
<1>3. PICK part : Sums(part, f, S) /\ Total(f, S) = part[S]
  BY TotalDef
<1>4. sum[S] = part[S]
  BY <1>1, <1>2, <1>3, SumsAgree
<1>5. sum[T] = f[x] + sum[S]
  BY <1>1, <1>2, AnyOrder
<1> QED BY <1>2, <1>3, <1>4, <1>5, TotalInt

\* The same when the values are computed anew: x joins S, or leaves it.
LEMMA TotalJoin ==
  ASSUME NEW f, NEW g, NEW S, IsFiniteSet(S), NEW x, x \notin S,
         \A y \in S : g[y] = f[y], \A y \in S : f[y] \in Int, g[x] \in Int
  PROVE  Total(g, S \cup {x}) = Total(f, S) + g[x] /\ Total(f, S) \in Int
<1>1. \A y \in S \cup {x} : g[y] \in Int
  OBVIOUS
<1>2. Total(g, S \cup {x}) = Total(g, S) + g[x] /\ Total(g, S) \in Int
  BY <1>1, TotalAdd
<1>3. Total(f, S) = Total(g, S)
  BY TotalSame
<1> QED BY <1>2, <1>3

LEMMA TotalLeave ==
  ASSUME NEW f, NEW g, NEW S, IsFiniteSet(S), NEW x \in S,
         \A y \in S \ {x} : g[y] = f[y], \A y \in S : f[y] \in Int
  PROVE  /\ Total(g, S \ {x}) = Total(f, S) - f[x]
         /\ Total(f, S) \in Int
<1> DEFINE R == S \ {x}
<1>1. IsFiniteSet(R) /\ x \notin R /\ R \cup {x} = S
  BY FS_RemoveElement
<1>2. Total(f, S) = Total(f, R) + f[x] /\ Total(f, R) \in Int
  BY <1>1, TotalAdd
<1>3. Total(g, R) = Total(f, R)
  BY <1>1, TotalSame
<1> QED BY <1>2, <1>3
=============================================================================
