--------------------------- MODULE PaginationProofs ---------------------------
(***************************************************************************)
(* The listings, walked page by page, for any rows, limits and faults:     *)
(* nothing missed and nothing shown twice as long as no row leaves or      *)
(* slips in, and the history in order.                                     *)
(***************************************************************************)
EXTENDS Pagination, SequenceTheorems, FiniteSetTheorems, TLAPS

USE PagesAssumption

-----------------------------------------------------------------------------
(***************************************************************************)
(* The options and the arithmetic of pages.                                *)
(***************************************************************************)
\* Whatever a client sends, a page has a positive size and a positive number.
LEMMA OptionsPositive ==
  ASSUME NEW l \in Int \cup {Absent}, NEW p \in Int \cup {Absent}
  PROVE  Options(l, p).limit \in Nat \ {0} /\ Options(l, p).page \in Nat \ {0}
BY DEF Options

\* Building the options twice, as both repositories do, changes nothing.
LEMMA OptionsStable ==
  ASSUME NEW l \in Nat \ {0}, NEW p \in Nat \ {0}
  PROVE  Options(l, p).limit = l /\ Options(l, p).page = p
BY DEF Options

LEMMA SkipNext ==
  ASSUME NEW l \in Nat \ {0}, NEW p \in Nat \ {0}
  PROVE  /\ Skip(l, p) \in Nat /\ Skip(l, 1) = 0
         /\ Skip(l, p + 1) = Skip(l, p) + l
<1>1. l * (p + 1 - 1) = l * (p - 1) + l
  OBVIOUS
<1>2. l * (p - 1) \in Nat
  OBVIOUS
<1> QED BY <1>1, <1>2 DEF Skip

\* There is a page after page p exactly if p pages do not hold everything.
LEMMA LastPage ==
  ASSUME NEW n \in Nat, NEW l \in Nat \ {0}, NEW p \in Nat \ {0}
  PROVE  p < TotalPages(n, l) <=> Skip(l, p) + l < n
<1> DEFINE q == (n + l - 1) \div l
           r == (n + l - 1) % l
<1>1. q \in Int /\ r \in 0 .. l - 1 /\ n + l - 1 = l * q + r
  OBVIOUS
<1>2. Skip(l, p) + l = l * p
  BY SkipNext DEF Skip
<1>3. ASSUME p < q PROVE l * p < n
  <2>1. l * (p + 1) <= l * q
    <3>1. q - (p + 1) \in Nat
      BY <1>1, <1>3
    <3>2. l * (q - (p + 1)) >= 0
      BY <3>1
    <3> QED BY <1>1, <3>2
  <2> QED BY <1>1, <2>1
<1>4. ASSUME ~(p < q) PROVE ~(l * p < n)
  <2>1. l * q <= l * p
    <3>1. p - q \in Nat
      BY <1>1, <1>4
    <3>2. l * (p - q) >= 0
      BY <3>1
    <3> QED BY <1>1, <3>2
  <2> QED BY <1>1, <2>1
<1> QED BY <1>2, <1>3, <1>4 DEF TotalPages

-----------------------------------------------------------------------------
(***************************************************************************)
(* Sequences of rows.                                                      *)
(***************************************************************************)
LEMMA SeqRows ==
  ASSUME NEW s \in Seq(Rows)
  PROVE  /\ Len(s) \in Nat /\ DOMAIN s = 1 .. Len(s)
         /\ \A i \in 1 .. Len(s) : s[i] \in Rows
         /\ ToSet(s) = {s[i] : i \in 1 .. Len(s)}
BY DEF ToSet

\* s and t agree as far as s goes.
Begins(s, t) == Len(s) <= Len(t) /\ \A i \in 1 .. Len(s) : s[i] = t[i]

LEMMA BeginsPrefix ==
  ASSUME NEW s \in Seq(Rows), NEW t \in Seq(Rows), Begins(s, t) PROVE IsPrefix(s, t)
<1> DEFINE a == SubSeq(s, 1, Len(s))
           b == SubSeq(t, 1, Len(s))
<1>1. /\ a \in Seq(Rows) /\ Len(a) = Len(s)
      /\ \A i \in 1 .. Len(s) : a[i] = s[i]
  BY SubSeqProperties
<1>2. /\ b \in Seq(Rows) /\ Len(b) = Len(s)
      /\ \A i \in 1 .. Len(s) : b[i] = t[i]
  BY SubSeqProperties DEF Begins
<1>3. a = b
  BY <1>1, <1>2, SeqEqual DEF Begins
<1> QED BY <1>3 DEF IsPrefix, Begins

LEMMA BeginsAppend ==
  ASSUME NEW s \in Seq(Rows), NEW t \in Seq(Rows), NEW r \in Rows, Begins(s, t)
  PROVE  Begins(s, Append(t, r))
BY AppendProperties DEF Begins

\* A row that is not yet there is put at the end, or at i; the row at i is taken out.
LEMMA Appended ==
  ASSUME NEW s \in Seq(Rows), NEW r \in Rows
  PROVE  /\ Append(s, r) \in Seq(Rows) /\ Len(Append(s, r)) = Len(s) + 1
         /\ \A j \in 1 .. Len(s) : Append(s, r)[j] = s[j]
         /\ Append(s, r)[Len(s) + 1] = r
         /\ IsInjective(s) /\ r \notin ToSet(s) => IsInjective(Append(s, r))
<1> DEFINE t == Append(s, r)
<1>1. /\ t \in Seq(Rows) /\ Len(t) = Len(s) + 1 /\ t[Len(s) + 1] = r
      /\ \A j \in 1 .. Len(s) : t[j] = s[j]
  BY AppendProperties
<1> HIDE DEF t
<1>2. ASSUME IsInjective(s), r \notin ToSet(s) PROVE IsInjective(t)
  BY <1>1, <1>2, SeqRows DEF IsInjective
<1> QED BY <1>1, <1>2 DEF t

LEMMA Inserted ==
  ASSUME NEW s \in Seq(Rows), NEW i \in 1 .. Len(s), NEW r \in Rows,
         IsInjective(s), r \notin ToSet(s)
  PROVE  /\ InsertAt(s, i, r) \in Seq(Rows) /\ Len(InsertAt(s, i, r)) = Len(s) + 1
         /\ IsInjective(InsertAt(s, i, r))
<1> DEFINE a == SubSeq(s, 1, i - 1)
           b == SubSeq(s, i, Len(s))
           t == (a \o <<r>>) \o b
<1>0. Len(s) \in Nat /\ \A j \in 1 .. Len(s) : s[j] \in Rows
  BY SeqRows
<1>1. a \in Seq(Rows) /\ Len(a) = i - 1 /\ \A j \in 1 .. i - 1 : a[j] = s[j]
  BY <1>0, SubSeqProperties
<1>2. b \in Seq(Rows) /\ Len(b) = Len(s) - i + 1 /\ \A j \in 1 .. Len(s) - i + 1 : b[j] = s[i + j - 1]
  BY <1>0, SubSeqProperties
<1>3. <<r>> \in Seq(Rows) /\ Len(<<r>>) = 1 /\ <<r>>[1] = r
  OBVIOUS
<1> HIDE DEF a, b
<1>4. /\ a \o <<r>> \in Seq(Rows) /\ Len(a \o <<r>>) = i
      /\ \A j \in 1 .. i : (a \o <<r>>)[j] = IF j < i THEN s[j] ELSE r
  BY <1>1, <1>3, ConcatProperties
<1>5. /\ t \in Seq(Rows) /\ Len(t) = Len(s) + 1
      /\ \A j \in 1 .. Len(s) + 1 :
           t[j] = IF j <= i THEN (a \o <<r>>)[j] ELSE b[j - i]
  <2> DEFINE d == a \o <<r>>
  <2> HIDE DEF d
  <2>0. b \in Seq(Rows)
    BY <1>2
  <2>1. d \in Seq(Rows) /\ Len(d) = i
    BY <1>4 DEF d
  <2>2. /\ d \o b \in Seq(Rows) /\ Len(d \o b) = Len(d) + Len(b)
        /\ \A j \in 1 .. Len(d) + Len(b) : (d \o b)[j] = IF j <= Len(d) THEN d[j] ELSE b[j - Len(d)]
    BY <2>0, <2>1, ConcatProperties
  <2>3. Len(d) + Len(b) = Len(s) + 1
    BY <1>0, <1>2, <2>1
  <2>4. t = d \o b
    BY DEF d
  <2> QED BY <2>1, <2>2, <2>3, <2>4 DEF d
<1>6. \A j \in 1 .. Len(s) + 1 :
        t[j] = IF j < i THEN s[j] ELSE IF j = i THEN r ELSE s[j - 1]
  <2>1. ASSUME NEW j \in 1 .. Len(s) + 1, j > i PROVE t[j] = s[j - 1]
    <3>1. j - i \in 1 .. Len(s) - i + 1 /\ i + (j - i) - 1 = j - 1
      BY <1>0, <2>1
    <3>2. b[j - i] = s[i + (j - i) - 1]
      BY <1>2, <3>1
    <3> QED BY <1>5, <2>1, <3>1, <3>2
  <2> QED BY <1>0, <1>4, <1>5, <2>1
<1>7. InsertAt(s, i, r) = t
  BY DEF InsertAt, a, b
<1> HIDE DEF t
<1>8. IsInjective(t)
  <2>1. DOMAIN t = 1 .. Len(s) + 1
    BY <1>5, SeqRows
  <2>2. \A p, q \in 1 .. Len(s) : s[p] = s[q] => p = q
    BY SeqRows DEF IsInjective
  <2>3. \A p \in 1 .. Len(s) : s[p] # r
    BY SeqRows
  <2>4. ASSUME NEW p \in 1 .. Len(s) + 1, NEW q \in 1 .. Len(s) + 1, t[p] = t[q] PROVE p = q
    BY <1>0, <1>6, <2>2, <2>3, <2>4
  <2> QED BY <2>1, <2>4 DEF IsInjective
<1> QED BY <1>5, <1>7, <1>8

LEMMA Removed ==
  ASSUME NEW s \in Seq(Rows), NEW i \in 1 .. Len(s), IsInjective(s)
  PROVE  /\ RemoveAt(s, i) \in Seq(Rows) /\ Len(RemoveAt(s, i)) = Len(s) - 1
         /\ \A j \in 1 .. Len(s) - 1 :
              RemoveAt(s, i)[j] = IF j < i THEN s[j] ELSE s[j + 1]
         /\ IsInjective(RemoveAt(s, i))
<1> DEFINE a == SubSeq(s, 1, i - 1)
           b == SubSeq(s, i + 1, Len(s))
           t == a \o b
<1>0. Len(s) \in Nat /\ \A j \in 1 .. Len(s) : s[j] \in Rows
  BY SeqRows
<1>1. a \in Seq(Rows) /\ Len(a) = i - 1 /\ \A j \in 1 .. i - 1 : a[j] = s[j]
  BY <1>0, SubSeqProperties
<1>2. b \in Seq(Rows) /\ Len(b) = Len(s) - i /\ \A j \in 1 .. Len(s) - i : b[j] = s[i + j]
  BY <1>0, SubSeqProperties
<1> HIDE DEF a, b
<1>3. /\ t \in Seq(Rows) /\ Len(t) = Len(s) - 1
      /\ \A j \in 1 .. Len(s) - 1 : t[j] = IF j <= i - 1 THEN a[j] ELSE b[j - (i - 1)]
  <2>0. a \in Seq(Rows) /\ b \in Seq(Rows)
    BY <1>1, <1>2
  <2>1. /\ t \in Seq(Rows) /\ Len(t) = Len(a) + Len(b)
        /\ \A j \in 1 .. Len(a) + Len(b) : t[j] = IF j <= Len(a) THEN a[j] ELSE b[j - Len(a)]
    BY <2>0, ConcatProperties
  <2>2. Len(a) + Len(b) = Len(s) - 1
    BY <1>0, <1>1, <1>2
  <2> QED BY <1>1, <2>1, <2>2
<1>4. \A j \in 1 .. Len(s) - 1 : t[j] = IF j < i THEN s[j] ELSE s[j + 1]
  <2>1. ASSUME NEW j \in 1 .. Len(s) - 1, j >= i PROVE t[j] = s[j + 1]
    <3>1. j - (i - 1) \in 1 .. Len(s) - i /\ i + (j - (i - 1)) = j + 1
      BY <1>0, <2>1
    <3>2. b[j - (i - 1)] = s[i + (j - (i - 1))]
      BY <1>2, <3>1
    <3> QED BY <1>3, <2>1, <3>1, <3>2
  <2> QED BY <1>0, <1>1, <1>3, <2>1
<1>5. RemoveAt(s, i) = t
  BY DEF RemoveAt, a, b
<1> HIDE DEF t
<1>6. IsInjective(t)
  <2>1. DOMAIN t = 1 .. Len(s) - 1
    BY <1>3, SeqRows
  <2>2. \A p, q \in 1 .. Len(s) : s[p] = s[q] => p = q
    BY SeqRows DEF IsInjective
  <2>3. ASSUME NEW p \in 1 .. Len(s) - 1, NEW q \in 1 .. Len(s) - 1, t[p] = t[q] PROVE p = q
    BY <1>0, <1>4, <2>2, <2>3
  <2> QED BY <2>1, <2>3 DEF IsInjective
<1> QED BY <1>3, <1>4, <1>5, <1>6

\* What one page adds to the rows shown.
LEMMA Joined ==
  ASSUME NEW s \in Seq(Rows), NEW t \in Seq(Rows)
  PROVE  /\ s \o t \in Seq(Rows) /\ Len(s \o t) = Len(s) + Len(t)
         /\ \A i \in 1 .. Len(s) + Len(t) : (s \o t)[i] = IF i <= Len(s) THEN s[i] ELSE t[i - Len(s)]
         /\ ToSet(s \o t) = ToSet(s) \cup ToSet(t)
         /\ IsInjective(s) /\ IsInjective(t) /\ ToSet(s) \cap ToSet(t) = {}
              => IsInjective(s \o t)
<1> DEFINE u == s \o t
<1>0. Len(s) \in Nat /\ Len(t) \in Nat
  BY SeqRows
<1>1. /\ u \in Seq(Rows) /\ Len(u) = Len(s) + Len(t)
      /\ \A i \in 1 .. Len(s) + Len(t) : u[i] = IF i <= Len(s) THEN s[i] ELSE t[i - Len(s)]
  BY ConcatProperties
<1> HIDE DEF u
<1>2. DOMAIN u = 1 .. Len(s) + Len(t)
  BY <1>1, SeqRows
<1>3. ToSet(u) = ToSet(s) \cup ToSet(t)
  <2>1. \A i \in 1 .. Len(s) : i \in 1 .. Len(s) + Len(t) /\ u[i] = s[i]
    BY <1>0, <1>1
  <2>2. \A i \in 1 .. Len(t) : Len(s) + i \in 1 .. Len(s) + Len(t) /\ u[Len(s) + i] = t[i]
    <3>1. ASSUME NEW i \in 1 .. Len(t)
          PROVE  Len(s) + i \in 1 .. Len(s) + Len(t) /\ ~(Len(s) + i <= Len(s)) /\ Len(s) + i - Len(s) = i
      BY <1>0
    <3> QED BY <1>1, <3>1
  <2>3. \A i \in 1 .. Len(s) + Len(t) : i <= Len(s) \/ i - Len(s) \in 1 .. Len(t)
    BY <1>0
  <2>4. \A i \in 1 .. Len(s) + Len(t) : u[i] \in ToSet(s) \cup ToSet(t)
    BY <1>0, <1>1, <2>3, SeqRows
  <2>5. ToSet(u) \subseteq ToSet(s) \cup ToSet(t)
    BY <1>1, <2>4, SeqRows
  <2>6. ToSet(s) \subseteq ToSet(u)
    BY <1>1, <2>1, SeqRows
  <2>7. ToSet(t) \subseteq ToSet(u)
    <3>1. \A i \in 1 .. Len(t) : t[i] \in ToSet(u)
      BY <1>1, <1>2, <2>2 DEF ToSet
    <3> QED BY <3>1, SeqRows
  <2> QED BY <2>5, <2>6, <2>7
<1>4. ASSUME IsInjective(s), IsInjective(t), ToSet(s) \cap ToSet(t) = {} PROVE IsInjective(u)
  <2>1. ASSUME NEW i \in 1 .. Len(s) + Len(t), NEW j \in 1 .. Len(s) + Len(t), u[i] = u[j] PROVE i = j
    <3>1. CASE i <= Len(s) /\ j <= Len(s)
      BY <1>0, <1>1, <1>4, <2>1, <3>1, SeqRows DEF IsInjective
    <3>2. CASE ~(i <= Len(s)) /\ ~(j <= Len(s))
      <4>1. i - Len(s) \in 1 .. Len(t) /\ j - Len(s) \in 1 .. Len(t)
        BY <1>0, <3>2
      <4>2. t[i - Len(s)] = t[j - Len(s)]
        BY <1>1, <2>1, <3>2
      <4>3. i - Len(s) = j - Len(s)
        BY <1>4, <4>1, <4>2, SeqRows DEF IsInjective
      <4> QED BY <1>0, <4>3
    <3>3. ASSUME NEW a \in 1 .. Len(s) + Len(t), NEW b \in 1 .. Len(s) + Len(t),
                 a <= Len(s), ~(b <= Len(s))
          PROVE  u[a] # u[b]
      <4>1. a \in 1 .. Len(s) /\ b - Len(s) \in 1 .. Len(t)
        BY <1>0, <3>3
      <4>2. u[a] \in ToSet(s) /\ u[b] \in ToSet(t)
        BY <1>1, <3>3, <4>1, SeqRows
      <4> QED BY <1>4, <4>2
    <3> QED BY <2>1, <3>1, <3>2, <3>3
  <2> QED BY <1>2, <2>1 DEF IsInjective
<1> QED BY <1>1, <1>3, <1>4 DEF u

-----------------------------------------------------------------------------
(***************************************************************************)
(* Pages.                                                                  *)
(***************************************************************************)
\* The page of users: the rows of s, each once, the greater id first.
LEMMA SortedRows ==
  ASSUME NEW s \in Seq(Rows), IsInjective(s)
  PROVE  /\ ByIdDown(s) \in Seq(Rows) /\ Len(ByIdDown(s)) = Len(s)
         /\ ToSet(ByIdDown(s)) = ToSet(s) /\ IsInjective(ByIdDown(s))
         /\ \A i, j \in 1 .. Len(s) : i < j => ByIdDown(s)[i] > ByIdDown(s)[j]
<1> DEFINE S == ToSet(s)
           n == Len(s)
           U(r) == {q \in S : q >= r}
           f == [r \in S |-> Rank(s, r)]
           b == ByIdDown(s)
<1>1. /\ n \in Nat /\ DOMAIN s = 1 .. n /\ s \in [1 .. n -> S]
      /\ S \subseteq Rows /\ \A r \in S : r \in Int /\ \E i \in 1 .. n : s[i] = r
  <2>1. n \in Nat /\ DOMAIN s = 1 .. n /\ S = {s[i] : i \in 1 .. n} /\ \A i \in 1 .. n : s[i] \in Rows
    BY SeqRows
  <2>2. s \in [1 .. n -> S]
    BY <2>1
  <2>3. S \subseteq Rows
    BY <2>1
  <2> HIDE DEF S
  <2> QED BY <2>1, <2>2, <2>3, PagesAssumption
<1>0. S = ToSet(s) /\ n = Len(s)
  OBVIOUS
<1> HIDE DEF S, n
<1>2. IsFiniteSet(S) /\ Cardinality(S) = n
  <2>1. s \in Bijection(1 .. n, S)
    BY <1>1 DEF Bijection, Injection, Surjection, IsInjective
  <2>2. ExistsBijection(1 .. n, S)
    BY <2>1 DEF ExistsBijection
  <2> QED BY <1>1, <2>2, FS_NatBijection, FS_CountingElements
<1>3. \A r \in S : IsFiniteSet(U(r)) /\ Rank(s, r) = Cardinality(U(r)) /\ Rank(s, r) \in 1 .. n
  <2> TAKE r \in S
  <2>1. IsFiniteSet(U(r)) /\ Cardinality(U(r)) <= n
    BY <1>2, FS_Subset
  <2>2. r \in U(r)
    BY <1>1
  <2>3. Cardinality(U(r)) # 0 /\ Cardinality(U(r)) \in Nat
    BY <2>1, <2>2, FS_EmptySet, FS_CardinalityType
  <2>4. Rank(s, r) = Cardinality(U(r))
    BY <1>0 DEF Rank
  <2> QED BY <1>1, <2>1, <2>3, <2>4
<1>4. \A r, t \in S : r < t => Rank(s, t) < Rank(s, r)
  <2> SUFFICES ASSUME NEW r \in S, NEW t \in S, r < t PROVE Cardinality(U(t)) < Cardinality(U(r))
    BY <1>3
  <2>0. r < t
    OBVIOUS
  <2>1. U(t) \subseteq U(r) /\ r \in U(r) /\ r \notin U(t)
    <3>1. r \in Int /\ t \in Int /\ \A q \in S : q \in Int
      BY <1>1
    <3>2. ASSUME NEW q \in S, q >= t PROVE q >= r
      <4>1. q \in Int
        BY <3>1
      <4> QED BY <2>0, <3>1, <3>2, <4>1
    <3>3. r >= r /\ ~(r >= t)
      BY <2>0, <3>1
    <3> QED BY <3>2, <3>3
  <2>2. Cardinality(U(t)) <= Cardinality(U(r)) /\ Cardinality(U(t)) # Cardinality(U(r))
    BY <1>3, <2>1, FS_Subset
  <2>3. Cardinality(U(t)) \in Nat /\ Cardinality(U(r)) \in Nat
    BY <1>3, FS_CardinalityType
  <2> QED BY <2>2, <2>3
<1> HIDE DEF U
<1>5. \A i \in 1 .. n : \E r \in S : Rank(s, r) = i
  <2>1. \A r, t \in S : Rank(s, r) = Rank(s, t) => r = t
    <3> SUFFICES ASSUME NEW r \in S, NEW t \in S, r # t PROVE Rank(s, r) # Rank(s, t)
      OBVIOUS
    <3>1. r < t \/ t < r
      BY <1>1
    <3>2. Rank(s, r) \in Int /\ Rank(s, t) \in Int
      BY <1>1, <1>3
    <3> QED BY <1>4, <3>1, <3>2
  <2>2. f \in Injection(S, 1 .. n)
    BY <1>3, <2>1 DEF Injection, IsInjective
  <2>3. IsFiniteSet(1 .. n) /\ Cardinality(1 .. n) = n
    BY <1>1, FS_Interval
  <2>4. f \in Surjection(S, 1 .. n)
    BY <1>2, <2>2, <2>3, FS_Injection
  <2> QED BY <2>4 DEF Surjection
<1>6. /\ DOMAIN b = 1 .. n
      /\ \A i \in 1 .. n : b[i] \in S /\ Rank(s, b[i]) = i
  BY <1>0, <1>5 DEF ByIdDown
<1>7. b \in Seq(Rows) /\ Len(b) = n
  <2>1. b \in [1 .. n -> Rows]
    BY <1>0, <1>1, <1>6 DEF ByIdDown
  <2> QED BY <1>1, <2>1
<1>8. IsInjective(b)
  BY <1>6 DEF IsInjective
<1>9. ToSet(b) = S
  <2>1. ToSet(b) \subseteq S
    BY <1>6 DEF ToSet
  <2>2. ASSUME NEW r \in S PROVE r \in ToSet(b)
    <3>1. Rank(s, r) \in 1 .. n /\ b[Rank(s, r)] \in S /\ Rank(s, b[Rank(s, r)]) = Rank(s, r)
      BY <1>3, <1>6
    <3>2. b[Rank(s, r)] = r
      <4> DEFINE t == b[Rank(s, r)]
      <4>1. t \in S /\ Rank(s, t) = Rank(s, r) /\ Rank(s, t) \in Int
        BY <3>1
      <4>2. ~(t < r) /\ ~(r < t)
        BY <1>4, <4>1
      <4>3. t \in Int /\ r \in Int
        BY <1>1, <4>1
      <4> HIDE DEF t
      <4>4. t = r
        BY <4>2, <4>3
      <4> QED BY <4>4 DEF t
    <3> QED BY <1>6, <3>1, <3>2 DEF ToSet
  <2> QED BY <2>1, <2>2
<1>10. ASSUME NEW i \in 1 .. n, NEW j \in 1 .. n, i < j PROVE b[i] > b[j]
  <2>1. b[i] \in S /\ b[j] \in S /\ Rank(s, b[i]) = i /\ Rank(s, b[j]) = j
    BY <1>6
  <2>2. ~(b[i] < b[j]) /\ b[i] # b[j]
    <3>1. i \in Int /\ j \in Int /\ ~(j < i) /\ i # j
      BY <1>10
    <3> QED BY <1>4, <2>1, <3>1
  <2>3. b[i] \in Int /\ b[j] \in Int
    BY <1>1, <2>1
  <2> QED BY <2>2, <2>3
<1> HIDE DEF b
<1> QED BY <1>0, <1>7, <1>8, <1>9, <1>10 DEF b

\* The rows k + 1, k + 2, ... of t, as many as fit.
LEMMA CutRows ==
  ASSUME NEW t \in Seq(Rows), NEW l \in Nat \ {0}, NEW p \in Nat \ {0}
  PROVE  LET k == Skip(l, p)
             c == Cut(t, l, p)
         IN  /\ c \in Seq(Rows)
             /\ k <= Len(t) => Len(c) = IF k + l < Len(t) THEN l ELSE Len(t) - k
             /\ \A i \in 1 .. Len(c) : k + i \in 1 .. Len(t) /\ i <= l /\ c[i] = t[k + i]
             /\ IsInjective(t) => IsInjective(c)
<1> DEFINE k == Skip(l, p)
           e == IF k + l < Len(t) THEN k + l ELSE Len(t)
           c == SubSeq(t, k + 1, e)
<1>1. k \in Nat /\ Len(t) \in Nat
  BY SkipNext, SeqRows
<1> HIDE DEF k
<1>2. e \in Nat /\ e <= Len(t) /\ e <= k + l
  BY <1>1
<1>3. e = IF k + l < Len(t) THEN k + l ELSE Len(t)
  OBVIOUS
<1> HIDE DEF e
<1>4. /\ c \in Seq(Rows) /\ Len(c) = IF k <= e THEN e - k ELSE 0
      /\ \A i \in 1 .. Len(c) : k + i \in 1 .. e /\ c[i] = t[k + i]
  <2>1. \A i \in k + 1 .. e : t[i] \in Rows
    BY <1>1, <1>2, SeqRows
  <2>2. /\ c \in Seq(Rows) /\ Len(c) = IF k + 1 <= e THEN e - (k + 1) + 1 ELSE 0
        /\ \A i \in 1 .. e - (k + 1) + 1 : c[i] = t[k + 1 + i - 1]
    BY <1>1, <1>2, <2>1, SubSeqProperties
  <2>3. Len(c) = IF k <= e THEN e - k ELSE 0
    BY <1>1, <1>2, <2>2
  <2>4. ASSUME NEW i \in 1 .. Len(c) PROVE k + i \in 1 .. e /\ c[i] = t[k + i]
    <3>1. i \in 1 .. e - (k + 1) + 1 /\ k + 1 + i - 1 = k + i /\ k + i \in 1 .. e
      BY <1>1, <1>2, <2>3
    <3> QED BY <2>2, <3>1
  <2> QED BY <2>2, <2>3, <2>4
<1>5. c = Cut(t, l, p)
  BY DEF Cut, k, e
<1> HIDE DEF c
<1>6. Len(c) \in Nat /\ DOMAIN c = 1 .. Len(c)
  BY <1>4, SeqRows
<1>7. ASSUME NEW i \in 1 .. Len(c) PROVE k + i \in 1 .. Len(t) /\ i <= l /\ c[i] = t[k + i]
  <2>1. i \in Int /\ k + i \in 1 .. e /\ c[i] = t[k + i]
    BY <1>4, <1>6
  <2> QED BY <1>1, <1>2, <2>1
<1>8. ASSUME IsInjective(t) PROVE IsInjective(c)
  <2>1. ASSUME NEW i \in 1 .. Len(c), NEW j \in 1 .. Len(c), c[i] = c[j] PROVE i = j
    <3>1. k + i = k + j
      BY <1>7, <1>8, <2>1, SeqRows DEF IsInjective
    <3> QED BY <1>1, <1>6, <3>1
  <2> QED BY <1>6, <2>1 DEF IsInjective
<1>9. k <= Len(t) => Len(c) = IF k + l < Len(t) THEN l ELSE Len(t) - k
  BY <1>1, <1>3, <1>4
<1> QED BY <1>4, <1>5, <1>7, <1>8, <1>9 DEF k

\* What a page shows, of either listing: the rows behind those of the pages
\* before, none twice, and a full page as long as there are enough.
LEMMA PageRows ==
  ASSUME rows \in Seq(Rows), IsInjective(rows), NEW l \in Nat \ {0}, NEW p \in Nat \ {0}
  PROVE  LET k == Skip(l, p)
             c == Page(l, p)
         IN  /\ c \in Seq(Rows) /\ IsInjective(c)
             /\ k <= Len(rows) => Len(c) = IF k + l < Len(rows) THEN l ELSE Len(rows) - k
             /\ \A r \in ToSet(c) :
                  \E i \in 1 .. Len(rows) : r = rows[i] /\ k < i /\ i <= k + l
             /\ \A i \in 1 .. Len(rows) : k < i /\ i <= k + l => rows[i] \in ToSet(c)
             /\ listing = "history" => \A i \in 1 .. Len(c) : k + i \in 1 .. Len(rows) /\ c[i] = rows[k + i]
<1> DEFINE k == Skip(l, p)
           c == Page(l, p)
           d == Cut(rows, l, p)
<1>1. k \in Nat /\ Len(rows) \in Nat
  BY SkipNext, SeqRows
<1>2. /\ d \in Seq(Rows) /\ IsInjective(d)
      /\ k <= Len(rows) => Len(d) = IF k + l < Len(rows) THEN l ELSE Len(rows) - k
      /\ \A i \in 1 .. Len(d) : k + i \in 1 .. Len(rows) /\ i <= l /\ d[i] = rows[k + i]
  BY CutRows
<1>3. /\ c \in Seq(Rows) /\ IsInjective(c) /\ Len(c) = Len(d) /\ ToSet(c) = ToSet(d)
      /\ listing = "history" => c = d
  <2>1. CASE listing = "users"
    <3>1. c = ByIdDown(d)
      BY <2>1 DEF Page
    <3> HIDE DEF c, d
    <3> QED BY <1>2, <2>1, <3>1, SortedRows
  <2>2. CASE listing # "users"
    BY <1>2, <2>2 DEF Page
  <2> QED BY <2>1, <2>2
<1> HIDE DEF c, d, k
<1>4. Len(d) \in Nat /\ ToSet(d) = {d[i] : i \in 1 .. Len(d)}
  BY <1>2, SeqRows
<1>5. ASSUME NEW r \in ToSet(d) PROVE \E i \in 1 .. Len(rows) : r = rows[i] /\ k < i /\ i <= k + l
  <2>1. PICK j \in 1 .. Len(d) : r = d[j]
    BY <1>4
  <2>2. k + j \in 1 .. Len(rows) /\ r = rows[k + j] /\ j <= l /\ j \in Int /\ j >= 1
    BY <1>2, <1>4, <2>1
  <2>3. k < k + j /\ k + j <= k + l
    BY <1>1, <2>2
  <2> QED BY <2>2, <2>3
<1>6. ASSUME NEW i \in 1 .. Len(rows), k < i, i <= k + l PROVE rows[i] \in ToSet(d)
  <2>1. i - k \in 1 .. Len(d) /\ k + (i - k) = i
    BY <1>1, <1>2, <1>6
  <2>2. d[i - k] = rows[k + (i - k)]
    BY <1>2, <2>1
  <2> QED BY <1>4, <2>1, <2>2
<1> QED BY <1>2, <1>3, <1>5, <1>6 DEF c, k

-----------------------------------------------------------------------------
(***************************************************************************)
(* The inductive invariant, for both listings.                             *)
(***************************************************************************)
\* As long as no row slipped in, those shown are among the rows that the pages
\* before have room for, and so never on the page that comes next.
Shown ==
  /\ IsInjective(rows)
  /\ pc = "new" => got = <<>>
  /\ Walking /\ ~joined =>
       \A i \in 1 .. Len(rows) : rows[i] \in ToSet(got) => i <= Skip(limit, page)

\* As long as none left, there are at least as many rows as counted, and as the
\* pages before were full of.
Kept ==
  ~left => /\ Walking => Skip(limit, page) <= Len(rows)
           /\ pc = "find" => total <= Len(rows)

\* As long as neither happened, the rows of the beginning are still the first,
\* and all that the pages before have room for were shown.
Covered ==
  ~left /\ ~joined =>
    /\ Walking => /\ Begins(start, rows)
                  /\ \A i \in 1 .. Len(rows) : i <= Skip(limit, page) => rows[i] \in ToSet(got)
    /\ pc = "find" => Len(start) <= total

\* The history loses no row, and is shown from its first row on.
InOrder ==
  listing = "history" =>
    /\ ~left /\ Begins(got, rows)
    /\ Walking => Len(got) = Skip(limit, page)

Walk == Shown /\ Kept /\ Covered /\ InOrder

IInv == PagesInRange /\ Walk /\ PageAsPromised /\ NothingTwice /\ NothingMissed

LEMMA InitIInv == Init => IInv
<1> SUFFICES ASSUME Init PROVE IInv
  OBVIOUS
<1>1. <<>> \in Seq(Rows) /\ Len(<<>>) = 0 /\ DOMAIN <<>> = {}
  OBVIOUS
<1>2. PagesInRange
  <2>1. rows \in Seq(Rows) /\ shown \in Seq(Rows) /\ got \in Seq(Rows) /\ start \in Seq(Rows)
    BY <1>1 DEF Init
  <2>2. limit \in Nat \ {0} /\ page \in Nat \ {0} /\ total \in Nat
    BY DEF Init
  <2> QED BY <2>1, <2>2 DEF Init, PagesInRange
<1>3. Begins(<<>>, <<>>) /\ IsInjective(<<>>)
  BY <1>1 DEF Begins, IsInjective
<1>4. Walk
  BY <1>3 DEF Init, Walk, Shown, Kept, Covered, InOrder, Walking
<1> QED BY <1>2, <1>3, <1>4 DEF Init, IInv, PageAsPromised, NothingTwice, NothingMissed

\* A row at the end is behind every page before, and was not shown, or it came back.
LEMMA InsertInv ==
  ASSUME IInv, pc # "done", NEW r \in Rows \ ToSet(rows), Insert(r) PROVE IInv'
<1> USE DEF IInv, Walk
<1>1. /\ rows \in Seq(Rows) /\ got \in Seq(Rows) /\ start \in Seq(Rows) /\ Len(rows) \in Nat
      /\ IsInjective(rows)
  BY SeqRows DEF PagesInRange, Shown
<1>2. /\ UNCHANGED <<listing, pc, limit, page, total, shown, answer, got, start, left>>
      /\ ~joined' => ~joined /\ r \notin ToSet(got)
      /\ joined' = (joined \/ r \in ToSet(got))
  BY DEF Insert, request
<1>3. /\ rows' \in Seq(Rows) /\ Len(rows') = Len(rows) + 1 /\ IsInjective(rows')
      /\ \A j \in 1 .. Len(rows) : rows'[j] = rows[j]
      /\ rows'[Len(rows) + 1] = r
  <2>1. rows' = Append(rows, r)
    BY DEF Insert
  <2> QED BY <1>1, <2>1, Appended
<1>4. PagesInRange'
  BY <1>2, <1>3 DEF PagesInRange
<1>5. Shown'
  <2>1. ASSUME Walking, ~joined', NEW i \in 1 .. Len(rows'), rows'[i] \in ToSet(got)
        PROVE  i <= Skip(limit, page)
    <3>1. i # Len(rows) + 1
      BY <1>2, <1>3, <2>1
    <3>2. i \in 1 .. Len(rows) /\ rows[i] \in ToSet(got)
      BY <1>1, <1>3, <2>1, <3>1
    <3> QED BY <1>2, <2>1, <3>2 DEF Shown
  <2> QED BY <1>2, <1>3, <2>1 DEF Shown, Walking
<1>6. Skip(limit, page) \in Nat /\ total \in Nat
  BY SkipNext DEF PagesInRange
<1>7. Kept'
  BY <1>1, <1>2, <1>3, <1>6 DEF Kept, Walking
<1>8. Covered'
  <2> SUFFICES ASSUME ~left, ~joined' PROVE
               /\ Walking => /\ Begins(start, rows')
                             /\ \A i \in 1 .. Len(rows') : i <= Skip(limit, page) => rows'[i] \in ToSet(got)
               /\ pc = "find" => Len(start) <= total
    BY <1>2 DEF Covered, Walking
  <2>1. ASSUME Walking PROVE Begins(start, rows')
    <3>1. Begins(start, rows) /\ rows' = Append(rows, r) /\ r \in Rows
      BY <1>2, <2>1 DEF Covered, Insert
    <3> QED BY <1>1, <3>1, BeginsAppend
  <2>2. ASSUME Walking, NEW i \in 1 .. Len(rows'), i <= Skip(limit, page) PROVE rows'[i] \in ToSet(got)
    <3>1. Skip(limit, page) <= Len(rows)
      BY <2>2 DEF Kept
    <3>2. i \in 1 .. Len(rows)
      BY <1>1, <1>3, <1>6, <2>2, <3>1
    <3> QED BY <1>2, <1>3, <2>2, <3>2 DEF Covered
  <2> QED BY <1>2, <2>1, <2>2 DEF Covered
<1>9. InOrder'
  <2>1. ASSUME listing = "history" PROVE Begins(got, rows')
    <3>1. Begins(got, rows) /\ rows' = Append(rows, r) /\ r \in Rows
      BY <2>1 DEF InOrder, Insert
    <3> QED BY <1>1, <3>1, BeginsAppend
  <2> QED BY <1>2, <2>1 DEF InOrder, Walking
<1> QED BY <1>2, <1>4, <1>5, <1>7, <1>8, <1>9 DEF PageAsPromised, NothingTwice, NothingMissed

\* A row that slips in only makes more of them.
LEMMA EnterInv ==
  ASSUME IInv, pc # "done", NEW r \in Rows \ ToSet(rows), Enter(r) PROVE IInv'
<1> USE DEF IInv, Walk
<1>1. rows \in Seq(Rows) /\ Len(rows) \in Nat /\ IsInjective(rows)
  BY SeqRows DEF PagesInRange, Shown
<1>2. /\ UNCHANGED <<listing, pc, limit, page, total, shown, answer, got, start, left>>
      /\ joined' = (joined \/ Walking) /\ listing = "users"
  BY DEF Enter, request
<1>3. rows' \in Seq(Rows) /\ Len(rows') = Len(rows) + 1 /\ IsInjective(rows')
  <2>1. PICK i \in 1 .. Len(rows) : rows' = InsertAt(rows, i, r)
    BY DEF Enter
  <2> QED BY <1>1, <2>1, Inserted
<1>4. PagesInRange'
  BY <1>2, <1>3 DEF PagesInRange
<1>5. Shown' /\ Covered' /\ InOrder'
  BY <1>2, <1>3 DEF Shown, Covered, InOrder, Walking
<1>6. Skip(limit, page) \in Nat /\ total \in Nat
  BY SkipNext DEF PagesInRange
<1>7. Kept'
  BY <1>1, <1>2, <1>3, <1>6 DEF Kept, Walking
<1> QED BY <1>2, <1>4, <1>5, <1>7 DEF PageAsPromised, NothingTwice, NothingMissed

\* A row that leaves draws the rows shown nearer, never onto the page that comes next.
LEMMA LeaveInv ==
  ASSUME IInv, pc # "done", NEW r \in Rows, Leave(r) PROVE IInv'
<1> USE DEF IInv, Walk
<1>1. rows \in Seq(Rows) /\ Len(rows) \in Nat /\ IsInjective(rows)
  BY SeqRows DEF PagesInRange, Shown
<1>2. /\ UNCHANGED <<listing, pc, limit, page, total, shown, answer, got, start, joined>>
      /\ left' = (left \/ Walking) /\ listing = "users"
  BY DEF Leave, request
<1>3. PICK i \in 1 .. Len(rows) : rows' = RemoveAt(rows, i)
  BY DEF Leave
<1>4. /\ rows' \in Seq(Rows) /\ Len(rows') = Len(rows) - 1 /\ IsInjective(rows')
      /\ \A j \in 1 .. Len(rows) - 1 : rows'[j] = IF j < i THEN rows[j] ELSE rows[j + 1]
  BY <1>1, <1>3, Removed
<1>5. PagesInRange'
  BY <1>2, <1>4 DEF PagesInRange
<1>6. Skip(limit, page) \in Nat
  BY SkipNext DEF PagesInRange
<1>7. Shown'
  <2>1. ASSUME Walking, ~joined, NEW j \in 1 .. Len(rows'), rows'[j] \in ToSet(got)
        PROVE  j <= Skip(limit, page)
    <3>1. j \in 1 .. Len(rows) - 1 /\ j \in 1 .. Len(rows) /\ j + 1 \in 1 .. Len(rows)
      BY <1>1, <1>4, <2>1
    <3>2. rows[j] \in ToSet(got) \/ rows[j + 1] \in ToSet(got)
      BY <1>4, <2>1, <3>1
    <3>3. j <= Skip(limit, page) \/ j + 1 <= Skip(limit, page)
      BY <2>1, <3>1, <3>2 DEF Shown
    <3> QED BY <1>6, <3>1, <3>3
  <2> QED BY <1>2, <1>4, <2>1 DEF Shown, Walking
<1>8. Kept' /\ Covered' /\ InOrder'
  BY <1>2 DEF Kept, Covered, InOrder, Walking
<1> QED BY <1>2, <1>5, <1>7, <1>8 DEF PageAsPromised, NothingTwice, NothingMissed, Walking

\* A page shows none of the rows shown before, and leaves out none in between.
LEMMA FindInv ==
  ASSUME IInv, Find PROVE IInv'
<1> DEFINE c == Page(limit, page)
           k == Skip(limit, page)
           n == Len(rows)
<1> USE DEF IInv, Walk
<1>1. /\ pc = "find" /\ Walking
      /\ rows \in Seq(Rows) /\ got \in Seq(Rows) /\ start \in Seq(Rows) /\ IsInjective(rows)
      /\ limit \in Nat \ {0} /\ page \in Nat \ {0} /\ total \in Nat
  BY DEF Find, Walking, PagesInRange, Shown
<1>2. k \in Nat /\ n \in Nat /\ Len(got) \in Nat /\ Len(start) \in Nat /\ Skip(limit, page + 1) = k + limit
  BY <1>1, SkipNext, SeqRows
<1>3. /\ c \in Seq(Rows) /\ IsInjective(c)
      /\ k <= n => Len(c) = IF k + limit < n THEN limit ELSE n - k
      /\ \A r \in ToSet(c) : \E i \in 1 .. n : r = rows[i] /\ k < i /\ i <= k + limit
      /\ \A i \in 1 .. n : k < i /\ i <= k + limit => rows[i] \in ToSet(c)
      /\ listing = "history" => \A i \in 1 .. Len(c) : k + i \in 1 .. n /\ c[i] = rows[k + i]
  BY <1>1, PageRows
<1>4. /\ shown' = c /\ got' = got \o c /\ answer' = "ok"
      /\ UNCHANGED <<listing, rows, limit, total, start, left, joined>>
      /\ \/ pc' = "idle" /\ page' = page + 1 /\ page < TotalPages(total, limit)
         \/ pc' = "done" /\ page' = page /\ ~(page < TotalPages(total, limit))
  <2>1. CASE page < TotalPages(total, limit)
    BY <2>1 DEF Find
  <2>2. CASE ~(page < TotalPages(total, limit))
    BY <2>2 DEF Find
  <2> QED BY <2>1, <2>2
<1>5. page < TotalPages(total, limit) <=> k + limit < total
  BY <1>1, LastPage
<1> HIDE DEF c, k, n
<1>6. /\ got \o c \in Seq(Rows) /\ Len(got \o c) = Len(got) + Len(c) /\ Len(c) \in Nat
      /\ \A i \in 1 .. Len(got) + Len(c) : (got \o c)[i] = IF i <= Len(got) THEN got[i] ELSE c[i - Len(got)]
      /\ ToSet(got \o c) = ToSet(got) \cup ToSet(c)
  BY <1>1, <1>3, Joined, SeqRows
<1>7. PagesInRange'
  BY <1>1, <1>3, <1>4, <1>6 DEF PagesInRange
<1>8. ~left => k <= n /\ total <= n
  BY <1>1 DEF Kept, k, n
<1>9. Shown'
  <2>1. ASSUME pc' = "idle", ~joined, NEW i \in 1 .. n, rows[i] \in ToSet(got) \cup ToSet(c)
        PROVE  i <= k + limit
    <3>1. CASE rows[i] \in ToSet(got)
      BY <1>1, <1>2, <2>1, <3>1 DEF Shown, k, n
    <3>2. CASE rows[i] \in ToSet(c)
      <4>1. PICK j \in 1 .. n : rows[i] = rows[j] /\ j <= k + limit
        BY <1>3, <3>2
      <4>2. i = j
        BY <1>1, <4>1, SeqRows DEF IsInjective, n
      <4> QED BY <4>1, <4>2
    <3> QED BY <2>1, <3>1, <3>2
  <2> QED BY <1>1, <1>2, <1>4, <1>6, <2>1 DEF Shown, Walking, n
<1>10. Kept'
  <2>1. CASE pc' = "idle"
    <3>1. ~left => k + limit <= n
      BY <1>1, <1>2, <1>4, <1>5, <1>8, <2>1
    <3>2. Skip(limit', page') = k + limit /\ Len(rows') = n
      BY <1>2, <1>4, <2>1 DEF n
    <3> QED BY <1>4, <2>1, <3>1, <3>2 DEF Kept
  <2>2. CASE pc' = "done"
    BY <2>2 DEF Kept, Walking
  <2> QED BY <1>4, <2>1, <2>2
<1>11. Covered'
  <2>1. ASSUME pc' = "idle", ~left, ~joined
        PROVE  /\ Begins(start, rows)
               /\ \A i \in 1 .. n : i <= k + limit => rows[i] \in ToSet(got) \cup ToSet(c)
    <3>1. Begins(start, rows)
      BY <1>1, <2>1 DEF Covered
    <3>2. ASSUME NEW i \in 1 .. n, i <= k + limit, ~(k < i) PROVE rows[i] \in ToSet(got)
      <4>1. i <= k
        BY <1>2, <3>2
      <4> QED BY <1>1, <2>1, <4>1 DEF Covered, k, n
    <3> QED BY <1>3, <3>1, <3>2
  <2> QED BY <1>2, <1>4, <1>6, <2>1 DEF Covered, Walking, n
<1>12. InOrder'
  <2> SUFFICES ASSUME listing = "history"
               PROVE  Begins(got \o c, rows) /\ (pc' = "idle" => Len(got \o c) = k + limit)
    BY <1>2, <1>4 DEF InOrder, Walking
  <2>1. ~left /\ Begins(got, rows) /\ Len(got) = k
    BY <1>1 DEF InOrder, k
  <2>2. Len(c) = IF k + limit < n THEN limit ELSE n - k
    BY <1>3, <1>8, <2>1
  <2>3. ASSUME NEW i \in 1 .. Len(got \o c) PROVE (got \o c)[i] = rows[i]
    <3>1. CASE i <= k
      BY <1>2, <1>6, <2>1, <2>3, <3>1 DEF Begins
    <3>2. CASE ~(i <= k)
      <4>1. i - k \in 1 .. Len(c) /\ k + (i - k) = i
        BY <1>2, <1>6, <2>1, <2>3, <3>2
      <4>2. c[i - k] = rows[k + (i - k)]
        BY <1>3, <4>1
      <4> QED BY <1>6, <2>1, <2>3, <3>2, <4>1, <4>2
    <3> QED BY <3>1, <3>2
  <2>4. Len(got \o c) <= n
    BY <1>1, <1>2, <1>6, <1>8, <2>1, <2>2
  <2>5. pc' = "idle" => Len(c) = limit
    BY <1>1, <1>2, <1>4, <1>5, <1>8, <2>1, <2>2
  <2> QED BY <1>6, <2>1, <2>3, <2>4, <2>5 DEF Begins, n
<1>13. PageAsPromised'
  <2> SUFFICES ASSUME ~left PROVE Len(c) >= (IF total - k < limit THEN total - k ELSE limit)
    <3>1. pc' = "done" \/ (pc' = "idle" /\ page' - 1 = page)
      BY <1>1, <1>4
    <3> QED BY <1>4, <3>1 DEF PageAsPromised, k
  <2> QED BY <1>1, <1>2, <1>3, <1>8
<1>14. NothingTwice'
  <2> SUFFICES ASSUME ~joined PROVE IsInjective(got \o c)
    BY <1>4 DEF NothingTwice
  <2>1. ASSUME NEW r \in ToSet(c) PROVE r \notin ToSet(got)
    <3>1. PICK i \in 1 .. n : r = rows[i] /\ k < i
      BY <1>3
    <3>2. ~(i <= k)
      BY <1>2, <3>1
    <3> QED BY <1>1, <3>1, <3>2 DEF Shown, k, n
  <2>2. IsInjective(got) /\ ToSet(got) \cap ToSet(c) = {}
    BY <2>1 DEF NothingTwice
  <2> QED BY <1>1, <1>3, <2>2, Joined
<1>15. NothingMissed'
  <2> SUFFICES ASSUME pc' = "done", ~left, ~joined PROVE ToSet(start) \subseteq ToSet(got) \cup ToSet(c)
    BY <1>4, <1>6 DEF NothingMissed
  <2>1. Begins(start, rows) /\ Len(start) <= total /\ total <= k + limit
    <3>1. total <= k + limit
      BY <1>1, <1>2, <1>4, <1>5
    <3> QED BY <1>1, <3>1 DEF Covered
  <2>2. ASSUME NEW i \in 1 .. Len(start) PROVE start[i] \in ToSet(got) \cup ToSet(c)
    <3>1. i \in 1 .. n /\ start[i] = rows[i] /\ i <= k + limit
      BY <1>1, <1>2, <2>1 DEF Begins, n
    <3>2. CASE i <= k
      BY <1>1, <3>1, <3>2 DEF Covered, k, n
    <3>3. CASE k < i
      BY <1>3, <3>1, <3>3
    <3> QED BY <1>2, <3>1, <3>2, <3>3
  <2> QED BY <1>1, <2>2, SeqRows
<1> QED BY <1>7, <1>9, <1>10, <1>11, <1>12, <1>13, <1>14, <1>15

LEMMA AskInv == ASSUME IInv, Ask PROVE IInv'
<1> USE DEF IInv, Walk
<1>1. pc = "new" /\ UNCHANGED <<listing, rows, total, shown, got, left, joined>>
  BY DEF Ask
<1>2. CASE pc' = First
  <2>1. PICK l \in Limits, p \in Pages :
          LET o == Options(l, p) IN
          /\ limit' = Options(o.limit, o.page).limit /\ page' = Options(o.limit, o.page).page
    BY <1>2 DEF Ask, First
  <2>2. Options(l, p).limit \in Nat \ {0} /\ Options(l, p).page = 1
    BY DEF Options
  <2>3. limit' \in Nat \ {0} /\ page' = 1
    BY <2>1, <2>2, OptionsStable
  <2>4. start' = rows /\ UNCHANGED answer
    BY <1>2 DEF Ask, First
  <2>5. rows \in Seq(Rows) /\ got = <<>> /\ Len(rows) \in Nat /\ Len(got) = 0 /\ ToSet(got) = {}
    BY <1>1, SeqRows DEF PagesInRange, Shown, ToSet
  <2>6. PagesInRange'
    BY <1>1, <1>2, <2>3, <2>4 DEF PagesInRange, First
  <2>7. Skip(limit', page') = 0
    BY <2>3, SkipNext
  <2>8. Begins(rows, rows) /\ pc' \in {"customer", "count"}
    BY <1>2, <2>5 DEF Begins, First
  <2>9. Shown' /\ Kept'
    BY <1>1, <2>5, <2>7, <2>8 DEF Shown, Kept
  <2>10. Covered' /\ InOrder'
    BY <1>1, <2>4, <2>5, <2>7, <2>8 DEF Covered, InOrder
  <2> QED BY <1>1, <2>4, <2>6, <2>8, <2>9, <2>10 DEF PageAsPromised, NothingTwice, NothingMissed
<1>3. CASE pc' = "done"
  <2>1. answer' \in {"rejected", "error"} /\ UNCHANGED <<limit, page, start>>
    BY <1>3 DEF Ask, First
  <2>2. Shown' /\ Kept' /\ Covered' /\ InOrder'
    BY <1>1, <1>3, <2>1 DEF Shown, Kept, Covered, InOrder, Walking
  <2> QED BY <1>1, <1>3, <2>1, <2>2 DEF PagesInRange, PageAsPromised, NothingTwice, NothingMissed
<1> QED BY <1>2, <1>3 DEF Ask

LEMMA NextInv == IInv /\ [Next]_vars => IInv'
<1> SUFFICES ASSUME IInv, [Next]_vars PROVE IInv'
  OBVIOUS
<1> USE DEF IInv, Walk
<1>1. CASE Ask
  BY <1>1, AskInv
<1>2. CASE AskAgain
  BY <1>2 DEF AskAgain, First, request, PagesInRange, Shown, Kept, Covered, InOrder, Walking,
     PageAsPromised, NothingTwice, NothingMissed
<1>3. CASE FindCustomer
  BY <1>3 DEF FindCustomer, Lookup, PagesInRange, Shown, Kept, Covered, InOrder, Walking,
     PageAsPromised, NothingTwice, NothingMissed
<1>4. CASE FindWallet
  BY <1>4 DEF FindWallet, Lookup, PagesInRange, Shown, Kept, Covered, InOrder, Walking,
     PageAsPromised, NothingTwice, NothingMissed
<1>5. CASE Count
  <2>1. Len(rows) \in Nat /\ Len(start) \in Nat
    BY SeqRows DEF PagesInRange
  <2>2. /\ pc = "count" /\ pc' = "find" /\ total' = Len(rows)
        /\ UNCHANGED <<listing, rows, limit, page, shown, answer, got, start, left, joined>>
    BY <1>5 DEF Count
  <2>3. PagesInRange' /\ Shown' /\ InOrder'
    BY <2>1, <2>2 DEF PagesInRange, Shown, InOrder, Walking
  <2>4. Kept' /\ Covered'
    BY <2>1, <2>2 DEF Kept, Covered, Walking, Begins
  <2> QED BY <2>2, <2>3, <2>4 DEF PageAsPromised, NothingTwice, NothingMissed
<1>6. CASE Find
  BY <1>6, FindInv
<1>7. CASE DbError
  BY <1>7 DEF DbError, PagesInRange, Shown, Kept, Covered, InOrder, Walking,
     PageAsPromised, NothingTwice, NothingMissed
<1>8. CASE pc # "done" /\ Collection
  <2>1. PICK r \in Rows : IF r \in ToSet(rows) THEN Leave(r) ELSE Insert(r) \/ Enter(r)
    BY <1>8 DEF Collection
  <2> QED BY <1>8, <2>1, InsertInv, EnterInv, LeaveInv
<1>9. CASE UNCHANGED vars
  BY <1>9 DEF vars, request, PagesInRange, Shown, Kept, Covered, InOrder, Walking,
     PageAsPromised, NothingTwice, NothingMissed
<1> QED BY <1>1, <1>2, <1>3, <1>4, <1>5, <1>6, <1>7, <1>8, <1>9 DEF Next, Request, Finished

LEMMA Inductive == Spec => []IInv
BY InitIInv, NextInv, PTL DEF Spec

-----------------------------------------------------------------------------
(***************************************************************************)
(* The theorems, which hold for the history and the users alike.           *)
(***************************************************************************)
\* The handlers hold only what the types allow: whatever a client sends, the
\* page it asks for has a positive size and number.
THEOREM PagesTyped == Spec => []PagesInRange
<1>1. IInv => PagesInRange
  BY DEF IInv
<1> QED BY <1>1, Inductive, PTL

\* The pages of the history are the ledger of the wallet from its first entry
\* on, for any limit, any payments meanwhile and any errors and retries
\* (findPaginate under TransactionsRepositoryMongoose.findByWalletId).
THEOREM HistoryOrdered == Spec => []HistoryInOrder
<1>1. IInv => HistoryInOrder
  BY BeginsPrefix DEF IInv, Walk, PagesInRange, InOrder, HistoryInOrder
<1> QED BY <1>1, Inductive, PTL

\* Who pages through a listing to its end has seen every row that was there at
\* the beginning, if none was deleted and none slipped in: the totals never end
\* the walk too early, and rows appended meanwhile hide nothing.
THEOREM PagesComplete == Spec => []NothingMissed
<1>1. IInv => NothingMissed
  BY DEF IInv
<1> QED BY <1>1, Inductive, PTL

\* No row is shown twice, whatever is appended or deleted between two pages, for
\* pages are cut before they are sorted (rawQueryPaginate, findPaginate).
THEOREM PagesOnce == Spec => []NothingTwice
<1>1. IInv => NothingTwice
  BY DEF IInv
<1> QED BY <1>1, Inductive, PTL

\* A page holds at least what its totals promise, for the rows are counted before
\* they are read.
THEOREM PagesFull == Spec => []PageAsPromised
<1>1. IInv => PageAsPromised
  BY DEF IInv
<1> QED BY <1>1, Inductive, PTL
=============================================================================
