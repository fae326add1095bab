--------------------------- MODULE OrderingProofs ---------------------------
(***************************************************************************)
(* Facts the other proofs need and the library does not have in a form     *)
(* the provers can use.  Its induction theorems take an operator as a      *)
(* parameter; here induction is stated for a set of numbers, and the least *)
(* member of a set comes from WFMin and the well-foundedness of < .        *)
(***************************************************************************)
EXTENDS Ordering, Integers, Sequences, FiniteSetTheorems, WellFoundedInduction, TLAPS

(***************************************************************************)
(* Induction                                                               *)
(***************************************************************************)
\* A nonempty set of numbers has a least one.
LEMMA LeastNumber ==
    ASSUME NEW T \in SUBSET Nat, T # {}
    PROVE  \E n \in T : \A m \in T : n <= m
<1> DEFINE R == OpToRel(<, Nat)
<1>1. IsWellFoundedOn(R, Nat)
  BY NatLessThanWellFounded
<1>2. \A a, b \in Nat : a < b => <<a, b>> \in R
  BY DEF OpToRel
<1> HIDE DEF R
<1>3. PICK n \in T : \A m \in T : ~ (<<m, n>> \in R)
  BY <1>1, WFMin, Zenon
<1>4. ASSUME NEW m \in T
      PROVE  n <= m
  <2>1. <<m, n>> \notin R
    BY <1>3
  <2>2. n \in Nat /\ m \in Nat
    OBVIOUS
  <2>3. ~(m < n)
    BY <1>2, <2>1, <2>2
  <2> QED
    BY <2>2, <2>3
<1> QED
  BY <1>4

\* Induction, for membership in a set.
LEMMA SetInduction ==
    ASSUME NEW S, 0 \in S, \A n \in Nat : n \in S => n + 1 \in S
    PROVE  \A n \in Nat : n \in S
<1>1. SUFFICES ASSUME Nat \ S # {} PROVE FALSE
  OBVIOUS
<1>2. PICK n \in Nat \ S : \A m \in Nat \ S : n <= m
  BY <1>1, LeastNumber
<1>3. n # 0
  BY <1>2
<1>4. n - 1 \in Nat /\ n - 1 < n
  BY <1>2, <1>3
<1>5. n - 1 \in S
  BY <1>2, <1>4
<1>6. (n - 1) + 1 \in S
  BY <1>4, <1>5
<1> QED
  BY <1>6, <1>2

\* Course-of-values induction, for membership in a set.
LEMMA StrongSetInduction ==
    ASSUME NEW S, \A n \in Nat : (\A m \in 0 .. n - 1 : m \in S) => n \in S
    PROVE  \A n \in Nat : n \in S
<1>1. SUFFICES ASSUME Nat \ S # {} PROVE FALSE
  OBVIOUS
<1>2. PICK n \in Nat \ S : \A m \in Nat \ S : n <= m
  BY <1>1, LeastNumber
<1>3. \A m \in 0 .. n - 1 : m \in S
  BY <1>2
<1> QED
  BY <1>2, <1>3

\* A value of V for every number up to N, each made by g from the one before.
Recursion(f, N, V, base, g) ==
    /\ f \in [0 .. N -> V]
    /\ f[0] = base /\ \A n \in 1 .. N : f[n] = g[<<n, f[n - 1]>>]

LEMMA RecursionExists ==
    ASSUME NEW N \in Nat, NEW V, NEW base \in V, NEW g \in [(1 .. N) \X V -> V]
    PROVE  \E f : Recursion(f, N, V, base, g)
<1> DEFINE Good(k, f) == f[0] = base /\ \A n \in 1 .. k : f[n] = g[<<n, f[n - 1]>>]
           S == {k \in Nat : k <= N => \E f \in [0 .. k -> V] : Good(k, f)}
<1>1. 0 \in S
  <2>1. [n \in 0 .. 0 |-> base] \in [0 .. 0 -> V] /\ Good(0, [n \in 0 .. 0 |-> base])
    OBVIOUS
  <2> QED
    BY <2>1
<1>2. ASSUME NEW k \in Nat, k \in S
      PROVE  k + 1 \in S
  <2> SUFFICES ASSUME k + 1 <= N
               PROVE  \E f \in [0 .. k + 1 -> V] : Good(k + 1, f)
    OBVIOUS
  <2>1. PICK f \in [0 .. k -> V] : Good(k, f)
    BY <1>2
  <2>2. k \in 0 .. k /\ k + 1 \in 1 .. N /\ f[k] \in V
    OBVIOUS
  <2>3. g[<<k + 1, f[k]>>] \in V
    BY <2>2
  <2> DEFINE e == [n \in 0 .. k + 1 |-> IF n = k + 1 THEN g[<<k + 1, f[k]>>] ELSE f[n]]
  <2>4. e \in [0 .. k + 1 -> V]
    BY <2>3
  <2>5. e[0] = base
    BY <2>1
  <2>6. ASSUME NEW n \in 1 .. k + 1
        PROVE  e[n] = g[<<n, e[n - 1]>>]
    <3>1. n - 1 \in 0 .. k /\ (n = k + 1 => n - 1 = k) /\ (n # k + 1 => n \in 1 .. k)
      OBVIOUS
    <3>2. e[n - 1] = f[n - 1]
      BY <3>1
    <3>3. CASE n = k + 1
      <4>1. e[n] = g[<<k + 1, f[k]>>]
        BY <3>3
      <4>2. e[n - 1] = f[k]
        BY <3>1, <3>2, <3>3
      <4> HIDE DEF e
      <4> QED
        BY <3>3, <4>1, <4>2
    <3>4. CASE n # k + 1
      <4>1. f[n] = g[<<n, f[n - 1]>>]
        BY <2>1, <3>1, <3>4
      <4>2. e[n] = f[n]
        BY <3>4
      <4> HIDE DEF e
      <4> QED
        BY <3>2, <4>1, <4>2
    <3> QED
      BY <3>3, <3>4
  <2> QED
    BY <2>4, <2>5, <2>6
<1>3. \A k \in Nat : k \in S
  <2> HIDE DEF S
  <2> QED
    BY <1>1, <1>2, SetInduction
<1>4. \E f \in [0 .. N -> V] : Good(N, f)
  BY <1>3
<1> QED
  BY <1>4 DEF Recursion

\* A value that is in V for the first number, and for each if it is for the one before.
LEMMA StaysIn ==
    ASSUME NEW N \in Nat, NEW V, NEW d, d[0] \in V,
           \A n \in 1 .. N : d[n - 1] \in V => d[n] \in V
    PROVE  \A n \in 0 .. N : d[n] \in V
<1> DEFINE S == {n \in Nat : n <= N => d[n] \in V}
<1>1. 0 \in S
  OBVIOUS
<1>2. ASSUME NEW n \in Nat, n \in S
      PROVE  n + 1 \in S
  <2> SUFFICES ASSUME n + 1 <= N PROVE d[n + 1] \in V
    OBVIOUS
  <2>1. n + 1 \in 1 .. N /\ (n + 1) - 1 = n /\ d[n] \in V
    BY <1>2
  <2>2. d[(n + 1) - 1] \in V
    BY <2>1
  <2> QED
    BY <2>1, <2>2
<1>3. \A n \in Nat : n \in S
  <2> HIDE DEF S
  <2> QED
    BY <1>1, <1>2, SetInduction
<1> QED
  BY <1>3

(***************************************************************************)
(* Ordering                                                                *)
(***************************************************************************)
\* In a strict total order of a finite set, given by the members before each one, the
\* number of members before is a numbering from zero, and grows.
LEMMA RankIsNumbering ==
    ASSUME NEW S, IsFiniteSet(S), NEW before \in [S -> SUBSET S],
           \A x \in S : x \notin before[x],
           \A x, y \in S : y \in before[x] => before[y] \subseteq before[x],
           \A x, y \in S : x = y \/ x \in before[y] \/ y \in before[x]
    PROVE  /\ \A x \in S : Cardinality(before[x]) \in 0 .. Cardinality(S) - 1
           /\ \A x, y \in S : y \in before[x] => Cardinality(before[y]) < Cardinality(before[x])
           /\ \A x, y \in S : Cardinality(before[x]) = Cardinality(before[y]) => x = y
           /\ \A k \in 1 .. Cardinality(S) : \E x \in S : Cardinality(before[x]) = k - 1
<1>1. \A x \in S : IsFiniteSet(before[x]) /\ Cardinality(before[x]) \in Nat
  BY FS_Subset, FS_CardinalityType
<1>2. Cardinality(S) \in Nat
  BY FS_CardinalityType
<1>3. ASSUME NEW x \in S, NEW y \in S, y \in before[x]
      PROVE  Cardinality(before[y]) < Cardinality(before[x])
  <2>1. before[y] \subseteq before[x] /\ before[y] # before[x]
    BY <1>3
  <2>2. /\ Cardinality(before[y]) <= Cardinality(before[x])
        /\ Cardinality(before[x]) = Cardinality(before[y]) => before[x] = before[y]
    BY <2>1, <1>1, FS_Subset
  <2> QED
    BY <2>1, <2>2, <1>1
<1>4. ASSUME NEW x \in S
      PROVE  Cardinality(before[x]) \in 0 .. Cardinality(S) - 1
  <2>1. before[x] \subseteq S /\ before[x] # S
    OBVIOUS
  <2>2. /\ Cardinality(before[x]) <= Cardinality(S)
        /\ Cardinality(S) = Cardinality(before[x]) => S = before[x]
    BY <2>1, FS_Subset
  <2> QED
    BY <2>1, <2>2, <1>1, <1>2
<1>5. ASSUME NEW x \in S, NEW y \in S, Cardinality(before[x]) = Cardinality(before[y])
      PROVE  x = y
  BY <1>3, <1>5, <1>1
<1> DEFINE rank == [x \in S |-> Cardinality(before[x])]
           ranks == 0 .. Cardinality(S) - 1
<1>6. rank \in Injection(S, ranks)
  BY <1>4, <1>5 DEF Injection, IsInjective
<1>7. IsFiniteSet(ranks) /\ Cardinality(ranks) = Cardinality(S)
  BY <1>2, FS_Interval
<1>8. rank \in Surjection(S, ranks)
  <2> HIDE DEF rank, ranks
  <2> QED
    BY <1>6, <1>7, FS_Injection
<1>9. ASSUME NEW k \in 1 .. Cardinality(S)
      PROVE  \E x \in S : Cardinality(before[x]) = k - 1
  <2>1. k - 1 \in ranks
    BY <1>2
  <2> QED
    BY <1>8, <2>1 DEF Surjection
<1> QED
  BY <1>3, <1>4, <1>5, <1>9

\* InOrder lists S, each member once and after those before it.
LEMMA ListedInOrder ==
    ASSUME NEW S, IsFiniteSet(S), NEW before \in [S -> SUBSET S],
           \A x \in S : x \notin before[x],
           \A x, y \in S : y \in before[x] => before[y] \subseteq before[x],
           \A x, y \in S : x = y \/ x \in before[y] \/ y \in before[x]
    PROVE  LET list == InOrder(S, before) IN
           /\ list \in Seq(S) /\ Len(list) = Cardinality(S)
           /\ \A x \in S : \E k \in 1 .. Len(list) : list[k] = x
           /\ \A i, j \in 1 .. Len(list) : i < j => list[i] \in before[list[j]]
<1> DEFINE list == InOrder(S, before)
<1>1. Cardinality(S) \in Nat
  BY FS_CardinalityType
<1>2. /\ \A x \in S : Cardinality(before[x]) \in 0 .. Cardinality(S) - 1
      /\ \A x, y \in S : y \in before[x] => Cardinality(before[y]) < Cardinality(before[x])
      /\ \A x, y \in S : Cardinality(before[x]) = Cardinality(before[y]) => x = y
      /\ \A k \in 1 .. Cardinality(S) : \E x \in S : Cardinality(before[x]) = k - 1
  BY RankIsNumbering
<1>3. \A k \in 1 .. Cardinality(S) : list[k] \in S /\ Cardinality(before[list[k]]) = k - 1
  BY <1>2 DEF InOrder
<1>4. list \in Seq(S) /\ Len(list) = Cardinality(S)
  <2>1. list \in [1 .. Cardinality(S) -> S]
    BY <1>3 DEF InOrder
  <2> QED
    BY <1>1, <2>1
<1> HIDE DEF list
<1>5. ASSUME NEW x \in S
      PROVE  \E k \in 1 .. Len(list) : list[k] = x
  <2>1. PICK n \in 0 .. Cardinality(S) - 1 : n = Cardinality(before[x])
    BY <1>2
  <2>2. n + 1 \in 1 .. Cardinality(S) /\ (n + 1) - 1 = n
    BY <1>1, <2>1
  <2>3. list[n + 1] \in S /\ Cardinality(before[list[n + 1]]) = n
    BY <1>3, <2>2
  <2>4. list[n + 1] = x
    BY <1>2, <2>1, <2>3
  <2> QED
    BY <2>2, <2>4, <1>4
<1>6. ASSUME NEW i \in 1 .. Len(list), NEW j \in 1 .. Len(list), i < j
      PROVE  list[i] \in before[list[j]]
  <2>1. list[i] \in S /\ list[j] \in S
    BY <1>4
  <2>2. /\ Cardinality(before[list[i]]) = i - 1
        /\ Cardinality(before[list[j]]) = j - 1
    BY <1>3, <1>4
  <2>3. list[i] # list[j]
    BY <2>2, <1>1, <1>4, <1>6
  <2>4. ~(list[j] \in before[list[i]])
    BY <2>1, <2>2, <1>1, <1>2, <1>4, <1>6
  <2> QED
    BY <2>1, <2>3, <2>4
<1> QED
  BY <1>4, <1>5, <1>6 DEF list

\* A finite set of numbers listed in ascending or in descending order.
LEMMA AscendingList ==
    ASSUME NEW S \in SUBSET Nat, IsFiniteSet(S)
    PROVE  /\ Ascending(S) \in Seq(S) /\ Len(Ascending(S)) = Cardinality(S)
           /\ \A x \in S : \E k \in 1 .. Len(Ascending(S)) : Ascending(S)[k] = x
           /\ \A i, j \in 1 .. Len(Ascending(S)) : i < j => Ascending(S)[i] < Ascending(S)[j]
<1> DEFINE before == [x \in S |-> {y \in S : y < x}]
<1>1. before \in [S -> SUBSET S]
  OBVIOUS
<1>2. \A x \in S : x \notin before[x]
  OBVIOUS
<1>3. \A x, y \in S : y \in before[x] => before[y] \subseteq before[x]
  <2>1. \A x, y, z \in S : y < x /\ z < y => z < x
    OBVIOUS
  <2> QED
    BY <2>1
<1>4. \A x, y \in S : x = y \/ x \in before[y] \/ y \in before[x]
  <2>1. \A x, y \in S : x = y \/ x < y \/ y < x
    OBVIOUS
  <2> QED
    BY <2>1
<1>5. Ascending(S) = InOrder(S, before)
  BY DEF Ascending
<1>6. \A x \in S : before[x] = {y \in S : y < x}
  OBVIOUS
<1> HIDE DEF before
<1>7. PICK list : list = InOrder(S, before)
  OBVIOUS
<1>8. /\ list \in Seq(S) /\ Len(list) = Cardinality(S)
      /\ \A x \in S : \E k \in 1 .. Len(list) : list[k] = x
      /\ \A i, j \in 1 .. Len(list) : i < j => list[i] \in before[list[j]]
  <2>1. PICK b \in [S -> SUBSET S] : b = before
    BY <1>1
  <2>2. /\ \A x \in S : x \notin b[x]
        /\ \A x, y \in S : y \in b[x] => b[y] \subseteq b[x]
        /\ \A x, y \in S : x = y \/ x \in b[y] \/ y \in b[x]
    BY <1>2, <1>3, <1>4, <2>1
  <2>3. LET l == InOrder(S, b) IN
           /\ l \in Seq(S) /\ Len(l) = Cardinality(S)
           /\ \A x \in S : \E k \in 1 .. Len(l) : l[k] = x
           /\ \A i, j \in 1 .. Len(l) : i < j => l[i] \in b[l[j]]
    BY <2>2, ListedInOrder
  <2> QED
    BY <1>7, <2>1, <2>3
<1>9. \A k \in 1 .. Len(list) : list[k] \in S
  BY <1>8
<1>10. \A i, j \in 1 .. Len(list) : i < j => list[i] < list[j]
  BY <1>6, <1>8, <1>9
<1> QED
  BY <1>5, <1>7, <1>8, <1>10

LEMMA DescendingList ==
    ASSUME NEW S \in SUBSET Nat, IsFiniteSet(S)
    PROVE  Descending(S) \in Seq(S) /\ Len(Descending(S)) = Cardinality(S)
<1> DEFINE before == [x \in S |-> {y \in S : y > x}]
<1>1. before \in [S -> SUBSET S]
  OBVIOUS
<1>2. \A x \in S : x \notin before[x]
  OBVIOUS
<1>3. \A x, y \in S : y \in before[x] => before[y] \subseteq before[x]
  <2>1. \A x, y, z \in S : y > x /\ z > y => z > x
    OBVIOUS
  <2> QED
    BY <2>1
<1>4. \A x, y \in S : x = y \/ x \in before[y] \/ y \in before[x]
  <2>1. \A x, y \in S : x = y \/ x > y \/ y > x
    OBVIOUS
  <2> QED
    BY <2>1
<1>5. Descending(S) = InOrder(S, before)
  BY DEF Descending
<1> HIDE DEF before
<1> QED
  BY <1>1, <1>2, <1>3, <1>4, <1>5, ListedInOrder

\* What a filter leaves: the elements at the given positions, each once, in order.
LEMMA PickedFacts ==
    ASSUME NEW s, List(s), NEW S, S \subseteq DOMAIN s
    PROVE  \E at \in Seq(S) :
             /\ Len(at) = Cardinality(S) /\ Cardinality(S) \in Nat
             /\ \A x \in S : \E k \in 1 .. Len(at) : at[k] = x
             /\ \A i, j \in 1 .. Len(at) : i < j => at[i] < at[j]
             /\ List(Picked(s, S)) /\ Len(Picked(s, S)) = Len(at)
             /\ \A k \in 1 .. Len(at) : Picked(s, S)[k] = s[at[k]]
<1>1. DOMAIN s = 1 .. Len(s) /\ Len(s) \in Nat
  BY DEF List
<1>2. S \in SUBSET Nat /\ IsFiniteSet(S) /\ Cardinality(S) \in Nat
  <2>1. S \subseteq 1 .. Len(s) /\ IsFiniteSet(1 .. Len(s))
    BY <1>1, FS_Interval
  <2> QED
    BY <1>1, <2>1, FS_Subset, FS_CardinalityType
<1>3. PICK at \in Seq(S) : at = Ascending(S)
  BY <1>2, AscendingList
<1>4. /\ Len(at) = Cardinality(S)
      /\ \A x \in S : \E k \in 1 .. Len(at) : at[k] = x
      /\ \A i, j \in 1 .. Len(at) : i < j => at[i] < at[j]
  BY <1>2, <1>3, AscendingList
<1>5. PICK p : p = Picked(s, S)
  OBVIOUS
<1>6. p = [k \in 1 .. Len(at) |-> s[at[k]]]
  BY <1>3, <1>5 DEF Picked
<1>7. List(p) /\ Len(p) = Len(at)
  <2>1. Len(at) \in Nat /\ DOMAIN p = 1 .. Len(at)
    BY <1>6
  <2>2. ToSet(p) = {p[k] : k \in 1 .. Len(at)}
    BY <2>1 DEF ToSet
  <2>3. p \in [1 .. Len(at) -> ToSet(p)]
    BY <1>6, <2>1, <2>2
  <2>4. p \in Seq(ToSet(p))
    BY <2>1, <2>3
  <2> QED
    BY <2>1, <2>4 DEF List
<1>8. \A k \in 1 .. Len(at) : p[k] = s[at[k]]
  BY <1>6
<1> QED
  BY <1>2, <1>4, <1>5, <1>7, <1>8
=============================================================================
