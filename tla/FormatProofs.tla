---------------------------- MODULE FormatProofs ----------------------------
(***************************************************************************)
(* Proofs about the format's operators, whoever calls them: the chunk      *)
(* index for every length and every chunk size (merging the chaining       *)
(* values of the chunks gives the BLAKE3 hash of the whole, and an index   *)
(* that reduces to a hash has that content's chunks and no other), what    *)
(* the layout rules say of a table, what Parse vouches for, what the       *)
(* writer lays down and where, what the signature fixes, and that          *)
(* compressing, sealing and cutting are undone by the reader.              *)
(***************************************************************************)
EXTENDS Format, OrderingProofs, SequenceTheorems

(***************************************************************************)
(* Powers of two                                                           *)
(***************************************************************************)
Doubling(f, n) ==
    /\ f \in [0 .. n -> Nat] /\ f[0] = 1
    /\ \A i \in 1 .. n : f[i] = 2 * f[i - 1]

LEMMA DoublingExists ==
    ASSUME NEW n \in Nat
    PROVE  \E f : Doubling(f, n)
<1> DEFINE g == [x \in (1 .. n) \X Nat |-> 2 * x[2]]
<1>1. g \in [(1 .. n) \X Nat -> Nat] /\ \A i \in 1 .. n, m \in Nat : g[<<i, m>>] = 2 * m
  OBVIOUS
<1> HIDE DEF g
<1>2. PICK f : Recursion(f, n, Nat, 1, g)
  BY <1>1, RecursionExists
<1>3. ASSUME NEW i \in 1 .. n
      PROVE  f[i] = 2 * f[i - 1]
  <2>1. i - 1 \in 0 .. n
    OBVIOUS
  <2> QED
    BY <1>1, <1>2, <2>1 DEF Recursion
<1> QED
  BY <1>2, <1>3 DEF Doubling, Recursion

LEMMA DoublingIsUnique ==
    ASSUME NEW n \in Nat, NEW m \in Nat, m <= n, NEW f, Doubling(f, n), NEW g, Doubling(g, m)
    PROVE  \A i \in 0 .. m : f[i] = g[i]
<1> DEFINE S == {i \in Nat : i <= m => f[i] = g[i]}
<1>1. 0 \in S
  BY DEF Doubling
<1>2. ASSUME NEW i \in Nat, i \in S
      PROVE  i + 1 \in S
  <2>1. ASSUME i + 1 <= m
        PROVE  f[i + 1] = g[i + 1]
    <3>1. i + 1 \in 1 .. n /\ i + 1 \in 1 .. m /\ (i + 1) - 1 = i /\ i <= m
      BY <2>1
    <3> QED
      BY <1>2, <3>1 DEF Doubling
  <2> QED
    BY <2>1
<1>3. \A i \in Nat : i \in S
  <2> HIDE DEF S
  <2> QED
    BY <1>1, <1>2, SetInduction
<1> QED
  BY <1>3

LEMMA PowerOfTwoFacts ==
    /\ \A k \in Nat : PowerOfTwo[k] \in Nat \ {0}
    /\ PowerOfTwo[0] = 1
    /\ \A k \in Nat : PowerOfTwo[k + 1] = 2 * PowerOfTwo[k]
<1> DEFINE choice(n) == CHOOSE f : Doubling(f, n)
           e == [n \in Nat |-> choice(n)[n]]
<1>1. \A n \in Nat : Doubling(choice(n), n)
  BY DoublingExists
<1>2. e[0] = 1
  BY <1>1 DEF Doubling
<1>3. ASSUME NEW n \in Nat, n # 0
      PROVE  e[n] = 2 * e[n - 1]
  <2> HIDE DEF choice
  <2>1. n - 1 \in Nat /\ n - 1 <= n /\ n \in 1 .. n /\ n - 1 \in 0 .. n - 1
    BY <1>3
  <2>2. choice(n)[n] = 2 * choice(n)[n - 1]
    BY <1>1, <2>1 DEF Doubling
  <2>3. choice(n)[n - 1] = choice(n - 1)[n - 1]
    BY <1>1, <2>1, DoublingIsUnique
  <2> QED
    BY <2>1, <2>2, <2>3
<1> HIDE DEF e
<1>4. e = [k \in Nat |-> IF k = 0 THEN 1 ELSE 2 * e[k - 1]]
  <2>1. e = [n \in Nat |-> e[n]]
    BY DEF e
  <2> QED
    BY <1>2, <1>3, <2>1
<1>5. PowerOfTwo = [k \in Nat |-> IF k = 0 THEN 1 ELSE 2 * PowerOfTwo[k - 1]]
  BY <1>4 DEF PowerOfTwo
<1>6. PowerOfTwo[0] = 1
  BY <1>5
<1>7. ASSUME NEW k \in Nat
      PROVE  PowerOfTwo[k + 1] = 2 * PowerOfTwo[k]
  <2>1. k + 1 \in Nat /\ k + 1 # 0 /\ (k + 1) - 1 = k
    OBVIOUS
  <2> QED
    BY <1>5, <2>1
<1>8. \A k \in Nat : PowerOfTwo[k] \in Nat \ {0}
  <2> DEFINE S == {k \in Nat : PowerOfTwo[k] \in Nat \ {0}}
  <2>1. 0 \in S
    BY <1>6
  <2>2. \A k \in Nat : k \in S => k + 1 \in S
    BY <1>7
  <2>3. \A k \in Nat : k \in S
    <3> HIDE DEF S
    <3> QED
      BY <2>1, <2>2, SetInduction
  <2> QED
    BY <2>3
<1> QED
  BY <1>6, <1>7, <1>8

LEMMA PowersGrow ==
    /\ \A k \in Nat : k < PowerOfTwo[k]
    /\ \A i, d \in Nat : 2 * PowerOfTwo[i] <= PowerOfTwo[i + d + 1]
<1>1. \A k \in Nat : k < PowerOfTwo[k]
  <2> DEFINE S == {k \in Nat : k < PowerOfTwo[k]}
  <2>1. 0 \in S
    BY PowerOfTwoFacts
  <2>2. \A k \in Nat : k \in S => k + 1 \in S
    BY PowerOfTwoFacts
  <2>3. \A k \in Nat : k \in S
    <3> HIDE DEF S
    <3> QED
      BY <2>1, <2>2, SetInduction
  <2> QED
    BY <2>3
<1>2. ASSUME NEW i \in Nat
      PROVE  \A d \in Nat : 2 * PowerOfTwo[i] <= PowerOfTwo[i + d + 1]
  <2> DEFINE S == {d \in Nat : 2 * PowerOfTwo[i] <= PowerOfTwo[i + d + 1]}
  <2>1. 0 \in S
    BY PowerOfTwoFacts
  <2>2. ASSUME NEW d \in Nat, d \in S
        PROVE  d + 1 \in S
    <3>1. i + d + 1 \in Nat /\ i + (d + 1) + 1 = (i + d + 1) + 1
      OBVIOUS
    <3>2. PowerOfTwo[i + (d + 1) + 1] = 2 * PowerOfTwo[i + d + 1]
      BY <3>1, PowerOfTwoFacts
    <3>3. PowerOfTwo[i + d + 1] \in Nat /\ PowerOfTwo[i] \in Nat
      BY <3>1, PowerOfTwoFacts
    <3> QED
      BY <2>2, <3>2, <3>3
  <2>3. \A d \in Nat : d \in S
    <3> HIDE DEF S
    <3> QED
      BY <2>1, <2>2, SetInduction
  <2> QED
    BY <2>3
<1> QED
  BY <1>1, <1>2

\* The smaller of two powers divides the larger, and the quotient is one too.
LEMMA PowersDivide ==
    ASSUME NEW i \in Nat, NEW d \in Nat
    PROVE  PowerOfTwo[i + d] = PowerOfTwo[i] * PowerOfTwo[d]
<1> DEFINE S == {x \in Nat : PowerOfTwo[i + x] = PowerOfTwo[i] * PowerOfTwo[x]}
<1>1. 0 \in S
  BY PowerOfTwoFacts
<1>2. ASSUME NEW x \in Nat, x \in S
      PROVE  x + 1 \in S
  <2>1. i + (x + 1) = (i + x) + 1 /\ i + x \in Nat
    OBVIOUS
  <2>2. PowerOfTwo[i + (x + 1)] = 2 * PowerOfTwo[i + x] /\ PowerOfTwo[x + 1] = 2 * PowerOfTwo[x]
    BY <2>1, PowerOfTwoFacts
  <2>3. \A a, b \in Nat : 2 * (a * b) = a * (2 * b)
    OBVIOUS
  <2>4. PowerOfTwo[i] \in Nat /\ PowerOfTwo[x] \in Nat
    BY PowerOfTwoFacts
  <2> QED
    BY <1>2, <2>2, <2>3, <2>4
<1>3. \A x \in Nat : x \in S
  <2> HIDE DEF S
  <2> QED
    BY <1>1, <1>2, SetInduction
<1> QED
  BY <1>3

(***************************************************************************)
(* The split                                                               *)
(***************************************************************************)
\* Where BLAKE3 parts n subtrees.
Splits(n, p) == p \in 1 .. n - 1 /\ n <= 2 * p /\ \E k \in Nat : p = PowerOfTwo[k]

LEMMA OneSplit ==
    ASSUME NEW n \in Nat, NEW p, Splits(n, p), NEW q, Splits(n, q)
    PROVE  p = q
<1>1. ASSUME NEW i \in Nat, NEW j \in Nat, i < j,
             PowerOfTwo[j] < n, n <= 2 * PowerOfTwo[i]
      PROVE  FALSE
  <2>1. j - i - 1 \in Nat /\ i + (j - i - 1) + 1 = j
    BY <1>1
  <2>2. 2 * PowerOfTwo[i] <= PowerOfTwo[j]
    BY <2>1, PowersGrow
  <2>3. PowerOfTwo[i] \in Nat /\ PowerOfTwo[j] \in Nat
    BY PowerOfTwoFacts
  <2> QED
    BY <1>1, <2>2, <2>3
<1>2. PICK i \in Nat : p = PowerOfTwo[i]
  BY DEF Splits
<1>3. PICK j \in Nat : q = PowerOfTwo[j]
  BY DEF Splits
<1>4. p < n /\ q < n /\ n <= 2 * p /\ n <= 2 * q
  BY DEF Splits
<1>5. ~(i < j) /\ ~(j < i)
  BY <1>1, <1>2, <1>3, <1>4
<1>6. i = j
  BY <1>5
<1> QED
  BY <1>2, <1>3, <1>6

\* The split the code computes from the highest bit of n - 1 is BLAKE3's: the largest power
\* of two that leaves something on the right (chunk.rs, split_canonical).
THEOREM SplitsAgree ==
    ASSUME NEW n \in Nat, n >= 2
    PROVE  Splits(n, BlakeSplit(n)) /\ SplitCanonical(n) = BlakeSplit(n)
<1> DEFINE T == {k \in Nat : n <= PowerOfTwo[k + 1]}
<1>1. n \in T
  <2>1. n < PowerOfTwo[n] /\ PowerOfTwo[n + 1] = 2 * PowerOfTwo[n] /\ PowerOfTwo[n] \in Nat
    BY PowersGrow, PowerOfTwoFacts
  <2> QED
    BY <2>1
<1>2. PICK k \in T : \A m \in T : k <= m
  <2>1. T \in SUBSET Nat /\ T # {}
    BY <1>1
  <2> HIDE DEF T
  <2> QED
    BY <2>1, LeastNumber
<1>3. k \in Nat /\ k \in 0 .. n /\ PowerOfTwo[k] \in Nat \ {0} /\ PowerOfTwo[k + 1] = 2 * PowerOfTwo[k]
      /\ n <= 2 * PowerOfTwo[k]
  <2>1. k \in Nat /\ k <= n
    BY <1>1, <1>2
  <2> QED
    BY <1>2, <2>1, PowerOfTwoFacts
<1>4. PowerOfTwo[k] < n
  <2>1. CASE k = 0
    BY <2>1, PowerOfTwoFacts
  <2>2. CASE k # 0
    <3>1. k - 1 \in Nat /\ (k - 1) + 1 = k
      BY <1>3, <2>2
    <3>2. ~(k <= k - 1)
      BY <1>3
    <3>3. k - 1 \notin T
      BY <1>2, <3>2
    <3> QED
      BY <1>3, <3>1, <3>3
  <2> QED
    BY <2>1, <2>2
<1> DEFINE p == BlakeSplit(n)
           m == CHOOSE x \in 0 .. n : PowerOfTwo[x] <= n - 1 /\ n - 1 < PowerOfTwo[x + 1]
<1>5. Splits(n, p)
  <2>1. p \in {PowerOfTwo[x] : x \in 0 .. n} /\ p < n /\ n <= 2 * p
    BY <1>3, <1>4 DEF BlakeSplit
  <2> HIDE DEF p
  <2>2. PICK x \in 0 .. n : p = PowerOfTwo[x]
    BY <2>1
  <2>3. p \in Nat \ {0} /\ x \in Nat
    BY <2>2, PowerOfTwoFacts
  <2> QED
    BY <2>1, <2>2, <2>3 DEF Splits
<1>6. Splits(n, PowerOfTwo[m])
  <2>1. m \in 0 .. n /\ PowerOfTwo[m] <= n - 1 /\ n - 1 < PowerOfTwo[m + 1]
    <3>1. PowerOfTwo[k] <= n - 1 /\ n - 1 < PowerOfTwo[k + 1]
      BY <1>3, <1>4
    <3> QED
      BY <1>3, <3>1
  <2> HIDE DEF m
  <2>2. m \in Nat /\ PowerOfTwo[m] \in Nat \ {0} /\ PowerOfTwo[m + 1] = 2 * PowerOfTwo[m]
    BY <2>1, PowerOfTwoFacts
  <2> QED
    BY <2>1, <2>2 DEF Splits
<1>7. p = PowerOfTwo[m]
  <2> HIDE DEF p, m
  <2> QED
    BY <1>5, <1>6, OneSplit
<1> QED
  BY <1>5, <1>7 DEF SplitCanonical

(***************************************************************************)
(* Lists of anything                                                       *)
(***************************************************************************)
LEMMA ListMembers ==
    ASSUME NEW s, List(s)
    PROVE  /\ Len(s) \in Nat /\ DOMAIN s = 1 .. Len(s) /\ s = [i \in 1 .. Len(s) |-> s[i]]
           /\ \A i \in 1 .. Len(s) : s[i] \in ToSet(s)
BY DEF List, ToSet

LEMMA MadeList ==
    ASSUME NEW n \in Nat, NEW s, s = [i \in 1 .. n |-> s[i]]
    PROVE  List(s) /\ Len(s) = n
<1>1. DOMAIN s = 1 .. n
  OBVIOUS
<1>2. ToSet(s) = {s[i] : i \in 1 .. n}
  BY <1>1 DEF ToSet
<1>3. s \in [1 .. n -> ToSet(s)]
  BY <1>2
<1> QED
  BY <1>3 DEF List

LEMMA SameList ==
    ASSUME NEW s, List(s), NEW t, List(t), Len(s) = Len(t), \A i \in 1 .. Len(s) : s[i] = t[i]
    PROVE  s = t
<1>1. s = [i \in 1 .. Len(s) |-> s[i]] /\ t = [i \in 1 .. Len(t) |-> t[i]]
  BY ListMembers
<1> QED
  BY <1>1

LEMMA OneSequence ==
    ASSUME NEW C, NEW s \in Seq(C)
    PROVE  s \in Seq(ToSet(s)) /\ ToSet(s) \subseteq C
<1>1. Len(s) \in Nat /\ DOMAIN s = 1 .. Len(s) /\ \A i \in 1 .. Len(s) : s[i] \in C
  OBVIOUS
<1>2. ToSet(s) = {s[i] : i \in 1 .. Len(s)}
  BY <1>1 DEF ToSet
<1>3. s = [i \in 1 .. Len(s) |-> s[i]]
  BY <1>1
<1>4. s \in [1 .. Len(s) -> ToSet(s)]
  BY <1>2, <1>3
<1> QED
  BY <1>1, <1>2, <1>4

LEMMA CutCells ==
    ASSUME NEW a, a \in Seq(ToSet(a)), NEW m \in Int, NEW n \in Int, m >= 1, n <= Len(a)
    PROVE  LET cut == SubSeq(a, m, n) IN
           /\ cut \in Seq(ToSet(cut)) /\ ToSet(cut) \subseteq ToSet(a)
           /\ Len(cut) = IF m <= n THEN n - m + 1 ELSE 0
           /\ \A i \in 1 .. n - m + 1 : cut[i] = a[m + i - 1]
<1>1. Len(a) \in Nat /\ \A i \in 1 .. Len(a) : a[i] \in ToSet(a)
  BY DEF ToSet
<1>2. \A i \in m .. n : a[i] \in ToSet(a)
  BY <1>1
<1>3. /\ SubSeq(a, m, n) \in Seq(ToSet(a))
      /\ Len(SubSeq(a, m, n)) = IF m <= n THEN n - m + 1 ELSE 0
      /\ \A i \in 1 .. n - m + 1 : SubSeq(a, m, n)[i] = a[m + i - 1]
  BY <1>2, SubSeqProperties
<1> QED
  BY <1>3, OneSequence

(***************************************************************************)
(* Trees                                                                   *)
(***************************************************************************)
\* The values of all stretches of n leaves, from those of shorter ones.
Row(leaves, split, t, n) ==
    [at \in 1 .. Len(leaves) - n + 1 |->
        IF n = 1 THEN leaves[at]
        ELSE <<"node", t[split[n]][at], t[n - split[n]][at + split[n]]>>]

Splitting(split, L) == \A n \in 2 .. L : split[n] \in 1 .. n - 1

Rows(leaves, split, t) == t = [n \in 1 .. Len(leaves) |-> Row(leaves, split, t, n)]

LEMMA RowFromShorter ==
    ASSUME NEW leaves, NEW split, NEW n \in Nat, n >= 1, n = 1 \/ split[n] \in 1 .. n - 1,
           NEW t, NEW u, \A m \in 1 .. n - 1 : t[m] = u[m]
    PROVE  Row(leaves, split, t, n) = Row(leaves, split, u, n)
<1>1. CASE n = 1
  BY <1>1 DEF Row
<1>2. CASE n # 1
  <2>1. split[n] \in 1 .. n - 1 /\ n - split[n] \in 1 .. n - 1
    BY <1>2
  <2>2. t[split[n]] = u[split[n]] /\ t[n - split[n]] = u[n - split[n]]
    BY <2>1
  <2> QED
    BY <2>2 DEF Row
<1> QED
  BY <1>1, <1>2

LEMMA RowsExist ==
    ASSUME NEW leaves, Len(leaves) \in Nat, NEW split, Splitting(split, Len(leaves))
    PROVE  \E t : Rows(leaves, split, t)
<1> DEFINE L == Len(leaves)
           Upto(t, m) == t = [n \in 1 .. m |-> Row(leaves, split, t, n)]
           S == {m \in Nat : m <= L => \E t : Upto(t, m)}
<1>1. 0 \in S
  <2> DEFINE t == [n \in 1 .. 0 |-> 0]
  <2>1. t = [n \in 1 .. 0 |-> Row(leaves, split, t, n)]
    OBVIOUS
  <2> QED
    BY <2>1
<1>2. ASSUME NEW m \in Nat, m \in S
      PROVE  m + 1 \in S
  <2> SUFFICES ASSUME m + 1 <= L
               PROVE  \E t : Upto(t, m + 1)
    OBVIOUS
  <2>1. PICK t : Upto(t, m)
    BY <1>2
  <2> DEFINE e == [n \in 1 .. m + 1 |-> Row(leaves, split, t, n)]
  <2>2. \A n \in 1 .. m : e[n] = t[n]
    <3> SUFFICES ASSUME NEW n \in 1 .. m PROVE Row(leaves, split, t, n) = t[n]
      OBVIOUS
    <3> QED
      BY <2>1
  <2>3. e = [n \in 1 .. m + 1 |-> e[n]] /\ \A n \in 1 .. m + 1 : e[n] = Row(leaves, split, t, n)
    OBVIOUS
  <2> HIDE DEF e
  <2>4. ASSUME NEW n \in 1 .. m + 1
        PROVE  e[n] = Row(leaves, split, e, n)
    <3>1. n \in Nat /\ n >= 1 /\ (n = 1 \/ split[n] \in 1 .. n - 1)
      <4>1. n = 1 \/ n \in 2 .. L
        OBVIOUS
      <4> QED
        BY <4>1 DEF Splitting
    <3>2. \A k \in 1 .. n - 1 : t[k] = e[k]
      <4>1. \A k \in 1 .. n - 1 : k \in 1 .. m
        OBVIOUS
      <4> QED
        BY <2>2, <4>1
    <3>3. Row(leaves, split, t, n) = Row(leaves, split, e, n)
      BY <3>1, <3>2, RowFromShorter
    <3> QED
      BY <2>3, <3>3
  <2>5. Upto(e, m + 1)
    BY <2>3, <2>4
  <2> QED
    BY <2>5
<1>3. \A m \in Nat : m \in S
  <2> HIDE DEF S
  <2> QED
    BY <1>1, <1>2, SetInduction
<1>4. \E t : Upto(t, L)
  BY <1>3
<1> QED
  BY <1>4 DEF Rows

LEMMA TreeRows ==
    ASSUME NEW leaves, Len(leaves) \in Nat, NEW split, Splitting(split, Len(leaves))
    PROVE  \E t : Rows(leaves, split, t) /\ Tree(leaves, split) = t[Len(leaves)][1]
<1> DEFINE t == CHOOSE x : x = [n \in 1 .. Len(leaves) |->
                    [at \in 1 .. Len(leaves) - n + 1 |->
                        IF n = 1 THEN leaves[at]
                        ELSE <<"node", x[split[n]][at], x[n - split[n]][at + split[n]]>>]]
<1>1. Tree(leaves, split) = t[Len(leaves)][1]
  BY DEF Tree
<1>2. t = CHOOSE x : Rows(leaves, split, x)
  BY DEF Rows, Row
<1> HIDE DEF t
<1>3. Rows(leaves, split, t)
  BY <1>2, RowsExist
<1> QED
  BY <1>1, <1>3

\* The value of a stretch does not depend on where it lies.
Stretch(part, by, leaves, split, from) ==
    /\ Len(leaves) \in Nat /\ Splitting(split, Len(leaves))
    /\ Len(part) \in Nat /\ Splitting(by, Len(part))
    /\ from \in Nat /\ from + Len(part) <= Len(leaves)
    /\ \A i \in 1 .. Len(part) : part[i] = leaves[from + i]
    /\ \A n \in 2 .. Len(part) : by[n] = split[n]

Shifted(u, t, L, from) ==
    \A n \in 1 .. L : \A at \in 1 .. L - n + 1 : u[n][at] = t[n][from + at]

LEMMA RowsOfAStretch ==
    ASSUME NEW leaves, NEW split, NEW t, Rows(leaves, split, t),
           NEW part, NEW by, NEW u, Rows(part, by, u),
           NEW from, Stretch(part, by, leaves, split, from)
    PROVE  Shifted(u, t, Len(part), from)
<1>0. /\ Len(leaves) \in Nat /\ Splitting(split, Len(leaves))
      /\ Len(part) \in Nat /\ Splitting(by, Len(part))
      /\ from \in Nat /\ from + Len(part) <= Len(leaves)
      /\ \A i \in 1 .. Len(part) : part[i] = leaves[from + i]
      /\ \A n \in 2 .. Len(part) : by[n] = split[n]
  BY DEF Stretch
<1> DEFINE L == Len(part)
           Same(n) == \A at \in 1 .. L - n + 1 : u[n][at] = t[n][from + at]
           S == {n \in Nat : n \in 1 .. L => Same(n)}
<1>1. ASSUME NEW n \in Nat, \A m \in 0 .. n - 1 : m \in S
      PROVE  n \in S
  <2> SUFFICES ASSUME n \in 1 .. L, NEW at \in 1 .. L - n + 1
               PROVE  u[n][at] = t[n][from + at]
    OBVIOUS
  <2>1. u[n] = Row(part, by, u, n) /\ t[n] = Row(leaves, split, t, n)
    <3>1. n \in 1 .. Len(leaves) /\ n \in 1 .. Len(part)
      BY <1>0
    <3> QED
      BY <3>1 DEF Rows
  <2>2. from + at \in 1 .. Len(leaves) - n + 1
    BY <1>0
  <2>3. CASE n = 1
    <3>1. u[n][at] = part[at] /\ t[n][from + at] = leaves[from + at]
      BY <1>0, <2>1, <2>2, <2>3 DEF Row
    <3> QED
      BY <1>0, <2>3, <3>1
  <2>4. CASE n # 1
    <3>1. n \in 2 .. L /\ by[n] \in 1 .. n - 1 /\ by[n] = split[n]
      BY <1>0, <2>4 DEF Splitting
    <3>2. /\ u[n][at] = <<"node", u[by[n]][at], u[n - by[n]][at + by[n]]>>
          /\ t[n][from + at] = <<"node", t[by[n]][from + at], t[n - by[n]][(from + at) + by[n]]>>
      BY <1>0, <2>1, <2>2, <2>4, <3>1 DEF Row
    <3>3. by[n] \in 0 .. n - 1 /\ n - by[n] \in 0 .. n - 1
          /\ by[n] \in 1 .. L /\ n - by[n] \in 1 .. L
          /\ at \in 1 .. L - by[n] + 1 /\ at + by[n] \in 1 .. L - (n - by[n]) + 1
          /\ from + (at + by[n]) = (from + at) + by[n]
      <4>1. L \in Nat /\ from \in Nat
        BY <1>0
      <4> HIDE DEF L
      <4>2. ASSUME NEW b \in 1 .. n - 1
            PROVE  /\ b \in 0 .. n - 1 /\ n - b \in 0 .. n - 1
                   /\ b \in 1 .. L /\ n - b \in 1 .. L
                   /\ at \in 1 .. L - b + 1 /\ at + b \in 1 .. L - (n - b) + 1
                   /\ from + (at + b) = (from + at) + b
        BY <4>1
      <4>3. by[n] \in 1 .. n - 1
        BY <3>1
      <4> QED
        BY <4>2, <4>3
    <3>4. Same(by[n]) /\ Same(n - by[n])
      BY <1>1, <3>3
    <3>5. u[by[n]][at] = t[by[n]][from + at]
      BY <3>3, <3>4
    <3>6. u[n - by[n]][at + by[n]] = t[n - by[n]][from + (at + by[n])]
      BY <3>3, <3>4
    <3> QED
      BY <3>2, <3>3, <3>5, <3>6
  <2> QED
    BY <2>3, <2>4
<1>2. \A n \in Nat : n \in S
  <2> HIDE DEF S
  <2> QED
    BY <1>1, StrongSetInduction
<1> QED
  BY <1>0, <1>2 DEF Shifted

LEMMA CanonicalSplits ==
    ASSUME NEW L \in Nat, NEW split, split = [n \in 2 .. L |-> SplitCanonical(n)]
    PROVE  Splitting(split, L) /\ \A n \in 2 .. L : split[n] = BlakeSplit(n)
<1>1. \A n \in 2 .. L : n \in Nat /\ n >= 2
  OBVIOUS
<1>2. \A n \in 2 .. L : split[n] = BlakeSplit(n) /\ BlakeSplit(n) \in 1 .. n - 1
  BY <1>1, SplitsAgree DEF Splits
<1> QED
  BY <1>2 DEF Splitting

LEMMA MergeSplits ==
    ASSUME NEW cvs, Len(cvs) \in Nat, Len(cvs) >= 2,
           NEW left, Len(left) = BlakeSplit(Len(cvs)),
           NEW right, Len(right) = Len(cvs) - BlakeSplit(Len(cvs)),
           \A i \in 1 .. Len(left) : left[i] = cvs[i],
           \A i \in 1 .. Len(right) : right[i] = cvs[Len(left) + i]
    PROVE  /\ Len(left) \in 1 .. Len(cvs) - 1 /\ Len(right) \in 1 .. Len(cvs) - 1
           /\ MergeNonRoot(cvs) = <<"node", MergeNonRoot(left), MergeNonRoot(right)>>
<1> DEFINE N == Len(cvs)
           p == BlakeSplit(N)
           all == [n \in 2 .. N |-> SplitCanonical(n)]
           l == [n \in 2 .. Len(left) |-> SplitCanonical(n)]
           r == [n \in 2 .. Len(right) |-> SplitCanonical(n)]
<1>1. p \in 1 .. N - 1
  BY SplitsAgree DEF Splits
<1> HIDE DEF p
<1>2. Len(left) = p /\ Len(right) = N - p
  BY DEF p
<1>3. /\ Len(left) \in Nat /\ Len(right) \in Nat /\ N \in Nat
      /\ Len(left) \in 1 .. N - 1 /\ Len(right) \in 1 .. N - 1
  BY <1>1, <1>2
<1>4. Splitting(all, N) /\ Splitting(l, Len(left)) /\ Splitting(r, Len(right))
  BY <1>3, CanonicalSplits
<1>5. all[N] = p
  BY SplitsAgree DEF p
<1>6. (\A n \in 2 .. Len(left) : l[n] = all[n]) /\ (\A n \in 2 .. Len(right) : r[n] = all[n])
  <2>1. \A n \in 2 .. Len(left) : n \in 2 .. N
    BY <1>3
  <2>2. \A n \in 2 .. Len(right) : n \in 2 .. N
    BY <1>3
  <2> QED
    BY <2>1, <2>2
<1>7. /\ MergeNonRoot(cvs) = Tree(cvs, all)
      /\ MergeNonRoot(left) = Tree(left, l) /\ MergeNonRoot(right) = Tree(right, r)
  BY DEF MergeNonRoot
<1> HIDE DEF all, l, r
<1> HIDE DEF N
<1>8. PICK t : Rows(cvs, all, t) /\ Tree(cvs, all) = t[Len(cvs)][1]
  BY <1>3, <1>4, TreeRows DEF N
<1>9. PICK u : Rows(left, l, u) /\ Tree(left, l) = u[Len(left)][1]
  BY <1>3, <1>4, TreeRows
<1>10. PICK v : Rows(right, r, v) /\ Tree(right, r) = v[Len(right)][1]
  BY <1>3, <1>4, TreeRows
<1>11. t[N][1] = <<"node", t[p][1], t[N - p][1 + p]>>
  <2>1. N \in 1 .. Len(cvs) /\ N # 1 /\ 1 \in 1 .. Len(cvs) - N + 1
    BY <1>1, <1>3 DEF N
  <2>2. t[N] = Row(cvs, all, t, N)
    BY <1>8, <2>1 DEF Rows
  <2> QED
    BY <1>5, <2>1, <2>2 DEF Row
<1>12. u[p][1] = t[p][1]
  <2>1. Stretch(left, l, cvs, all, 0)
    <3>1. \A i \in 1 .. Len(left) : left[i] = cvs[0 + i]
      BY <1>3
    <3>2. 0 \in Nat /\ 0 + Len(left) <= Len(cvs)
      BY <1>3 DEF N
    <3> QED
      BY <1>3, <1>4, <1>6, <3>1, <3>2 DEF Stretch, N
  <2>2. Shifted(u, t, Len(left), 0)
    BY <1>8, <1>9, <2>1, RowsOfAStretch
  <2>3. p \in 1 .. Len(left) /\ 1 \in 1 .. Len(left) - p + 1 /\ 0 + 1 = 1
    BY <1>1, <1>2, <1>3
  <2> QED
    BY <2>2, <2>3 DEF Shifted
<1>13. v[N - p][1] = t[N - p][p + 1]
  <2>1. Stretch(right, r, cvs, all, p)
    <3>1. \A i \in 1 .. Len(right) : right[i] = cvs[p + i]
      BY <1>2
    <3>2. p \in Nat /\ p + Len(right) <= Len(cvs)
      BY <1>1, <1>2, <1>3 DEF N
    <3> QED
      BY <1>3, <1>4, <1>6, <3>1, <3>2 DEF Stretch, N
  <2>2. Shifted(v, t, Len(right), p)
    BY <1>8, <1>10, <2>1, RowsOfAStretch
  <2>3. N - p \in 1 .. Len(right) /\ 1 \in 1 .. Len(right) - (N - p) + 1
    BY <1>1, <1>2, <1>3
  <2> QED
    BY <2>2, <2>3 DEF Shifted
<1>14. MergeNonRoot(cvs) = <<"node", MergeNonRoot(left), MergeNonRoot(right)>>
  <2>1. 1 + p = p + 1
    BY <1>1
  <2> QED
    BY <1>2, <1>7, <1>8, <1>9, <1>10, <1>11, <1>12, <1>13, <2>1 DEF N
<1> QED
  BY <1>3, <1>14 DEF N

LEMMA MergeOfOne ==
    ASSUME NEW cvs, Len(cvs) = 1
    PROVE  MergeNonRoot(cvs) = cvs[1]
<1> DEFINE all == [n \in 2 .. Len(cvs) |-> SplitCanonical(n)]
<1>1. Splitting(all, Len(cvs)) /\ Len(cvs) \in Nat
  BY DEF Splitting
<1>2. MergeNonRoot(cvs) = Tree(cvs, all)
  BY DEF MergeNonRoot
<1> HIDE DEF all
<1>3. PICK t : Rows(cvs, all, t) /\ Tree(cvs, all) = t[Len(cvs)][1]
  BY <1>1, TreeRows
<1>4. t[1] = Row(cvs, all, t, 1)
  BY <1>1, <1>3 DEF Rows
<1> QED
  BY <1>2, <1>3, <1>4 DEF Row

(***************************************************************************)
(* Subtrees and hashes                                                     *)
(***************************************************************************)
LEMMA Halves ==
    ASSUME NEW s, List(s), NEW p \in 1 .. Len(s) - 1
    PROVE  LET left == SubSeq(s, 1, p)
               right == SubSeq(s, p + 1, Len(s))
           IN /\ List(left) /\ Len(left) = p /\ \A i \in 1 .. p : left[i] = s[i]
              /\ List(right) /\ Len(right) = Len(s) - p
              /\ \A i \in 1 .. Len(s) - p : right[i] = s[p + i]
<1>0. Len(s) \in Nat
  BY ListMembers
<1>1. PICK left : left = SubSeq(s, 1, p)
  OBVIOUS
<1>2. PICK right : right = SubSeq(s, p + 1, Len(s))
  OBVIOUS
<1>3. List(left) /\ Len(left) = p /\ \A i \in 1 .. p : left[i] = s[i]
  <2>1. /\ left \in Seq(ToSet(left)) /\ Len(left) = IF 1 <= p THEN p - 1 + 1 ELSE 0
        /\ \A i \in 1 .. p - 1 + 1 : left[i] = s[1 + i - 1]
    BY <1>0, <1>1, CutCells DEF List
  <2> QED
    BY <1>0, <2>1 DEF List
<1>4. List(right) /\ Len(right) = Len(s) - p /\ \A i \in 1 .. Len(s) - p : right[i] = s[p + i]
  <2>1. /\ right \in Seq(ToSet(right))
        /\ Len(right) = IF p + 1 <= Len(s) THEN Len(s) - (p + 1) + 1 ELSE 0
        /\ \A i \in 1 .. Len(s) - (p + 1) + 1 : right[i] = s[(p + 1) + i - 1]
    BY <1>0, <1>2, CutCells DEF List
  <2>2. Len(s) - (p + 1) + 1 = Len(s) - p /\ p + 1 <= Len(s)
    BY <1>0
  <2>3. ASSUME NEW i \in 1 .. Len(s) - p
        PROVE  right[i] = s[p + i]
    <3>1. right[i] = s[(p + 1) + i - 1]
      BY <2>1, <2>2
    <3>2. (p + 1) + i - 1 = p + i
      OBVIOUS
    <3> QED
      BY <3>1, <3>2
  <2> QED
    BY <2>1, <2>2, <2>3 DEF List
<1> QED
  BY <1>1, <1>2, <1>3, <1>4

Leaves(cells, from) == [i \in 1 .. Len(cells) |-> <<"leaf", from + i - 1, cells[i]>>]

LEMMA SubtreeIsMerge ==
    ASSUME NEW cells, Len(cells) \in Nat, NEW from
    PROVE  /\ List(Leaves(cells, from)) /\ Len(Leaves(cells, from)) = Len(cells)
           /\ Subtree(cells, from) = MergeNonRoot(Leaves(cells, from))
<1> DEFINE leaves == Leaves(cells, from)
           L == Len(cells)
           ours == [n \in 2 .. L |-> SplitCanonical(n)]
           theirs == [n \in 2 .. L |-> BlakeSplit(n)]
<1>1. leaves = [i \in 1 .. L |-> leaves[i]]
  BY DEF Leaves
<1>2. Subtree(cells, from) = Tree(leaves, theirs)
  BY DEF Subtree, Leaves
<1> HIDE DEF leaves
<1>3. List(leaves) /\ Len(leaves) = L
  BY <1>1, MadeList
<1>4. ours = theirs
  <2>1. \A n \in 2 .. L : SplitCanonical(n) = BlakeSplit(n)
    BY SplitsAgree
  <2> QED
    BY <2>1
<1>5. MergeNonRoot(leaves) = Tree(leaves, ours)
  BY <1>3 DEF MergeNonRoot
<1> HIDE DEF ours, theirs
<1> QED
  BY <1>2, <1>3, <1>4, <1>5 DEF leaves

LEMMA SubtreeOfOne ==
    ASSUME NEW cells, Len(cells) = 1, NEW from \in Nat
    PROVE  Subtree(cells, from) = <<"leaf", from, cells[1]>>
<1>1. Len(Leaves(cells, from)) = 1 /\ Subtree(cells, from) = MergeNonRoot(Leaves(cells, from))
  BY SubtreeIsMerge
<1>2. Leaves(cells, from)[1] = <<"leaf", from, cells[1]>>
  BY DEF Leaves
<1> QED
  BY <1>1, <1>2, MergeOfOne

LEMMA SubtreeSplits ==
    ASSUME NEW cells, List(cells), Len(cells) >= 2, NEW from \in Nat
    PROVE  LET p == BlakeSplit(Len(cells)) IN
           /\ p \in 1 .. Len(cells) - 1
           /\ Subtree(cells, from) = <<"node", Subtree(SubSeq(cells, 1, p), from),
                                       Subtree(SubSeq(cells, p + 1, Len(cells)), from + p)>>
<1> DEFINE p == BlakeSplit(Len(cells))
<1>0. Len(cells) \in Nat
  BY ListMembers
<1>1. p \in 1 .. Len(cells) - 1
  BY <1>0, SplitsAgree DEF Splits
<1>2. PICK left : left = SubSeq(cells, 1, p)
  OBVIOUS
<1>3. PICK right : right = SubSeq(cells, p + 1, Len(cells))
  OBVIOUS
<1>4. /\ Len(left) = p /\ \A i \in 1 .. p : left[i] = cells[i]
      /\ Len(right) = Len(cells) - p /\ \A i \in 1 .. Len(cells) - p : right[i] = cells[p + i]
  BY <1>1, <1>2, <1>3, Halves
<1> DEFINE all == Leaves(cells, from)
           l == Leaves(left, from)
           r == Leaves(right, from + p)
<1>5. /\ Len(all) = Len(cells) /\ Subtree(cells, from) = MergeNonRoot(all)
      /\ Len(l) = p /\ Subtree(left, from) = MergeNonRoot(l)
      /\ Len(r) = Len(cells) - p /\ Subtree(right, from + p) = MergeNonRoot(r)
  <2>1. Len(left) \in Nat /\ Len(right) \in Nat
    BY <1>0, <1>1, <1>4
  <2> QED
    BY <1>0, <1>4, <2>1, SubtreeIsMerge
<1>6. \A i \in 1 .. p : l[i] = all[i]
  BY <1>0, <1>1, <1>4 DEF Leaves
<1>7. ASSUME NEW i \in 1 .. Len(cells) - p
      PROVE  r[i] = all[p + i]
  <2> HIDE DEF p
  <2>1. p + i \in 1 .. Len(cells) /\ (from + p) + i - 1 = from + (p + i) - 1
    BY <1>0, <1>1
  <2>2. r[i] = <<"leaf", (from + p) + i - 1, right[i]>>
    BY <1>4 DEF Leaves
  <2>3. all[p + i] = <<"leaf", from + (p + i) - 1, cells[p + i]>>
    BY <2>1 DEF Leaves
  <2> QED
    BY <1>4, <2>1, <2>2, <2>3
<1> HIDE DEF all, l, r
<1>8. MergeNonRoot(all) = <<"node", MergeNonRoot(l), MergeNonRoot(r)>>
  <2>1. Len(l) = BlakeSplit(Len(all)) /\ Len(r) = Len(all) - BlakeSplit(Len(all))
    BY <1>5
  <2>2. Len(all) \in Nat /\ Len(all) >= 2
    BY <1>0, <1>5
  <2>3. /\ \A i \in 1 .. Len(l) : l[i] = all[i]
        /\ \A i \in 1 .. Len(r) : r[i] = all[Len(l) + i]
    <3> HIDE DEF p
    <3> QED
      BY <1>5, <1>6, <1>7
  <2> HIDE DEF p
  <2> QED
    BY <2>1, <2>2, <2>3, MergeSplits
<1> QED
  BY <1>1, <1>2, <1>3, <1>5, <1>8

\* The halves of two lists are equal only if the lists are.
LEMMA SameHalves ==
    ASSUME NEW a, List(a), NEW p \in 1 .. Len(a) - 1,
           NEW b, List(b), NEW q \in 1 .. Len(b) - 1,
           SubSeq(a, 1, p) = SubSeq(b, 1, q),
           SubSeq(a, p + 1, Len(a)) = SubSeq(b, q + 1, Len(b))
    PROVE  a = b
<1>0. Len(a) \in Nat /\ Len(b) \in Nat
  BY ListMembers
<1>1. PICK l : l = SubSeq(a, 1, p)
  OBVIOUS
<1>2. PICK r : r = SubSeq(a, p + 1, Len(a))
  OBVIOUS
<1>3. /\ Len(l) = p /\ \A i \in 1 .. p : l[i] = a[i]
      /\ Len(r) = Len(a) - p /\ \A i \in 1 .. Len(a) - p : r[i] = a[p + i]
  BY <1>1, <1>2, Halves
<1>4. /\ Len(l) = q /\ \A i \in 1 .. q : l[i] = b[i]
      /\ Len(r) = Len(b) - q /\ \A i \in 1 .. Len(b) - q : r[i] = b[q + i]
  BY <1>1, <1>2, Halves
<1>5. p = q /\ Len(a) = Len(b)
  BY <1>0, <1>3, <1>4
<1>6. ASSUME NEW i \in 1 .. Len(a)
      PROVE  a[i] = b[i]
  <2>1. CASE i <= p
    BY <1>3, <1>4, <1>5, <2>1
  <2>2. CASE ~(i <= p)
    <3>1. i - p \in 1 .. Len(a) - p /\ p + (i - p) = i
      BY <1>0, <2>2
    <3> QED
      BY <1>3, <1>4, <1>5, <3>1
  <2> QED
    BY <2>1, <2>2
<1> QED
  BY <1>5, <1>6, SameList

\* Two contents with the same chaining value, wherever they were hashed from.
Alike(c, u, d, v) ==
    /\ List(c) /\ Len(c) >= 1 /\ List(d) /\ Len(d) >= 1
    /\ u \in Nat /\ v \in Nat /\ Subtree(c, u) = Subtree(d, v)

\* A list and its two halves.
Parted(c, p, left, right) ==
    /\ p \in 1 .. Len(c) - 1 /\ left = SubSeq(c, 1, p) /\ right = SubSeq(c, p + 1, Len(c))
    /\ List(left) /\ Len(left) = p /\ List(right) /\ Len(right) = Len(c) - p

LEMMA SameTriple ==
    ASSUME NEW a, NEW b, NEW c, NEW x, NEW y, NEW z, <<a, b, c>> = <<x, y, z>>
    PROVE  a = x /\ b = y /\ c = z
OBVIOUS

\* What a chaining value shows of the content it was made from.
LEMMA SubtreeShape ==
    ASSUME NEW c, List(c), Len(c) >= 1, NEW u \in Nat
    PROVE  \/ Len(c) = 1 /\ Subtree(c, u) = <<"leaf", u, c[1]>>
           \/ \E p, left, right :
                 /\ Parted(c, p, left, right)
                 /\ Subtree(c, u) = <<"node", Subtree(left, u), Subtree(right, u + p)>>
<1>1. Len(c) = 1 \/ Len(c) >= 2
  <2>1. Len(c) \in Nat /\ Len(c) >= 1
    BY ListMembers
  <2>2. \A n \in Nat : n >= 1 => n = 1 \/ n >= 2
    OBVIOUS
  <2> QED
    BY <2>1, <2>2
<1>2. CASE Len(c) = 1
  BY <1>2, SubtreeOfOne
<1>3. CASE Len(c) >= 2
  <2>1. PICK p : p = BlakeSplit(Len(c))
    OBVIOUS
  <2>2. /\ p \in 1 .. Len(c) - 1
        /\ Subtree(c, u) = <<"node", Subtree(SubSeq(c, 1, p), u),
                                     Subtree(SubSeq(c, p + 1, Len(c)), u + p)>>
    BY <1>3, <2>1, SubtreeSplits
  <2>3. PICK left : left = SubSeq(c, 1, p)
    OBVIOUS
  <2>4. PICK right : right = SubSeq(c, p + 1, Len(c))
    OBVIOUS
  <2>5. List(left) /\ Len(left) = p /\ List(right) /\ Len(right) = Len(c) - p
    BY <2>2, <2>3, <2>4, Halves
  <2>6. Parted(c, p, left, right)
    BY <2>2, <2>3, <2>4, <2>5 DEF Parted
  <2> QED
    BY <2>2, <2>3, <2>4, <2>6
<1> QED
  BY <1>1, <1>2, <1>3

LEMMA AlikeAgree ==
    ASSUME NEW c, NEW u, NEW d, NEW v, Alike(c, u, d, v),
           \A e, x, f, y : Len(e) \in 0 .. Len(c) - 1 /\ Alike(e, x, f, y) => e = f
    PROVE  c = d
<1>1. /\ List(c) /\ Len(c) >= 1 /\ List(d) /\ Len(d) >= 1
      /\ u \in Nat /\ v \in Nat /\ Subtree(c, u) = Subtree(d, v)
      /\ Len(c) \in Nat /\ Len(d) \in Nat
  BY ListMembers DEF Alike
<1> DEFINE One(e, x) == Len(e) = 1 /\ Subtree(e, x) = <<"leaf", x, e[1]>>
           Two(e, x, p, l, r) ==
               /\ Parted(e, p, l, r)
               /\ Subtree(e, x) = <<"node", Subtree(l, x), Subtree(r, x + p)>>
<1>2. One(c, u) \/ \E p, l, r : Two(c, u, p, l, r)
  BY <1>1, SubtreeShape
<1>3. One(d, v) \/ \E p, l, r : Two(d, v, p, l, r)
  BY <1>1, SubtreeShape
<1>4. CASE One(c, u)
  <2>1. One(d, v)
    <3>1. ASSUME NEW p, NEW l, NEW r, Two(d, v, p, l, r)
          PROVE  FALSE
      <4>1. <<"leaf", u, c[1]>> = <<"node", Subtree(l, v), Subtree(r, v + p)>>
        BY <1>1, <1>4, <3>1
      <4>2. "leaf" = "node"
        BY <4>1, SameTriple
      <4> QED
        BY <4>2
    <3> QED
      BY <1>3, <3>1
  <2>2. c[1] = d[1]
    <3>1. <<"leaf", u, c[1]>> = <<"leaf", v, d[1]>>
      BY <1>1, <1>4, <2>1
    <3> QED
      BY <3>1, SameTriple
  <2> QED
    BY <1>1, <1>4, <2>1, <2>2, SameList
<1>5. ASSUME NEW p, NEW l, NEW r, Two(c, u, p, l, r)
      PROVE  c = d
  <2>1. ~One(d, v)
    <3>1. ASSUME One(d, v)
          PROVE  FALSE
      <4>1. <<"leaf", v, d[1]>> = <<"node", Subtree(l, u), Subtree(r, u + p)>>
        BY <1>1, <1>5, <3>1
      <4>2. "leaf" = "node"
        BY <4>1, SameTriple
      <4> QED
        BY <4>2
    <3> QED
      BY <3>1
  <2>2. PICK q, m, n : Two(d, v, q, m, n)
    BY <1>3, <2>1
  <2>3. Subtree(l, u) = Subtree(m, v) /\ Subtree(r, u + p) = Subtree(n, v + q)
    <3>1. <<"node", Subtree(l, u), Subtree(r, u + p)>> = <<"node", Subtree(m, v), Subtree(n, v + q)>>
      BY <1>1, <1>5, <2>2
    <3> QED
      BY <3>1, SameTriple
  <2>4. p \in 1 .. Len(c) - 1 /\ q \in 1 .. Len(d) - 1
    BY <1>5, <2>2 DEF Parted
  <2>5. u + p \in Nat /\ v + q \in Nat
    BY <1>1, <2>4
  <2>6. /\ Len(c) - p \in 0 .. Len(c) - 1 /\ p \in 0 .. Len(c) - 1
        /\ Len(c) - p >= 1 /\ p >= 1 /\ Len(d) - q >= 1 /\ q >= 1
    BY <1>1, <2>4
  <2>7. Alike(l, u, m, v) /\ Alike(r, u + p, n, v + q)
    BY <1>1, <1>5, <2>2, <2>3, <2>5, <2>6 DEF Alike, Parted
  <2>8. Len(l) \in 0 .. Len(c) - 1 /\ Len(r) \in 0 .. Len(c) - 1
    BY <1>5, <2>6 DEF Parted
  <2>9. l = m /\ r = n
    BY <2>7, <2>8
  <2>10. SubSeq(c, 1, p) = SubSeq(d, 1, q) /\ SubSeq(c, p + 1, Len(c)) = SubSeq(d, q + 1, Len(d))
    BY <1>5, <2>2, <2>9 DEF Parted
  <2> QED
    BY <1>1, <2>4, <2>10, SameHalves
<1> QED
  BY <1>2, <1>4, <1>5

\* A chaining value is of one content only, and so is a root.
LEMMA SubtreeTellsCells ==
    ASSUME NEW a, List(a), Len(a) >= 1, NEW b, List(b), Len(b) >= 1,
           NEW x \in Nat, NEW y \in Nat, Subtree(a, x) = Subtree(b, y)
    PROVE  a = b
<1> DEFINE S == {n \in Nat : \A c, u, d, v : Len(c) = n /\ Alike(c, u, d, v) => c = d}
<1>1. ASSUME NEW n \in Nat, \A m \in 0 .. n - 1 : m \in S
      PROVE  n \in S
  <2> SUFFICES ASSUME NEW c, NEW u, NEW d, NEW v, Len(c) = n, Alike(c, u, d, v)
               PROVE  c = d
    OBVIOUS
  <2>1. \A e, z, f, w : Len(e) \in 0 .. Len(c) - 1 /\ Alike(e, z, f, w) => e = f
    BY <1>1
  <2> QED
    BY <2>1, AlikeAgree
<1>2. \A n \in Nat : n \in S
  <2> HIDE DEF S
  <2> QED
    BY <1>1, StrongSetInduction
<1>3. Len(a) \in S
  BY <1>2, ListMembers
<1>4. Alike(a, x, b, y)
  BY DEF Alike
<1> QED
  BY <1>3, <1>4

\* What a root shows of the content it was made from.
LEMMA HashShape ==
    ASSUME NEW c, List(c)
    PROVE  \/ Len(c) = 0 /\ Hash(c) = <<"rootempty", 0, 0>>
           \/ Len(c) = 1 /\ Hash(c) = <<"rootleaf", 0, c[1]>>
           \/ \E p, left, right :
                 /\ Parted(c, p, left, right)
                 /\ Hash(c) = <<"root", Subtree(left, 0), Subtree(right, p)>>
<1>0. Len(c) \in Nat
  BY ListMembers
<1>1. Len(c) = 0 \/ Len(c) = 1 \/ Len(c) >= 2
  BY <1>0
<1>2. CASE Len(c) = 0
  BY <1>2 DEF Hash
<1>3. CASE Len(c) = 1
  BY <1>3 DEF Hash
<1>4. CASE Len(c) >= 2
  <2>1. PICK p : p = BlakeSplit(Len(c))
    OBVIOUS
  <2>2. p \in 1 .. Len(c) - 1
    BY <1>0, <1>4, <2>1, SplitsAgree DEF Splits
  <2>3. PICK left : left = SubSeq(c, 1, p)
    OBVIOUS
  <2>4. PICK right : right = SubSeq(c, p + 1, Len(c))
    OBVIOUS
  <2>5. List(left) /\ Len(left) = p /\ List(right) /\ Len(right) = Len(c) - p
    BY <2>2, <2>3, <2>4, Halves
  <2>6. ~(Len(c) = 0) /\ ~(Len(c) = 1)
    <3>1. \A n \in Nat : n >= 2 => n # 0 /\ n # 1
      OBVIOUS
    <3> QED
      BY <1>0, <1>4, <3>1
  <2>7. Hash(c) = <<"root", Subtree(left, 0), Subtree(right, p)>>
    BY <2>1, <2>3, <2>4, <2>6 DEF Hash
  <2>8. Parted(c, p, left, right)
    BY <2>2, <2>3, <2>4, <2>5 DEF Parted
  <2> QED
    BY <2>7, <2>8
<1> QED
  BY <1>1, <1>2, <1>3, <1>4

\* The hash names its content: two contents with one root are the same, whatever their
\* lengths and however the tree divides them (chunk.rs, root_from_cvs; spec 4.3).
THEOREM HashTellsCells ==
    ASSUME NEW a, List(a), NEW b, List(b), Hash(a) = Hash(b)
    PROVE  a = b
<1>1. Len(a) \in Nat /\ Len(b) \in Nat
  BY ListMembers
<1> DEFINE None(e) == Len(e) = 0 /\ Hash(e) = <<"rootempty", 0, 0>>
           One(e) == Len(e) = 1 /\ Hash(e) = <<"rootleaf", 0, e[1]>>
           Two(e, p, l, r) ==
               Parted(e, p, l, r) /\ Hash(e) = <<"root", Subtree(l, 0), Subtree(r, p)>>
<1>2. None(a) \/ One(a) \/ \E p, l, r : Two(a, p, l, r)
  BY HashShape
<1>3. None(b) \/ One(b) \/ \E p, l, r : Two(b, p, l, r)
  BY HashShape
<1>4. CASE None(a)
  <2>1. ~One(b) /\ ~(\E p, l, r : Two(b, p, l, r))
    BY <1>4, SameTriple
  <2>2. Len(b) = 0
    BY <1>3, <2>1
  <2> QED
    BY <1>4, <2>2, SameList
<1>5. CASE One(a)
  <2>1. One(b)
    <3>1. ~None(b) /\ ~(\E p, l, r : Two(b, p, l, r))
      BY <1>5, SameTriple
    <3> QED
      BY <1>3, <3>1
  <2>2. a[1] = b[1]
    <3>1. <<"rootleaf", 0, a[1]>> = <<"rootleaf", 0, b[1]>>
      BY <1>5, <2>1
    <3> QED
      BY <3>1, SameTriple
  <2> QED
    BY <1>5, <2>1, <2>2, SameList
<1>6. ASSUME NEW p, NEW l, NEW r, Two(a, p, l, r)
      PROVE  a = b
  <2>1. ~None(b) /\ ~One(b)
    BY <1>6, SameTriple
  <2>2. PICK q, m, n : Two(b, q, m, n)
    BY <1>3, <2>1
  <2>3. Subtree(l, 0) = Subtree(m, 0) /\ Subtree(r, p) = Subtree(n, q)
    <3>1. <<"root", Subtree(l, 0), Subtree(r, p)>> = <<"root", Subtree(m, 0), Subtree(n, q)>>
      BY <1>6, <2>2
    <3> QED
      BY <3>1, SameTriple
  <2>4. p \in 1 .. Len(a) - 1 /\ q \in 1 .. Len(b) - 1
    BY <1>6, <2>2 DEF Parted
  <2>5. /\ p \in Nat /\ q \in Nat /\ 0 \in Nat
        /\ Len(a) - p >= 1 /\ p >= 1 /\ Len(b) - q >= 1 /\ q >= 1
    BY <1>1, <2>4
  <2>6. /\ List(l) /\ Len(l) >= 1 /\ List(r) /\ Len(r) >= 1
        /\ List(m) /\ Len(m) >= 1 /\ List(n) /\ Len(n) >= 1
    BY <1>6, <2>2, <2>5 DEF Parted
  <2>7. l = m /\ r = n
    BY <2>3, <2>5, <2>6, SubtreeTellsCells
  <2>8. SubSeq(a, 1, p) = SubSeq(b, 1, q) /\ SubSeq(a, p + 1, Len(a)) = SubSeq(b, q + 1, Len(b))
    BY <1>6, <2>2, <2>7 DEF Parted
  <2> QED
    BY <2>4, <2>8, SameHalves
<1> QED
  BY <1>2, <1>3, <1>4, <1>5, <1>6

(***************************************************************************)
(* Chunks                                                                  *)
(***************************************************************************)
LEMMA SmallerFactor ==
    ASSUME NEW a \in Int, NEW b \in Int, NEW c \in Nat, c >= 1, a * c < b * c + c
    PROVE  a <= b
OBVIOUS

LEMMA FactorsOut ==
    ASSUME NEW a \in Int, NEW b \in Int, NEW c \in Int
    PROVE  (a + b) * c = a * c + b * c
OBVIOUS

LEMMA ProductIsNat ==
    ASSUME NEW a \in Nat, NEW c \in Nat
    PROVE  a * c \in Nat
OBVIOUS

\* m chunks of c units hold n units, and m - 1 do not.
Covers(n, m, c) == m \in Nat /\ n <= m * c /\ m * c < n + c

LEMMA CountCovers ==
    ASSUME NEW n \in Nat, NEW c \in Nat, c >= 1
    PROVE  Covers(n, ChunkCount(n, c), c)
<1>1. PICK k : k = n + c - 1
  OBVIOUS
<1>2. k \in Nat
  BY <1>1
<1>3. PICK m : m = k \div c
  OBVIOUS
<1>4. m \in Nat /\ m * c <= k /\ k < m * c + c
  BY <1>2, <1>3
<1>5. PICK x : x = m * c
  OBVIOUS
<1>6. x \in Nat /\ x <= k /\ k < x + c
  BY <1>4, <1>5
<1>7. n <= x /\ x < n + c
  BY <1>1, <1>6
<1> QED
  BY <1>1, <1>3, <1>4, <1>5, <1>7 DEF Covers, ChunkCount

LEMMA OneCover ==
    ASSUME NEW n \in Nat, NEW c \in Nat, c >= 1, NEW m, Covers(n, m, c), NEW k, Covers(n, k, c)
    PROVE  m = k
<1>1. m \in Nat /\ k \in Nat /\ m * c \in Nat /\ k * c \in Nat
  BY ProductIsNat DEF Covers
<1>2. m * c < k * c + c /\ k * c < m * c + c
  <2>1. \A x, y \in Nat : n <= x /\ x < n + c /\ n <= y /\ y < n + c => x < y + c
    OBVIOUS
  <2> QED
    BY <1>1, <2>1 DEF Covers
<1>3. m <= k /\ k <= m
  BY <1>1, <1>2, SmallerFactor
<1> QED
  BY <1>1, <1>3

\* The units of chunk i: as many as are left, and a chunk at the most.
ChunkIs(plain, i, cs, part) ==
    LET left == Len(plain) - i * cs IN
    /\ List(part) /\ Len(part) = IF cs < left THEN cs ELSE left
    /\ Len(part) >= 1 /\ Len(part) <= cs
    /\ \A j \in 1 .. Len(part) : part[j] = plain[i * cs + j]

LEMMA ChunkFacts ==
    ASSUME NEW plain, List(plain), NEW cs \in Nat, cs >= 1,
           NEW i \in 0 .. ChunkCount(Len(plain), cs) - 1
    PROVE  ChunkIs(plain, i, cs, Chunk(plain, i, cs)) /\ i * cs \in Nat
<1>1. PICK n \in Nat : n = Len(plain)
  BY ListMembers
<1>2. PICK m : m = ChunkCount(n, cs)
  OBVIOUS
<1>3. m \in Nat /\ m * cs < n + cs
  BY <1>2, CountCovers DEF Covers
<1>4. i \in Nat /\ i + 1 <= m
  BY <1>1, <1>2, <1>3
<1>5. PICK at \in Nat : at = i * cs
  BY <1>4, ProductIsNat
<1>6. (i + 1) * cs = at + cs
  <2>1. (i + 1) * cs = i * cs + 1 * cs
    BY <1>4, FactorsOut
  <2> QED
    BY <1>5, <2>1
<1>7. at < n
  <2>1. at + cs <= m * cs
    <3>1. m - (i + 1) \in Nat /\ (m - (i + 1)) + (i + 1) = m
      BY <1>3, <1>4
    <3>2. ((m - (i + 1)) + (i + 1)) * cs = (m - (i + 1)) * cs + (i + 1) * cs
      BY <1>4, <3>1, FactorsOut
    <3>3. (m - (i + 1)) * cs \in Nat
      BY <3>1, ProductIsNat
    <3> QED
      BY <1>6, <3>1, <3>2, <3>3
  <2>2. m * cs \in Nat
    BY <1>3, ProductIsNat
  <2> QED
    BY <1>3, <2>1, <2>2
<1>8. PICK hi : hi = IF at + cs < n THEN at + cs ELSE n
  OBVIOUS
<1>9. hi \in Nat /\ at + 1 <= hi /\ hi <= n /\ hi - at = IF cs < n - at THEN cs ELSE n - at
  BY <1>7, <1>8
<1>10. PICK part : part = SubSeq(plain, at + 1, hi)
  OBVIOUS
<1>11. Chunk(plain, i, cs) = part
  BY <1>1, <1>5, <1>6, <1>8, <1>10 DEF Chunk
<1>12. /\ part \in Seq(ToSet(part))
       /\ Len(part) = IF at + 1 <= hi THEN hi - (at + 1) + 1 ELSE 0
       /\ \A j \in 1 .. hi - (at + 1) + 1 : part[j] = plain[(at + 1) + j - 1]
  <2>1. at + 1 \in Int /\ hi \in Int /\ at + 1 >= 1 /\ hi <= Len(plain)
    BY <1>1, <1>9
  <2> QED
    BY <1>10, <2>1, CutCells DEF List
<1>13. hi - (at + 1) + 1 = hi - at /\ Len(part) = hi - at
  BY <1>9, <1>12
<1>14. \A j \in 1 .. Len(part) : part[j] = plain[at + j]
  <2>1. \A j \in 1 .. Len(part) : (at + 1) + j - 1 = at + j
    OBVIOUS
  <2> QED
    BY <1>12, <1>13, <2>1
<1>15. Len(part) >= 1 /\ Len(part) <= cs
  BY <1>7, <1>9, <1>13
<1>16. List(part)
  BY <1>12 DEF List
<1> QED
  BY <1>1, <1>5, <1>9, <1>11, <1>13, <1>14, <1>15, <1>16 DEF ChunkIs

\* The chaining values of the chunks of s, hashed from the input offset `from`.
Cvs(s, from, cs) ==
    [i \in 1 .. ChunkCount(Len(s), cs) |-> Subtree(Chunk(s, i - 1, cs), from + (i - 1) * cs)]

\* A part of s that begins at chunk q, and reaches to the end of its own chunk i if it does
\* not reach to the end of s.
PartAt(s, q, cs, part, i) ==
    /\ q * cs < Len(s) /\ Len(part) <= Len(s) - q * cs
    /\ \A j \in 1 .. Len(part) : part[j] = s[q * cs + j]
    /\ Len(part) = Len(s) - q * cs \/ (i + 1) * cs <= Len(part)

\* Its chunks are chunks of s.
LEMMA ChunksOfAPart ==
    ASSUME NEW s, List(s), NEW cs \in Nat, cs >= 1, NEW q \in Nat, NEW part, List(part),
           NEW i \in 0 .. ChunkCount(Len(part), cs) - 1, PartAt(s, q, cs, part, i),
           q + i \in 0 .. ChunkCount(Len(s), cs) - 1
    PROVE  Chunk(part, i, cs) = Chunk(s, q + i, cs)
<1>0. Len(s) \in Nat /\ Len(part) \in Nat /\ i \in Nat
  <2>1. ChunkCount(Len(part), cs) \in Nat
    BY ListMembers, CountCovers DEF Covers
  <2> QED
    BY <2>1, ListMembers
<1>1. PICK a : a = Chunk(part, i, cs)
  OBVIOUS
<1>2. PICK b : b = Chunk(s, q + i, cs)
  OBVIOUS
<1>3. ChunkIs(part, i, cs, a) /\ i * cs \in Nat
  BY <1>1, ChunkFacts
<1>4. ChunkIs(s, q + i, cs, b) /\ (q + i) * cs \in Nat
  BY <1>2, ChunkFacts
<1>5. PICK x \in Nat : x = i * cs
  BY <1>3
<1>6. PICK y \in Nat : y = q * cs
  BY ProductIsNat
<1>7. (q + i) * cs = y + x
  BY <1>0, <1>5, <1>6, FactorsOut
<1>8. (i + 1) * cs = x + cs
  <2>1. (i + 1) * cs = i * cs + 1 * cs
    BY <1>0, FactorsOut
  <2> QED
    BY <1>5, <2>1
<1>9. Len(a) = IF cs < Len(part) - x THEN cs ELSE Len(part) - x
  BY <1>3, <1>5 DEF ChunkIs
<1>10. Len(b) = IF cs < Len(s) - (y + x) THEN cs ELSE Len(s) - (y + x)
  BY <1>4, <1>7 DEF ChunkIs
<1>11. Len(part) = Len(s) - y \/ x + cs <= Len(part)
  BY <1>6, <1>8 DEF PartAt
<1>12. Len(a) = Len(b) /\ Len(a) <= Len(part) - x
  <2>1. Len(part) <= Len(s) - y
    BY <1>6 DEF PartAt
  <2>2. \A m, n, d, e \in Nat : m <= n - y /\ (m = n - y \/ x + cs <= m)
            /\ d = (IF cs < m - x THEN cs ELSE m - x)
            /\ e = (IF cs < n - (y + x) THEN cs ELSE n - (y + x)) => d = e /\ d <= m - x
    OBVIOUS
  <2>3. Len(a) \in Nat /\ Len(b) \in Nat
    BY <1>3, <1>4, ListMembers DEF ChunkIs
  <2> QED
    BY <1>0, <1>9, <1>10, <1>11, <2>1, <2>2, <2>3
<1>13. ASSUME NEW j \in 1 .. Len(a)
       PROVE  a[j] = b[j]
  <2>1. Len(a) \in Nat
    BY <1>3, ListMembers DEF ChunkIs
  <2>2. x + j \in 1 .. Len(part) /\ y + (x + j) = (y + x) + j
    BY <1>0, <1>12, <2>1
  <2>3. a[j] = part[x + j]
    BY <1>3, <1>5 DEF ChunkIs
  <2>4. b[j] = s[(y + x) + j]
    BY <1>4, <1>7, <1>12 DEF ChunkIs
  <2>5. part[x + j] = s[y + (x + j)]
    BY <1>6, <2>2 DEF PartAt
  <2> QED
    BY <2>2, <2>3, <2>4, <2>5
<1>14. List(a) /\ List(b)
  BY <1>3, <1>4 DEF ChunkIs
<1> QED
  BY <1>1, <1>2, <1>12, <1>13, <1>14, SameList

(***************************************************************************)
(* The chaining values of the chunks merge to the hash of the whole        *)
(***************************************************************************)
\* A chunk size that is a power of two divides the split of anything longer, and the
\* quotient is the split of the number of chunks.
LEMMA SplitOfChunks ==
    ASSUME NEW k \in Nat, NEW cs, cs = PowerOfTwo[k], NEW n \in Nat, n > cs,
           NEW p, Splits(n, p)
    PROVE  \E q \in Nat :
              /\ p = q * cs /\ Splits(ChunkCount(n, cs), q)
              /\ ChunkCount(p, cs) = q /\ ChunkCount(n - p, cs) = ChunkCount(n, cs) - q
<1>0. cs \in Nat /\ cs >= 1
  BY PowerOfTwoFacts
<1>1. PICK j \in Nat : p = PowerOfTwo[j]
  BY DEF Splits
<1>2. p \in 1 .. n - 1 /\ n <= 2 * p /\ p \in Nat
  BY DEF Splits
<1>3. j >= k
  <2>1. ASSUME j < k
        PROVE  FALSE
    <3>1. k - j - 1 \in Nat /\ j + (k - j - 1) + 1 = k
      BY <2>1
    <3>2. 2 * PowerOfTwo[j] <= PowerOfTwo[k]
      BY <3>1, PowersGrow
    <3> QED
      BY <1>0, <1>1, <1>2, <3>2
  <2> QED
    BY <2>1
<1>4. PICK d \in Nat : j = k + d
  <2>1. j - k \in Nat /\ j = k + (j - k)
    BY <1>3
  <2> QED
    BY <2>1
<1>5. PICK q : q = PowerOfTwo[d]
  OBVIOUS
<1>6. q \in Nat /\ q >= 1
  BY <1>5, PowerOfTwoFacts
<1>7. p = q * cs
  <2>1. p = cs * q
    BY <1>1, <1>4, <1>5, PowersDivide
  <2>2. cs * q = q * cs
    BY <1>0, <1>6
  <2> QED
    BY <2>1, <2>2
<1>8. PICK m : m = ChunkCount(n, cs)
  OBVIOUS
<1>9. m \in Nat /\ n <= m * cs /\ m * cs < n + cs /\ m * cs \in Nat
  BY <1>0, <1>8, CountCovers, ProductIsNat DEF Covers
<1>10. q < m
  <2>1. ASSUME m <= q
        PROVE  FALSE
    <3>1. q - m \in Nat /\ (q - m) + m = q
      BY <1>6, <1>9, <2>1
    <3>2. ((q - m) + m) * cs = (q - m) * cs + m * cs /\ (q - m) * cs \in Nat
      BY <1>0, <1>9, <3>1, FactorsOut, ProductIsNat
    <3> QED
      BY <1>2, <1>7, <1>9, <3>1, <3>2
  <2> QED
    BY <1>6, <1>9, <2>1
<1>11. m <= 2 * q
  <2>1. 2 * q \in Int /\ (2 * q) * cs = 2 * p
    <3>1. 2 * q = q + q /\ (q + q) * cs = q * cs + q * cs
      BY <1>0, <1>6, FactorsOut
    <3> QED
      BY <1>2, <1>6, <1>7, <3>1
  <2>2. m * cs < (2 * q) * cs + cs
    BY <1>0, <1>2, <1>9, <2>1
  <2> QED
    BY <1>0, <1>9, <2>1, <2>2, SmallerFactor
<1>12. Splits(m, q)
  <2>1. q \in 1 .. m - 1
    BY <1>6, <1>9, <1>10
  <2> QED
    BY <1>5, <1>11, <2>1 DEF Splits
<1>13. ChunkCount(p, cs) = q
  <2>1. Covers(p, q, cs)
    BY <1>0, <1>2, <1>6, <1>7 DEF Covers
  <2> QED
    BY <1>0, <1>2, <2>1, CountCovers, OneCover
<1>14. ChunkCount(n - p, cs) = m - q
  <2>1. m - q \in Nat /\ (m - q) + q = m /\ n - p \in Nat
    BY <1>2, <1>6, <1>9, <1>10
  <2>2. ((m - q) + q) * cs = (m - q) * cs + q * cs /\ (m - q) * cs \in Nat
    BY <1>0, <1>6, <2>1, FactorsOut, ProductIsNat
  <2>3. PICK x \in Nat : x = (m - q) * cs
    BY <2>2
  <2>4. m * cs = x + p
    BY <1>7, <2>1, <2>2, <2>3
  <2>5. n - p <= x /\ x < (n - p) + cs
    BY <1>0, <1>2, <1>9, <2>4
  <2>6. Covers(n - p, m - q, cs)
    BY <2>1, <2>3, <2>5 DEF Covers
  <2> QED
    BY <1>0, <2>1, <2>6, CountCovers, OneCover
<1> QED
  BY <1>6, <1>7, <1>8, <1>12, <1>13, <1>14

Whole(s, from, cs) == MergeNonRoot(Cvs(s, from, cs)) = Subtree(s, from)

\* One chunk is its own chaining value.
LEMMA OneChunk ==
    ASSUME NEW s, List(s), Len(s) >= 1, NEW cs \in Nat, Len(s) <= cs, NEW from \in Nat
    PROVE  Whole(s, from, cs) /\ Len(Cvs(s, from, cs)) = 1
<1>1. Len(s) \in Nat
  BY ListMembers
<1>2. ChunkCount(Len(s), cs) = 1
  <2>1. Covers(Len(s), 1, cs)
    <3>1. 1 * cs = cs
      OBVIOUS
    <3> QED
      BY <1>1, <3>1 DEF Covers
  <2> QED
    BY <1>1, <2>1, CountCovers, OneCover
<1>3. Chunk(s, 0, cs) = s
  <2>1. PICK c : c = Chunk(s, 0, cs)
    OBVIOUS
  <2>2. ChunkIs(s, 0, cs, c)
    <3>1. 0 \in 0 .. ChunkCount(Len(s), cs) - 1
      BY <1>2
    <3> QED
      BY <1>1, <2>1, <3>1, ChunkFacts
  <2>3. 0 * cs = 0
    OBVIOUS
  <2>4. Len(c) = Len(s)
    BY <1>1, <2>2, <2>3 DEF ChunkIs
  <2>5. \A j \in 1 .. Len(c) : c[j] = s[j]
    <3>1. \A j \in 1 .. Len(c) : c[j] = s[0 + j] /\ 0 + j = j
      BY <2>2, <2>3 DEF ChunkIs
    <3> QED
      BY <3>1
  <2>6. c = s
    BY <2>2, <2>4, <2>5, SameList DEF ChunkIs
  <2> QED
    BY <2>1, <2>6
<1>4. Len(Cvs(s, from, cs)) = 1 /\ Cvs(s, from, cs)[1] = Subtree(s, from)
  <2>1. Cvs(s, from, cs) = [i \in 1 .. 1 |-> Subtree(Chunk(s, i - 1, cs), from + (i - 1) * cs)]
    BY <1>2 DEF Cvs
  <2>2. 1 - 1 = 0 /\ from + (1 - 1) * cs = from
    OBVIOUS
  <2> QED
    BY <1>3, <2>1, <2>2
<1> QED
  BY <1>4, MergeOfOne DEF Whole

\* Two lists that make up s.
MakeUp(s, p, l, r) ==
    /\ List(l) /\ Len(l) = p /\ \A i \in 1 .. p : l[i] = s[i]
    /\ List(r) /\ Len(r) = Len(s) - p /\ \A i \in 1 .. Len(s) - p : r[i] = s[p + i]

LEMMA CvsFacts ==
    ASSUME NEW s, List(s), NEW cs \in Nat, cs >= 1, NEW from
    PROVE  /\ ChunkCount(Len(s), cs) \in Nat /\ Len(Cvs(s, from, cs)) = ChunkCount(Len(s), cs)
           /\ List(Cvs(s, from, cs))
           /\ \A i \in 1 .. ChunkCount(Len(s), cs) :
                Cvs(s, from, cs)[i] = Subtree(Chunk(s, i - 1, cs), from + (i - 1) * cs)
<1>1. ChunkCount(Len(s), cs) \in Nat
  BY ListMembers, CountCovers DEF Covers
<1>2. Cvs(s, from, cs) = [i \in 1 .. ChunkCount(Len(s), cs) |-> Cvs(s, from, cs)[i]]
  BY DEF Cvs
<1>3. List(Cvs(s, from, cs)) /\ Len(Cvs(s, from, cs)) = ChunkCount(Len(s), cs)
  BY <1>1, <1>2, MadeList
<1> QED
  BY <1>1, <1>3 DEF Cvs

\* A list of chaining values and the two the code parts it into.
Joins(cvs, left, right) ==
    /\ Len(cvs) \in Nat /\ Len(cvs) >= 2
    /\ Len(left) = BlakeSplit(Len(cvs)) /\ Len(right) = Len(cvs) - Len(left)
    /\ \A i \in 1 .. Len(left) : left[i] = cvs[i]
    /\ \A i \in 1 .. Len(right) : right[i] = cvs[Len(left) + i]

LEMMA JoinsMerge ==
    ASSUME NEW cvs, NEW left, NEW right, Joins(cvs, left, right)
    PROVE  MergeNonRoot(cvs) = <<"node", MergeNonRoot(left), MergeNonRoot(right)>>
<1>1. /\ Len(cvs) \in Nat /\ Len(cvs) >= 2
      /\ Len(left) = BlakeSplit(Len(cvs)) /\ Len(right) = Len(cvs) - BlakeSplit(Len(cvs))
      /\ \A i \in 1 .. Len(left) : left[i] = cvs[i]
      /\ \A i \in 1 .. Len(right) : right[i] = cvs[Len(left) + i]
  BY DEF Joins
<1> QED
  BY <1>1, MergeSplits

\* Parting s at its split parts its chaining values at theirs.
LEMMA CvsSplit ==
    ASSUME NEW k \in Nat, NEW cs, cs = PowerOfTwo[k], NEW s, List(s), Len(s) > cs,
           NEW from \in Nat, NEW p, Splits(Len(s), p), NEW l, NEW r, MakeUp(s, p, l, r)
    PROVE  Joins(Cvs(s, from, cs), Cvs(l, from, cs), Cvs(r, from + p, cs))
<1>0. cs \in Nat /\ cs >= 1 /\ Len(s) \in Nat /\ Len(s) >= 2
  <2>1. cs \in Nat /\ cs >= 1 /\ Len(s) \in Nat
    BY PowerOfTwoFacts, ListMembers
  <2> QED
    BY <2>1
<1>1. p \in 1 .. Len(s) - 1
  BY DEF Splits
<1>2. PICK m : m = ChunkCount(Len(s), cs)
  OBVIOUS
<1>3. PICK q \in Nat : /\ p = q * cs /\ Splits(m, q)
                       /\ ChunkCount(p, cs) = q /\ ChunkCount(Len(s) - p, cs) = m - q
  BY <1>0, <1>1, <1>2, SplitOfChunks
<1>4. /\ List(l) /\ Len(l) = p /\ \A i \in 1 .. p : l[i] = s[i]
      /\ List(r) /\ Len(r) = Len(s) - p /\ \A i \in 1 .. Len(s) - p : r[i] = s[p + i]
  BY DEF MakeUp
<1>5. PICK cvs : cvs = Cvs(s, from, cs)
  OBVIOUS
<1>6. PICK left : left = Cvs(l, from, cs)
  OBVIOUS
<1>7. PICK right : right = Cvs(r, from + p, cs)
  OBVIOUS
<1>8. /\ m \in Nat /\ Len(cvs) = m
      /\ \A i \in 1 .. m : cvs[i] = Subtree(Chunk(s, i - 1, cs), from + (i - 1) * cs)
  BY <1>0, <1>2, <1>5, CvsFacts
<1>9. /\ Len(left) = q
      /\ \A i \in 1 .. q : left[i] = Subtree(Chunk(l, i - 1, cs), from + (i - 1) * cs)
  <2>1. /\ Len(left) = ChunkCount(Len(l), cs)
        /\ \A i \in 1 .. ChunkCount(Len(l), cs) :
              left[i] = Subtree(Chunk(l, i - 1, cs), from + (i - 1) * cs)
    BY <1>0, <1>4, <1>6, CvsFacts
  <2>2. ChunkCount(Len(l), cs) = q
    BY <1>3, <1>4
  <2> QED
    BY <2>1, <2>2
<1>10. /\ Len(right) = m - q
       /\ \A i \in 1 .. m - q :
             right[i] = Subtree(Chunk(r, i - 1, cs), (from + p) + (i - 1) * cs)
  <2>1. /\ Len(right) = ChunkCount(Len(r), cs)
        /\ \A i \in 1 .. ChunkCount(Len(r), cs) :
              right[i] = Subtree(Chunk(r, i - 1, cs), (from + p) + (i - 1) * cs)
    <3>1. PICK at : at = from + p
      OBVIOUS
    <3>2. right = Cvs(r, at, cs)
      BY <1>7, <3>1
    <3>3. /\ Len(right) = ChunkCount(Len(r), cs)
          /\ \A i \in 1 .. ChunkCount(Len(r), cs) :
                right[i] = Subtree(Chunk(r, i - 1, cs), at + (i - 1) * cs)
      BY <1>0, <1>4, <3>2, CvsFacts
    <3> QED
      BY <3>1, <3>3
  <2>2. ChunkCount(Len(r), cs) = m - q
    BY <1>3, <1>4
  <2> QED
    BY <2>1, <2>2
<1>11. q \in 1 .. m - 1 /\ m >= 2
  <2>1. q \in 1 .. m - 1
    BY <1>3 DEF Splits
  <2> QED
    BY <1>8, <2>1
<1>12. q = BlakeSplit(m)
  <2>1. Splits(m, BlakeSplit(m))
    BY <1>8, <1>11, SplitsAgree
  <2> QED
    BY <1>3, <1>8, <2>1, OneSplit
<1>13. ASSUME NEW i \in 1 .. q
       PROVE  left[i] = cvs[i]
  <2>1. i - 1 \in 0 .. q - 1 /\ i \in 1 .. m /\ 0 + (i - 1) = i - 1 /\ i - 1 \in 0 .. m - 1
    BY <1>8, <1>11
  <2>2. 0 * cs = 0 /\ i * cs <= q * cs
    <3>1. (q - i) + i = q /\ q - i \in Nat /\ i \in Nat
      BY <1>3
    <3>2. ((q - i) + i) * cs = (q - i) * cs + i * cs /\ (q - i) * cs \in Nat
          /\ i * cs \in Nat
      BY <1>0, <3>1, FactorsOut, ProductIsNat
    <3>3. 0 * cs = 0
      BY <1>0
    <3> QED
      BY <3>1, <3>2, <3>3
  <2>3. Chunk(l, i - 1, cs) = Chunk(s, 0 + (i - 1), cs)
    <3>1. 0 * cs < Len(s) /\ Len(l) <= Len(s) - 0 * cs /\ 0 \in Nat
      <4>1. Len(l) \in Nat /\ Len(l) <= Len(s) /\ Len(s) \in Nat /\ 0 < Len(s)
        BY <1>0, <1>1, <1>4
      <4> QED
        BY <2>2, <4>1
    <3>2. \A j \in 1 .. Len(l) : l[j] = s[0 * cs + j]
      <4>1. \A j \in 1 .. Len(l) : 0 * cs + j = j
        BY <2>2
      <4> QED
        BY <1>4, <4>1
    <3>3. i - 1 \in 0 .. ChunkCount(Len(l), cs) - 1 /\ 0 + (i - 1) \in 0 .. ChunkCount(Len(s), cs) - 1
      BY <1>2, <1>3, <1>4, <2>1
    <3>4. ((i - 1) + 1) * cs <= Len(l)
      <4>1. (i - 1) + 1 = i
        OBVIOUS
      <4> QED
        BY <1>3, <1>4, <2>2, <4>1
    <3>5. List(l) /\ cs \in Nat /\ cs >= 1
      BY <1>0, <1>4
    <3>6. PartAt(s, 0, cs, l, i - 1)
      BY <3>1, <3>2, <3>4 DEF PartAt
    <3> QED
      BY <3>1, <3>3, <3>5, <3>6, ChunksOfAPart
  <2> QED
    BY <1>8, <1>9, <2>1, <2>3
<1>14. ASSUME NEW i \in 1 .. m - q
       PROVE  right[i] = cvs[q + i]
  <2>1. i - 1 \in 0 .. (m - q) - 1 /\ q + i \in 1 .. m /\ q + (i - 1) = (q + i) - 1
        /\ q + (i - 1) \in 0 .. m - 1 /\ i - 1 \in Nat
    BY <1>3, <1>8, <1>11
  <2>2. Chunk(r, i - 1, cs) = Chunk(s, q + (i - 1), cs)
    <3>1. q * cs < Len(s) /\ Len(r) <= Len(s) - q * cs /\ Len(r) = Len(s) - q * cs
      <4>1. p \in Nat /\ p < Len(s) /\ Len(s) \in Nat /\ Len(r) = Len(s) - p
        BY <1>0, <1>1, <1>4
      <4> QED
        BY <1>3, <4>1
    <3>2. \A j \in 1 .. Len(r) : r[j] = s[q * cs + j]
      BY <1>3, <1>4
    <3>3. i - 1 \in 0 .. ChunkCount(Len(r), cs) - 1 /\ q + (i - 1) \in 0 .. ChunkCount(Len(s), cs) - 1
      BY <1>2, <1>3, <1>4, <2>1
    <3>4. List(r) /\ cs \in Nat /\ cs >= 1
      BY <1>0, <1>4
    <3>5. PartAt(s, q, cs, r, i - 1)
      BY <3>1, <3>2 DEF PartAt
    <3> QED
      BY <3>3, <3>4, <3>5, ChunksOfAPart
  <2>3. (from + p) + (i - 1) * cs = from + ((q + i) - 1) * cs
    <3>1. (q + (i - 1)) * cs = q * cs + (i - 1) * cs
      BY <1>0, <1>3, <2>1, FactorsOut
    <3>2. PICK x \in Nat : x = (i - 1) * cs
      BY <1>0, <2>1, ProductIsNat
    <3>3. ((q + i) - 1) * cs = p + x
      BY <1>3, <2>1, <3>1, <3>2
    <3>4. (from + p) + x = from + (p + x)
      BY <1>1, <3>2
    <3> QED
      BY <3>2, <3>3, <3>4
  <2> QED
    BY <1>8, <1>10, <2>1, <2>2, <2>3
<1>15. Joins(cvs, left, right)
  BY <1>8, <1>9, <1>10, <1>11, <1>12, <1>13, <1>14 DEF Joins
<1> QED
  BY <1>5, <1>6, <1>7, <1>15

LEMMA MergedIsWhole ==
    ASSUME NEW k \in Nat, NEW cs, cs = PowerOfTwo[k],
           NEW s, List(s), Len(s) >= 1, NEW from \in Nat
    PROVE  Whole(s, from, cs)
<1>0. cs \in Nat /\ cs >= 1
  <2>1. PowerOfTwo[k] \in Nat \ {0}
    BY PowerOfTwoFacts
  <2> QED
    BY <2>1
<1> DEFINE S == {n \in Nat : \A t, u : /\ List(t) /\ Len(t) = n /\ Len(t) >= 1 /\ u \in Nat
                                       => Whole(t, u, cs)}
<1>1. ASSUME NEW n \in Nat, \A m \in 0 .. n - 1 : m \in S
      PROVE  n \in S
  <2> SUFFICES ASSUME NEW t, NEW u \in Nat, List(t), Len(t) = n, Len(t) >= 1
               PROVE  Whole(t, u, cs)
    OBVIOUS
  <2>1. CASE n <= cs
    BY <1>0, <2>1, OneChunk
  <2>2. CASE n > cs
    <3>1. PICK p : p = BlakeSplit(n)
      OBVIOUS
    <3>2. PICK l : l = SubSeq(t, 1, p)
      OBVIOUS
    <3>3. PICK r : r = SubSeq(t, p + 1, n)
      OBVIOUS
    <3>4. n >= 2
      BY <1>0, <2>2
    <3>5. /\ p \in 1 .. n - 1
          /\ Subtree(t, u) = <<"node", Subtree(l, u), Subtree(r, u + p)>>
      BY <3>1, <3>2, <3>3, <3>4, SubtreeSplits
    <3>6. List(l) /\ Len(l) = p /\ List(r) /\ Len(r) = n - p
      BY <3>2, <3>3, <3>5, Halves
    <3>7. PICK cvs : cvs = Cvs(t, u, cs)
      OBVIOUS
    <3>8. PICK left : left = Cvs(l, u, cs)
      OBVIOUS
    <3>9. PICK right : right = Cvs(r, u + p, cs)
      OBVIOUS
    <3>10. Joins(cvs, left, right)
      <4>1. Len(t) > cs /\ Splits(Len(t), p)
        BY <2>2, <3>1, <3>4, SplitsAgree
      <4>2. MakeUp(t, p, l, r)
        BY <3>2, <3>3, <3>5, Halves DEF MakeUp
      <4> QED
        BY <3>7, <3>8, <3>9, <4>1, <4>2, CvsSplit
    <3>11. MergeNonRoot(cvs) = <<"node", MergeNonRoot(left), MergeNonRoot(right)>>
      BY <3>10, JoinsMerge
    <3>12. p \in S /\ n - p \in S
      <4>1. p \in 0 .. n - 1 /\ n - p \in 0 .. n - 1
        BY <3>5
      <4> QED
        BY <1>1, <4>1
    <3>13. u + p \in Nat /\ p >= 1 /\ n - p >= 1
      BY <3>5
    <3>14. Whole(l, u, cs) /\ Whole(r, u + p, cs)
      BY <3>6, <3>12, <3>13
    <3> QED
      BY <3>5, <3>7, <3>8, <3>9, <3>11, <3>14 DEF Whole
  <2> QED
    BY <1>0, <2>1, <2>2
<1>2. \A n \in Nat : n \in S
  <2> HIDE DEF S
  <2> QED
    BY <1>1, StrongSetInduction
<1>3. Len(s) \in S
  BY <1>2, ListMembers
<1> QED
  BY <1>3

(***************************************************************************)
(* The root of an index                                                    *)
(***************************************************************************)
\* The whole list and its two parts, as RootFromCvs takes them.
RootMade(cvs, l, r) ==
    /\ Splits(Len(cvs), Len(l)) /\ MakeUp(cvs, Len(l), l, r)
    /\ MergeNonRoot(cvs) = <<"node", MergeNonRoot(l), MergeNonRoot(r)>>
    /\ RootFromCvs(cvs) = Ok(<<"root", MergeNonRoot(l), MergeNonRoot(r)>>)

LEMMA RootParts ==
    ASSUME NEW cvs, List(cvs), Len(cvs) >= 2
    PROVE  \E l, r : RootMade(cvs, l, r)
<1>0. Len(cvs) \in Nat /\ ~(Len(cvs) < 2)
  <2>1. \A n \in Nat : n >= 2 => ~(n < 2)
    OBVIOUS
  <2> QED
    BY <2>1, ListMembers
<1>1. PICK p : p = BlakeSplit(Len(cvs))
  OBVIOUS
<1>2. Splits(Len(cvs), p) /\ SplitCanonical(Len(cvs)) = p /\ p \in 1 .. Len(cvs) - 1
  BY <1>0, <1>1, SplitsAgree DEF Splits
<1>3. PICK l : l = SubSeq(cvs, 1, p)
  OBVIOUS
<1>4. PICK r : r = SubSeq(cvs, p + 1, Len(cvs))
  OBVIOUS
<1>5. MakeUp(cvs, p, l, r) /\ Len(l) = p
  BY <1>2, <1>3, <1>4, Halves DEF MakeUp
<1>6. RootFromCvs(cvs) = Ok(<<"root", MergeNonRoot(l), MergeNonRoot(r)>>)
  BY <1>0, <1>2, <1>3, <1>4 DEF RootFromCvs
<1>7. Joins(cvs, l, r)
  BY <1>0, <1>1, <1>5 DEF Joins, MakeUp
<1> QED
  BY <1>2, <1>5, <1>6, <1>7, JoinsMerge DEF RootMade

LEMMA SameMakeUp ==
    ASSUME NEW c, List(c), NEW d, List(d), NEW p \in 1 .. Len(c) - 1,
           NEW l, NEW r, MakeUp(c, p, l, r), MakeUp(d, p, l, r)
    PROVE  c = d
<1>0. Len(c) \in Nat /\ Len(d) \in Nat
  BY ListMembers
<1>1. Len(c) = Len(d)
  BY <1>0 DEF MakeUp
<1>2. ASSUME NEW i \in 1 .. Len(c)
      PROVE  c[i] = d[i]
  <2>1. CASE i <= p
    BY <2>1 DEF MakeUp
  <2>2. CASE ~(i <= p)
    <3>1. i - p \in 1 .. Len(c) - p /\ p + (i - p) = i
      BY <1>0, <2>2
    <3> QED
      BY <1>1, <3>1 DEF MakeUp
  <2> QED
    BY <2>1, <2>2
<1> QED
  BY <1>1, <1>2, SameList

\* Two lists of the same length merge to the same value only if they are the same.
MergeAlike(c, d, n) ==
    /\ List(c) /\ Len(c) = n /\ n >= 1 /\ List(d) /\ Len(d) = n
    /\ MergeNonRoot(c) = MergeNonRoot(d)

LEMMA MergeTellsCvs ==
    ASSUME NEW a, List(a), Len(a) >= 1, NEW b, List(b), Len(b) = Len(a),
           MergeNonRoot(a) = MergeNonRoot(b)
    PROVE  a = b
<1> DEFINE S == {n \in Nat : \A c, d : MergeAlike(c, d, n) => c = d}
<1>1. ASSUME NEW n \in Nat, \A m \in 0 .. n - 1 : m \in S
      PROVE  n \in S
  <2> SUFFICES ASSUME NEW c, NEW d, MergeAlike(c, d, n)
               PROVE  c = d
    OBVIOUS
  <2>0. /\ List(c) /\ Len(c) = n /\ n >= 1 /\ List(d) /\ Len(d) = n
        /\ MergeNonRoot(c) = MergeNonRoot(d)
    BY DEF MergeAlike
  <2>1. CASE n = 1
    <3>1. c[1] = d[1]
      BY <2>0, <2>1, MergeOfOne
    <3> QED
      BY <2>0, <2>1, <3>1, SameList
  <2>2. CASE n >= 2
    <3>a. PICK l, r : RootMade(c, l, r)
      BY <2>0, <2>2, RootParts
    <3>b. PICK x, y : RootMade(d, x, y)
      BY <2>0, <2>2, RootParts
    <3>1. /\ Splits(n, Len(l)) /\ MakeUp(c, Len(l), l, r)
          /\ MergeNonRoot(c) = <<"node", MergeNonRoot(l), MergeNonRoot(r)>>
      BY <2>0, <3>a DEF RootMade
    <3>2. /\ Splits(n, Len(x)) /\ MakeUp(d, Len(x), x, y)
          /\ MergeNonRoot(d) = <<"node", MergeNonRoot(x), MergeNonRoot(y)>>
      BY <2>0, <3>b DEF RootMade
    <3>3. Len(x) = Len(l)
      BY <3>1, <3>2, OneSplit
    <3>4. PICK p : p = Len(l)
      OBVIOUS
    <3>5. p \in 1 .. n - 1
      BY <3>1, <3>4 DEF Splits
    <3>6. /\ List(l) /\ Len(l) = p /\ List(r) /\ Len(r) = n - p
          /\ List(x) /\ Len(x) = p /\ List(y) /\ Len(y) = n - p
      BY <2>0, <3>1, <3>2, <3>3, <3>4 DEF MakeUp
    <3>7. p \in 0 .. n - 1 /\ n - p \in 0 .. n - 1 /\ p >= 1 /\ n - p >= 1
      BY <3>5
    <3>8. p \in S /\ n - p \in S
      BY <1>1, <3>7
    <3>9. MergeNonRoot(l) = MergeNonRoot(x) /\ MergeNonRoot(r) = MergeNonRoot(y)
      <4>1. <<"node", MergeNonRoot(l), MergeNonRoot(r)>> = <<"node", MergeNonRoot(x), MergeNonRoot(y)>>
        BY <2>0, <3>1, <3>2
      <4> QED
        BY <4>1, SameTriple
    <3>10. l = x /\ r = y
      <4>1. MergeAlike(l, x, p) /\ MergeAlike(r, y, n - p)
        BY <3>6, <3>7, <3>9 DEF MergeAlike
      <4> QED
        BY <3>8, <4>1
    <3>11. MakeUp(c, p, l, r) /\ MakeUp(d, p, l, r)
      BY <3>1, <3>2, <3>3, <3>4, <3>10
    <3> QED
      BY <2>0, <3>5, <3>11, SameMakeUp
  <2> QED
    BY <2>0, <2>1, <2>2
<1>2. \A n \in Nat : n \in S
  <2> HIDE DEF S
  <2> QED
    BY <1>1, StrongSetInduction
<1>3. Len(a) \in S
  BY <1>2, ListMembers
<1>4. MergeAlike(a, b, Len(a))
  BY DEF MergeAlike
<1> QED
  BY <1>3, <1>4

LEMMA SameResult ==
    ASSUME NEW x, NEW y, Ok(x) = Ok(y)
    PROVE  x = y
<1>1. Ok(x).value = x /\ Ok(y).value = y
  BY DEF Ok
<1> QED
  BY <1>1

LEMMA RootTellsCvs ==
    ASSUME NEW a, List(a), Len(a) >= 2, NEW b, List(b), Len(b) = Len(a),
           RootFromCvs(a) = RootFromCvs(b)
    PROVE  a = b
<1>0. Len(a) \in Nat
  BY ListMembers
<1>1. PICK l, r : RootMade(a, l, r)
  BY RootParts
<1>2. PICK x, y : RootMade(b, x, y)
  BY RootParts
<1>3. <<"root", MergeNonRoot(l), MergeNonRoot(r)>> = <<"root", MergeNonRoot(x), MergeNonRoot(y)>>
  <2>1. Ok(<<"root", MergeNonRoot(l), MergeNonRoot(r)>>)
            = Ok(<<"root", MergeNonRoot(x), MergeNonRoot(y)>>)
    BY <1>1, <1>2 DEF RootMade
  <2> QED
    BY <2>1, SameResult
<1>4. MergeNonRoot(a) = MergeNonRoot(b)
  <2>1. MergeNonRoot(l) = MergeNonRoot(x) /\ MergeNonRoot(r) = MergeNonRoot(y)
    BY <1>3, SameTriple
  <2> QED
    BY <1>1, <1>2, <2>1 DEF RootMade
<1>5. Len(a) >= 1
  <2>1. \A n \in Nat : n >= 2 => n >= 1
    OBVIOUS
  <2> QED
    BY <1>0, <2>1
<1> QED
  BY <1>4, <1>5, MergeTellsCvs

\* The chaining values of two chunks or more reduce to the hash of the whole.
LEMMA RootOfCvs ==
    ASSUME NEW k \in Nat, NEW cs, cs = PowerOfTwo[k], NEW s, List(s), ChunkCount(Len(s), cs) >= 2
    PROVE  RootFromCvs(Cvs(s, 0, cs)) = Ok(Hash(s))
<1>0. cs \in Nat /\ cs >= 1 /\ Len(s) \in Nat
  <2>1. PowerOfTwo[k] \in Nat \ {0}
    BY PowerOfTwoFacts
  <2> QED
    BY <2>1, ListMembers
<1>1. Len(s) > cs
  <2>1. Covers(Len(s), ChunkCount(Len(s), cs), cs)
    BY <1>0, CountCovers
  <2>2. PICK m : m = ChunkCount(Len(s), cs)
    OBVIOUS
  <2>3. m \in Nat /\ m >= 2 /\ m * cs < Len(s) + cs
    BY <2>1, <2>2 DEF Covers
  <2>4. (m - 2) + 2 = m /\ m - 2 \in Nat
    BY <2>3
  <2>5. ((m - 2) + 2) * cs = (m - 2) * cs + 2 * cs /\ (m - 2) * cs \in Nat
    BY <1>0, <2>4, FactorsOut, ProductIsNat
  <2>6. PICK x \in Nat : x = (m - 2) * cs
    BY <2>5
  <2>7. x + 2 * cs < Len(s) + cs
    BY <2>3, <2>4, <2>5, <2>6
  <2> QED
    BY <1>0, <2>7
<1>2. PICK p : p = BlakeSplit(Len(s))
  OBVIOUS
<1>3. Len(s) >= 2 /\ ~(Len(s) = 0) /\ ~(Len(s) = 1)
  <2>1. \A m, n \in Nat : m >= 1 /\ n > m => n >= 2 /\ n # 0 /\ n # 1
    OBVIOUS
  <2> QED
    BY <1>0, <1>1, <2>1
<1>4. Splits(Len(s), p) /\ p \in 1 .. Len(s) - 1
  BY <1>0, <1>2, <1>3, SplitsAgree DEF Splits
<1>5. PICK l : l = SubSeq(s, 1, p)
  OBVIOUS
<1>6. PICK r : r = SubSeq(s, p + 1, Len(s))
  OBVIOUS
<1>7. Hash(s) = <<"root", Subtree(l, 0), Subtree(r, p)>>
  BY <1>2, <1>3, <1>5, <1>6 DEF Hash
<1>8. MakeUp(s, p, l, r)
  BY <1>4, <1>5, <1>6, Halves DEF MakeUp
<1>9. Joins(Cvs(s, 0, cs), Cvs(l, 0, cs), Cvs(r, 0 + p, cs))
  BY <1>1, <1>4, <1>8, CvsSplit
<1>10. PICK cvs : cvs = Cvs(s, 0, cs)
  OBVIOUS
<1>11. PICK left : left = Cvs(l, 0, cs)
  OBVIOUS
<1>12. PICK right : right = Cvs(r, p, cs)
  OBVIOUS
<1>13. Joins(cvs, left, right)
  <2>1. 0 + p = p
    BY <1>4
  <2> QED
    BY <1>9, <1>10, <1>11, <1>12, <2>1
<1>14. List(cvs) /\ List(left) /\ List(right)
  BY <1>0, <1>8, <1>10, <1>11, <1>12, CvsFacts DEF MakeUp
<1>a. PICK x, y : RootMade(cvs, x, y)
  <2>1. Len(cvs) >= 2
    BY <1>13 DEF Joins
  <2> QED
    BY <1>14, <2>1, RootParts
<1>15. /\ Splits(Len(cvs), Len(x)) /\ MakeUp(cvs, Len(x), x, y)
       /\ RootFromCvs(cvs) = Ok(<<"root", MergeNonRoot(x), MergeNonRoot(y)>>)
  BY <1>a DEF RootMade
<1>16. x = left /\ y = right
  <2>1. Len(x) = Len(left) /\ Len(cvs) \in Nat
    <3>1. Len(cvs) \in Nat /\ Len(cvs) >= 2 /\ Len(left) = BlakeSplit(Len(cvs))
      BY <1>13 DEF Joins
    <3>2. Splits(Len(cvs), Len(left))
      BY <3>1, SplitsAgree
    <3> QED
      BY <1>15, <3>1, <3>2, OneSplit
  <2>2. x = left
    <3>1. \A i \in 1 .. Len(x) : x[i] = left[i]
      BY <1>13, <1>15, <2>1 DEF Joins, MakeUp
    <3> QED
      BY <1>14, <1>15, <2>1, <3>1, SameList DEF MakeUp
  <2>3. Len(y) = Len(right)
    BY <1>13, <1>15, <2>1 DEF Joins, MakeUp
  <2>4. \A i \in 1 .. Len(y) : y[i] = right[i]
    BY <1>13, <1>15, <2>1, <2>3 DEF Joins, MakeUp
  <2>5. y = right
    BY <1>14, <1>15, <2>3, <2>4, SameList DEF MakeUp
  <2> QED
    BY <2>2, <2>5
<1>17. MergeNonRoot(left) = Subtree(l, 0) /\ MergeNonRoot(right) = Subtree(r, p)
  <2>1. /\ List(l) /\ Len(l) >= 1 /\ List(r) /\ Len(r) >= 1 /\ p \in Nat /\ 0 \in Nat
    <3>1. p >= 1 /\ Len(s) - p >= 1 /\ p \in Nat
      BY <1>0, <1>4
    <3> QED
      BY <1>8, <3>1 DEF MakeUp
  <2>2. Whole(l, 0, cs) /\ Whole(r, p, cs)
    BY <2>1, MergedIsWhole
  <2> QED
    BY <1>11, <1>12, <2>2 DEF Whole
<1> QED
  BY <1>7, <1>10, <1>15, <1>16, <1>17

(***************************************************************************)
(* Building an index and checking against one                              *)
(***************************************************************************)
LEMMA ValidSize ==
    ASSUME NEW cs, ValidChunkSize(cs)
    PROVE  cs \in Nat /\ cs >= 1 /\ \E k \in Nat : cs = PowerOfTwo[k]
<1>1. PICK k \in 0 .. cs : cs = PowerOfTwo[k]
  BY DEF ValidChunkSize
<1>2. cs \in MinChunk .. MaxChunk
  BY DEF ValidChunkSize
<1>3. cs \in Nat /\ cs >= 1
  BY <1>2, ChunkTreeAssumption
<1> QED
  BY <1>1, <1>3

\* An index that was built holds the chaining value of every chunk, and reduces to the
\* hash of the content: what the writer states as the root of a chunked section is its
\* BLAKE3 hash (chunk.rs, root_from_cvs).
THEOREM BuiltIndex ==
    ASSUME NEW plain, List(plain), NEW cs \in Nat, cs # 0, BuildIndex(plain, cs).ok,
           ChunkCount(Len(plain), cs) >= 2,
           NEW index, index = BuildIndex(plain, cs).value
    PROVE  /\ [i \in DOMAIN index |-> CvOf(index[i])] = Cvs(plain, 0, cs)
           /\ RootFromCvs([i \in DOMAIN index |-> CvOf(index[i])]) = Ok(Hash(plain))
<1> DEFINE m == ChunkCount(Len(plain), cs)
           cvs == [i \in 1 .. m |-> ChunkCv(Chunk(plain, i - 1, cs), i - 1, cs)]
<1>0. m \in Nat /\ cs >= 1
  <2>1. cs >= 1 /\ Len(plain) \in Nat
    BY ListMembers
  <2> QED
    BY <2>1, CountCovers DEF Covers
<1>1. (\A i \in 1 .. m : cvs[i].ok) /\ index = [i \in 1 .. m |-> <<"cv", cvs[i].value>>]
  <2>1. DOMAIN cvs = 1 .. m
    OBVIOUS
  <2>2. BuildIndex(plain, cs) = IF \A i \in DOMAIN cvs : cvs[i].ok
                                THEN Ok([i \in DOMAIN cvs |-> <<"cv", cvs[i].value>>]) ELSE Failed
    BY DEF BuildIndex
  <2> HIDE DEF cvs
  <2>3. \A i \in DOMAIN cvs : cvs[i].ok
    BY <2>2 DEF Failed
  <2>4. BuildIndex(plain, cs) = Ok([i \in 1 .. m |-> <<"cv", cvs[i].value>>])
    BY <2>1, <2>2, <2>3
  <2> QED
    BY <2>1, <2>3, <2>4 DEF Ok
<1>2. ASSUME NEW i \in 1 .. m
      PROVE  /\ cvs[i].value = Subtree(Chunk(plain, i - 1, cs), (i - 1) * cs)
             /\ ValidChunkSize(cs)
  <2>1. cvs[i] = ChunkCv(Chunk(plain, i - 1, cs), i - 1, cs) /\ cvs[i].ok
    BY <1>1
  <2> HIDE DEF cvs
  <2> QED
    BY <2>1 DEF ChunkCv, Ok, Failed
<1>3. ASSUME NEW i \in 1 .. m
      PROVE  CvOf(index[i]) = Subtree(Chunk(plain, i - 1, cs), 0 + (i - 1) * cs)
  <2>1. index[i] = <<"cv", cvs[i].value>>
    BY <1>1
  <2>2. 0 + (i - 1) * cs = (i - 1) * cs
    <3>1. i - 1 \in Nat
      OBVIOUS
    <3>2. PICK x \in Nat : x = (i - 1) * cs
      BY <3>1, ProductIsNat
    <3> QED
      BY <3>2
  <2> HIDE DEF cvs
  <2> QED
    BY <1>2, <2>1, <2>2 DEF CvOf
<1>4. DOMAIN index = 1 .. m
  BY <1>1
<1>5. [i \in DOMAIN index |-> CvOf(index[i])] = Cvs(plain, 0, cs)
  BY <1>3, <1>4 DEF Cvs
<1>6. 1 \in 1 .. m
  BY <1>0
<1>7. PICK k \in Nat : cs = PowerOfTwo[k]
  BY <1>2, <1>6, ValidSize
<1> QED
  BY <1>5, <1>7, RootOfCvs

\* An index for content of n units whose root is known.
Reduces(cvs, n, cs, root) ==
    /\ ValidChunkSize(cs) /\ ChunkCount(n, cs) >= 2
    /\ List(cvs) /\ Len(cvs) = ChunkCount(n, cs)
    /\ RootFromCvs(cvs) = Ok(root)

\* An index that reduces to the hash of a content holds its chaining values.
LEMMA ReducesToOne ==
    ASSUME NEW plain, List(plain), NEW cvs, NEW cs, Reduces(cvs, Len(plain), cs, Hash(plain))
    PROVE  cvs = Cvs(plain, 0, cs)
<1>0. cs \in Nat /\ cs >= 1
  BY ValidSize DEF Reduces
<1>1. PICK k \in Nat : cs = PowerOfTwo[k]
  BY ValidSize DEF Reduces
<1>2. PICK own : own = Cvs(plain, 0, cs)
  OBVIOUS
<1>3. List(own) /\ Len(own) = ChunkCount(Len(plain), cs)
  BY <1>0, <1>2, CvsFacts
<1>4. RootFromCvs(own) = Ok(Hash(plain))
  BY <1>1, <1>2, RootOfCvs DEF Reduces
<1>5. /\ List(cvs) /\ Len(cvs) >= 2 /\ Len(cvs) = Len(own)
      /\ RootFromCvs(cvs) = RootFromCvs(own)
  BY <1>3, <1>4 DEF Reduces
<1>6. cvs = own
  BY <1>3, <1>5, RootTellsCvs
<1> QED
  BY <1>2, <1>6

\* A chunk that passes an index is the chunk of the content the index reduces to: in its
\* place, of its length, and no other (chunk.rs, verify_chunk).
THEOREM VerifiedChunk ==
    ASSUME NEW plain, List(plain), NEW cvs, NEW cs, Reduces(cvs, Len(plain), cs, Hash(plain)),
           NEW i \in Nat, NEW data, List(data), VerifyChunk(cvs, cs, i, data)
    PROVE  data = Chunk(plain, i, cs)
<1>0. cs \in Nat /\ cs >= 1
  BY ValidSize DEF Reduces
<1>1. /\ Len(cvs) = ChunkCount(Len(plain), cs) /\ Len(cvs) \in Nat
      /\ \A j \in 1 .. Len(cvs) : cvs[j] = Subtree(Chunk(plain, j - 1, cs), 0 + (j - 1) * cs)
  BY <1>0, ReducesToOne, CvsFacts
<1>2. i + 1 \in 1 .. Len(cvs) /\ (i + 1) - 1 = i /\ i \in 0 .. ChunkCount(Len(plain), cs) - 1
  BY <1>1 DEF VerifyChunk
<1>3. Len(data) \in 1 .. cs /\ Subtree(data, i * cs) = cvs[i + 1]
  <2>1. ChunkCv(data, i, cs) = Ok(cvs[i + 1])
    BY DEF VerifyChunk
  <2>2. ChunkCv(data, i, cs).ok
    BY <2>1 DEF Ok
  <2>3. Len(data) \in 1 .. cs /\ ChunkCv(data, i, cs) = Ok(Subtree(data, i * cs))
    BY <2>2 DEF ChunkCv, Failed
  <2> QED
    BY <2>1, <2>3, SameResult
<1>4. PICK own : own = Chunk(plain, i, cs)
  OBVIOUS
<1>5. ChunkIs(plain, i, cs, own) /\ i * cs \in Nat
  BY <1>0, <1>2, <1>4, ChunkFacts
<1>6. PICK at \in Nat : at = i * cs
  BY <1>5
<1>7. cvs[i + 1] = Subtree(own, at)
  <2>1. cvs[i + 1] = Subtree(own, 0 + i * cs)
    BY <1>1, <1>2, <1>4
  <2>2. 0 + at = at
    OBVIOUS
  <2> QED
    BY <1>6, <2>1, <2>2
<1>8. Subtree(data, at) = Subtree(own, at)
  BY <1>3, <1>6, <1>7
<1>9. List(own) /\ Len(own) >= 1
  BY <1>5 DEF ChunkIs
<1>10. Len(data) >= 1
  BY <1>3
<1> QED
  BY <1>4, <1>8, <1>9, <1>10, SubtreeTellsCells

\* Content has the root of an index exactly if each of its chunks passes the index, so
\* checking it whole and checking it chunk by chunk agree (chunk.rs, verify_stream).
THEOREM WholeIsItsChunks ==
    ASSUME NEW data, List(data), NEW cvs, NEW cs, NEW root, Reduces(cvs, Len(data), cs, root)
    PROVE  Hash(data) = root <=>
               \A i \in 0 .. ChunkCount(Len(data), cs) - 1 :
                   VerifyChunk(cvs, cs, i, Chunk(data, i, cs))
<1> DEFINE m == ChunkCount(Len(data), cs)
<1>0. cs \in Nat /\ cs >= 1 /\ ValidChunkSize(cs)
  BY ValidSize DEF Reduces
<1>1. PICK k \in Nat : cs = PowerOfTwo[k]
  BY ValidSize DEF Reduces
<1>2. PICK own : own = Cvs(data, 0, cs)
  OBVIOUS
<1>3. /\ m \in Nat /\ Len(own) = m /\ List(own)
      /\ \A j \in 1 .. m : own[j] = Subtree(Chunk(data, j - 1, cs), 0 + (j - 1) * cs)
  BY <1>0, <1>2, CvsFacts
<1>4. RootFromCvs(own) = Ok(Hash(data))
  BY <1>1, <1>2, RootOfCvs DEF Reduces
<1>5. List(cvs) /\ Len(cvs) = m /\ RootFromCvs(cvs) = Ok(root)
  BY DEF Reduces
<1>6. ASSUME NEW i \in 0 .. m - 1
      PROVE  /\ i + 1 \in 1 .. m
             /\ VerifyChunk(cvs, cs, i, Chunk(data, i, cs)) <=> cvs[i + 1] = own[i + 1]
  <2>1. i \in Nat /\ i + 1 \in 1 .. m /\ (i + 1) - 1 = i /\ i < m
    BY <1>3
  <2>2. PICK part : part = Chunk(data, i, cs)
    OBVIOUS
  <2>3. ChunkIs(data, i, cs, part) /\ i * cs \in Nat
    BY <1>0, <2>2, ChunkFacts
  <2>4. Len(part) \in 1 .. cs
    <3>1. Len(part) \in Nat /\ Len(part) >= 1 /\ Len(part) <= cs
      BY <2>3, ListMembers DEF ChunkIs
    <3> QED
      BY <3>1
  <2>5. ChunkCv(part, i, cs) = Ok(Subtree(part, i * cs))
    BY <1>0, <2>4 DEF ChunkCv
  <2>6. own[i + 1] = Subtree(part, i * cs)
    <3>1. own[i + 1] = Subtree(part, 0 + i * cs)
      BY <1>3, <2>1, <2>2
    <3>2. PICK x \in Nat : x = i * cs
      BY <2>3
    <3>3. 0 + x = x
      OBVIOUS
    <3> QED
      BY <3>1, <3>2, <3>3
  <2>7. VerifyChunk(cvs, cs, i, part) <=> Ok(own[i + 1]) = Ok(cvs[i + 1])
    BY <1>5, <2>1, <2>5, <2>6 DEF VerifyChunk
  <2>8. Ok(own[i + 1]) = Ok(cvs[i + 1]) <=> cvs[i + 1] = own[i + 1]
    BY SameResult
  <2> QED
    BY <2>1, <2>2, <2>7, <2>8
<1> HIDE DEF m
<1>7. ASSUME Hash(data) = root
      PROVE  \A i \in 0 .. m - 1 : VerifyChunk(cvs, cs, i, Chunk(data, i, cs))
  <2>1. cvs = own
    BY <1>2, <1>7, ReducesToOne
  <2> QED
    BY <1>6, <2>1
<1>8. ASSUME \A i \in 0 .. m - 1 : VerifyChunk(cvs, cs, i, Chunk(data, i, cs))
      PROVE  Hash(data) = root
  <2>1. ASSUME NEW j \in 1 .. m
        PROVE  cvs[j] = own[j]
    <3>1. j - 1 \in 0 .. m - 1 /\ (j - 1) + 1 = j
      BY <1>3
    <3> QED
      BY <1>6, <1>8, <3>1
  <2>2. cvs = own
    BY <1>3, <1>5, <2>1, SameList
  <2> QED
    BY <1>4, <1>5, <2>2, SameResult
<1> QED
  BY <1>7, <1>8 DEF m

\* What Parse returns was read from the file, and passed every check on the way.
LEMMA ParseFacts ==
    ASSUME NEW f, Parse(f).ok
    PROVE  LET b == Parse(f).value IN
           /\ f # <<>> /\ b.h = f[1][2] /\ HeaderOk(b.h) /\ FitsFile(b.h, Len(f))
           /\ TableOk(Slice(f, b.h.tableOff, TableEnd(b.h)))
           /\ b.secs = [i \in DOMAIN Slice(f, b.h.tableOff, TableEnd(b.h)) |->
                            Slice(f, b.h.tableOff, TableEnd(b.h))[i][2]]
           /\ LayoutOk(f, b.h, b.secs) /\ FooterOk(f, b.h)
           /\ b.foot = FootAt(f, b.h) /\ SlotsOk(b.h, b.foot) /\ b.h.suite \in KnownSuites
           /\ b.foot.root = CommitmentRoot(f[1], Slice(f, b.h.tableOff, TableEnd(b.h)))
<1> DEFINE h == f[1][2]
           table == Slice(f, h.tableOff, TableEnd(h))
           secs == [i \in DOMAIN table |-> table[i][2]]
<1>1. /\ f # <<>> /\ HeaderOk(h) /\ FitsFile(h, Len(f))
      /\ Parse(f) = ParseTable(f, h, table)
  BY DEF Parse, Failed
<1>2. TableOk(table) /\ Parse(f) = ParseSections(f, h, table, secs)
  <2> HIDE DEF h, table
  <2> QED
    BY <1>1 DEF ParseTable, Failed
<1> QED
  <2> HIDE DEF h, table, secs
  <2>1. /\ LayoutOk(f, h, secs) /\ FooterOk(f, h)
        /\ SlotsOk(h, FootAt(f, h)) /\ h.suite \in KnownSuites
        /\ FootAt(f, h).root = CommitmentRoot(f[1], table)
        /\ Parse(f).value.h = h /\ Parse(f).value.secs = secs
        /\ Parse(f).value.foot = FootAt(f, h)
    BY <1>2 DEF ParseSections, Failed, AndThen, Ok
  <2> QED
    BY <1>1, <1>2, <2>1 DEF h, table, secs

(***************************************************************************)
(* Regions                                                                 *)
(***************************************************************************)
\* What the layout rules say of a table of records: `n` records, each of which passes the
\* rules for a record, in a header that passes its own.
Tabled(f, h, secs, n) ==
    /\ n \in Nat /\ DOMAIN secs = 1 .. n
    /\ HeaderOk(h) /\ \A i \in DOMAIN secs : RecordOk(secs[i])
    /\ LayoutOk(f, h, secs)

Stretches == Nat \X Nat \X Nat

\* Every region starts behind the header, is not empty and ends before the footer.
LEMMA RegionBounds ==
    ASSUME NEW f, NEW h, NEW secs, NEW n, Tabled(f, h, secs, n)
    PROVE  /\ Regions(h, secs) \subseteq Stretches /\ IsFiniteSet(Regions(h, secs))
           /\ \A a \in Regions(h, secs) : HeaderLen <= a[1] /\ a[1] < a[2] /\ a[2] <= h.footerOff
<1> DEFINE stored == {i \in DOMAIN secs : "EXTERNAL" \notin secs[i].flags /\ secs[i].lenStored > 0}
           indexed == {i \in DOMAIN secs : secs[i].indexOff # 0}
           P == {<<secs[i].offset, StoredEnd(secs[i]), 2 * i - 1>> : i \in stored}
           X == {<<secs[i].indexOff, IndexEnd(secs[i]), 2 * i>> : i \in indexed}
           T == IF h.count > 0 THEN {<<h.tableOff, TableEnd(h), 0>>} ELSE {}
<1>1. Regions(h, secs) = P \cup X \cup T
  BY DEF Regions
<1>2. h.count \in Nat /\ h.tableOff \in Nat /\ h.footerOff \in Nat
  BY DEF Tabled, HeaderOk
<1>3. ASSUME NEW i \in DOMAIN secs
      PROVE  /\ i \in Nat /\ i >= 1
             /\ secs[i].offset \in Nat /\ secs[i].lenStored \in Nat /\ secs[i].lenPlain \in Nat
             /\ secs[i].chunkSize \in Nat /\ secs[i].indexOff \in Nat
             /\ PlaceOk(secs[i]) /\ ChunkingOk(secs[i])
             /\ "EXTERNAL" \notin secs[i].flags => StoredEnd(secs[i]) <= h.footerOff
             /\ secs[i].indexOff # 0 => IndexEnd(secs[i]) <= h.footerOff
  BY DEF Tabled, RecordOk, LayoutOk
<1>4. ASSUME NEW i \in stored
      PROVE  /\ <<secs[i].offset, StoredEnd(secs[i]), 2 * i - 1>> \in Stretches
             /\ HeaderLen <= secs[i].offset /\ secs[i].offset < StoredEnd(secs[i])
             /\ StoredEnd(secs[i]) <= h.footerOff
  BY <1>3 DEF PlaceOk, StoredEnd, HeaderLen, Stretches
<1>5. ASSUME NEW i \in indexed
      PROVE  /\ <<secs[i].indexOff, IndexEnd(secs[i]), 2 * i>> \in Stretches
             /\ HeaderLen <= secs[i].indexOff /\ secs[i].indexOff < IndexEnd(secs[i])
             /\ IndexEnd(secs[i]) <= h.footerOff
  <2>1. secs[i].indexOff # 0 /\ i \in DOMAIN secs
    OBVIOUS
  <2>2. /\ secs[i].chunkSize # 0 /\ secs[i].indexOff >= HeaderLen
        /\ ChunkCount(secs[i].lenPlain, secs[i].chunkSize) >= 2
    BY <1>3, <2>1 DEF ChunkingOk
  <2>3. ChunkCount(secs[i].lenPlain, secs[i].chunkSize) \in Nat
    BY <1>3, <2>1, <2>2 DEF ChunkCount
  <2> QED
    BY <1>3, <2>1, <2>2, <2>3 DEF IndexEnd, Stretches
<1>6. ASSUME NEW a \in T
      PROVE  /\ a \in Stretches /\ HeaderLen <= a[1] /\ a[1] < a[2] /\ a[2] <= h.footerOff
  BY <1>2 DEF Tabled, HeaderOk, TableEnd, Stretches
<1>7. IsFiniteSet(P \cup X \cup T)
  <2>1. n \in Nat /\ IsFiniteSet(DOMAIN secs)
    BY FS_Interval DEF Tabled
  <2>2. IsFiniteSet(stored) /\ IsFiniteSet(indexed)
    BY <2>1, FS_Subset
  <2>3. IsFiniteSet(P)
    <3> HIDE DEF stored
    <3> DEFINE place == [i \in stored |-> <<secs[i].offset, StoredEnd(secs[i]), 2 * i - 1>>]
    <3>1. place \in Surjection(stored, P)
      BY DEF Surjection
    <3> QED
      BY <2>2, <3>1, FS_Surjection
  <2>4. IsFiniteSet(X)
    <3> HIDE DEF indexed
    <3> DEFINE place == [i \in indexed |-> <<secs[i].indexOff, IndexEnd(secs[i]), 2 * i>>]
    <3>1. place \in Surjection(indexed, X)
      BY DEF Surjection
    <3> QED
      BY <2>2, <3>1, FS_Surjection
  <2>5. IsFiniteSet(T)
    BY FS_EmptySet, FS_Singleton
  <2> HIDE DEF P, X, T
  <2> QED
    BY <2>3, <2>4, <2>5, FS_Union
<1> HIDE DEF stored, indexed, T
<1> QED
  BY <1>1, <1>4, <1>5, <1>6, <1>7

\* Before is a strict total order of the regions.
LEMMA BeforeIsTotal ==
    /\ \A a \in Stretches : ~Before(a, a)
    /\ \A a, b, c \in Stretches : Before(a, b) /\ Before(b, c) => Before(a, c)
    /\ \A a, b \in Stretches : a = b \/ Before(a, b) \/ Before(b, a)
<1>1. \A a \in Stretches : a[1] \in Nat /\ a[2] \in Nat /\ a[3] \in Nat /\ a = <<a[1], a[2], a[3]>>
  BY DEF Stretches
<1>2. \A a, b \in Stretches : a[1] = b[1] /\ a[2] = b[2] /\ a[3] = b[3] => a = b
  BY <1>1
<1> QED
  BY <1>1, <1>2 DEF Before

\* The sorted regions are the regions, and those of a layout that was accepted lie one
\* behind the other.
LEMMA SortedFacts ==
    ASSUME NEW f, NEW h, NEW secs, NEW n, Tabled(f, h, secs, n)
    PROVE  LET sorted == SortedRegions(h, secs) IN
           /\ sorted \in Seq(Regions(h, secs))
           /\ \A a \in Regions(h, secs) : \E k \in 1 .. Len(sorted) : sorted[k] = a
           /\ \A i, j \in 1 .. Len(sorted) : i < j => sorted[i][2] <= sorted[j][1]
<1> DEFINE R == Regions(h, secs)
           before == [b \in R |-> {a \in R : Before(a, b)}]
           sorted == SortedRegions(h, secs)
<1>1. R \subseteq Stretches /\ IsFiniteSet(R)
  BY RegionBounds
<1>2. sorted = InOrder(R, before)
  BY DEF SortedRegions
<1>3. /\ before \in [R -> SUBSET R]
      /\ \A x \in R : x \notin before[x]
      /\ \A x, y \in R : y \in before[x] => before[y] \subseteq before[x]
      /\ \A x, y \in R : x = y \/ x \in before[y] \/ y \in before[x]
  <2> HIDE DEF R
  <2> QED
    BY <1>1, BeforeIsTotal
<1>4. /\ sorted \in Seq(R)
      /\ \A a \in R : \E k \in 1 .. Len(sorted) : sorted[k] = a
      /\ \A i, j \in 1 .. Len(sorted) : i < j => sorted[i] \in before[sorted[j]]
  <2> HIDE DEF R, before, sorted
  <2> QED
    BY <1>1, <1>2, <1>3, ListedInOrder
<1>5. \A i \in 1 .. Len(sorted) - 1 : sorted[i + 1][1] >= sorted[i][2]
  BY DEF Tabled, LayoutOk
<1>6. Len(sorted) \in Nat /\ \A k \in 1 .. Len(sorted) : sorted[k] \in R
  <2> HIDE DEF R, before, sorted
  <2> QED
    BY <1>4
<1>7. \A k \in 1 .. Len(sorted) : sorted[k][1] \in Nat /\ sorted[k][2] \in Nat
  <2> HIDE DEF R, sorted
  <2> QED
    BY <1>1, <1>6 DEF Stretches
<1>8. \A i, j \in 1 .. Len(sorted) : i < j => Before(sorted[i], sorted[j])
  <2> HIDE DEF R, sorted
  <2> QED
    BY <1>4, <1>6
<1>9. ASSUME NEW i \in 1 .. Len(sorted), NEW j \in 1 .. Len(sorted), i < j
      PROVE  sorted[i][2] <= sorted[j][1]
  <2> HIDE DEF R, before, sorted
  <2>1. i + 1 \in 1 .. Len(sorted) /\ i \in 1 .. Len(sorted) - 1
    BY <1>6, <1>9
  <2>2. sorted[i][2] <= sorted[i + 1][1]
    <3>1. sorted[i + 1][1] >= sorted[i][2]
      BY <1>5, <2>1
    <3> QED
      BY <3>1, <1>7, <2>1
  <2>3. sorted[i + 1][1] <= sorted[j][1]
    <3>1. CASE i + 1 = j
      BY <3>1, <1>7
    <3>2. CASE i + 1 < j
      <4>1. Before(sorted[i + 1], sorted[j])
        BY <1>8, <2>1, <3>2
      <4> QED
        BY <4>1, <1>7, <2>1 DEF Before
    <3> QED
      BY <1>6, <1>9, <3>1, <3>2
  <2> QED
    BY <1>7, <2>1, <2>2, <2>3
<1> QED
  BY <1>4, <1>9

\* Two regions share no byte.
LEMMA RegionsAreDisjoint ==
    ASSUME NEW f, NEW h, NEW secs, NEW n, Tabled(f, h, secs, n),
           NEW a \in Regions(h, secs), NEW b \in Regions(h, secs), NEW o \in Nat,
           a[1] <= o, o < a[2], b[1] <= o, o < b[2]
    PROVE  a = b
<1> DEFINE sorted == SortedRegions(h, secs)
<1>1. /\ sorted \in Seq(Regions(h, secs))
      /\ \A c \in Regions(h, secs) : \E k \in 1 .. Len(sorted) : sorted[k] = c
      /\ \A i, j \in 1 .. Len(sorted) : i < j => sorted[i][2] <= sorted[j][1]
  BY SortedFacts
<1>2. a \in Stretches /\ b \in Stretches
  BY RegionBounds
<1> HIDE DEF sorted
<1>3. PICK i \in 1 .. Len(sorted) : sorted[i] = a
  BY <1>1
<1>4. PICK j \in 1 .. Len(sorted) : sorted[j] = b
  BY <1>1
<1>5. a[1] \in Nat /\ a[2] \in Nat /\ b[1] \in Nat /\ b[2] \in Nat
  BY <1>2 DEF Stretches
<1>6. ~(i < j) /\ ~(j < i)
  <2>1. i < j => a[2] <= b[1]
    BY <1>1, <1>3, <1>4
  <2>2. j < i => b[2] <= a[1]
    BY <1>1, <1>3, <1>4
  <2> QED
    BY <2>1, <2>2, <1>5
<1>7. i = j
  BY <1>6
<1> QED
  BY <1>3, <1>4, <1>7

(***************************************************************************)
(* Padding                                                                 *)
(***************************************************************************)
LEMMA MaxOfTwo ==
    ASSUME NEW a \in Nat, NEW b \in Nat
    PROVE  Max({a, b}) = IF a >= b THEN a ELSE b
<1>1. \E x \in {a, b} : \A y \in {a, b} : x >= y
  OBVIOUS
<1> QED
  BY <1>1 DEF Max

\* A byte before the footer that no region owns is behind the header and zero.
LEMMA PaddingIsZero ==
    ASSUME NEW f, NEW h, NEW secs, NEW n, Tabled(f, h, secs, n),
           NEW o \in 0 .. h.footerOff - 1,
           o >= HeaderLen, \A a \in Regions(h, secs) : ~(a[1] <= o /\ o < a[2])
    PROVE  f[o + 1] = <<"zero", 0>>
<1> DEFINE sorted == SortedRegions(h, secs)
           N == Len(sorted)
<1>1. /\ sorted \in Seq(Regions(h, secs)) /\ N \in Nat
      /\ \A k \in 1 .. N : sorted[k] \in Regions(h, secs) /\ sorted[k] \in Stretches
      /\ \A k \in 1 .. N : sorted[k][1] \in Nat /\ sorted[k][2] \in Nat
  <2>1. sorted \in Seq(Regions(h, secs)) /\ Regions(h, secs) \subseteq Stretches
    BY SortedFacts, RegionBounds
  <2> HIDE DEF sorted
  <2> QED
    BY <2>1 DEF Stretches
<1> DEFINE cursor == CHOOSE c : c = [k \in 0 .. N |-> IF k = 0 THEN HeaderLen
                                                     ELSE Max({c[k - 1], sorted[k][2]})]
<1>2. /\ \A k \in 1 .. N : ZeroBetween(f, cursor[k - 1], sorted[k][1])
      /\ ZeroBetween(f, cursor[N], h.footerOff)
  BY DEF Tabled, LayoutOk, CheckPadding
<1> HIDE DEF sorted
<1> HIDE DEF N
<1>3. /\ cursor \in [0 .. N -> Nat] /\ cursor[0] = HeaderLen
      /\ \A k \in 1 .. N : cursor[k] = Max({cursor[k - 1], sorted[k][2]})
  <2> DEFINE ends == [k \in 1 .. N |-> sorted[k][2]]
             step == [x \in (1 .. N) \X Nat |-> Max({x[2], ends[x[1]]})]
  <2>1. \A k \in 1 .. N : ends[k] = sorted[k][2] /\ ends[k] \in Nat
    BY <1>1
  <2> HIDE DEF ends
  <2>2. step \in [(1 .. N) \X Nat -> Nat]
    BY <2>1, MaxOfTwo
  <2>3. \A k \in 1 .. N, m \in Nat : step[<<k, m>>] = Max({m, ends[k]})
    OBVIOUS
  <2>4. HeaderLen \in Nat
    BY DEF HeaderLen
  <2> HIDE DEF step
  <2>5. PICK c : Recursion(c, N, Nat, HeaderLen, step)
    BY <1>1, <2>2, <2>4, RecursionExists
  <2>6. \A k \in 1 .. N : c[k] = Max({c[k - 1], sorted[k][2]})
    <3> SUFFICES ASSUME NEW k \in 1 .. N PROVE c[k] = Max({c[k - 1], sorted[k][2]})
      OBVIOUS
    <3>1. k - 1 \in 0 .. N
      BY <1>1
    <3>2. c[k - 1] \in Nat /\ c[k] = step[<<k, c[k - 1]>>]
      BY <2>5, <3>1 DEF Recursion
    <3> QED
      BY <2>1, <2>3, <3>2
  <2>7. c = [k \in 0 .. N |-> IF k = 0 THEN HeaderLen ELSE Max({c[k - 1], sorted[k][2]})]
    <3>1. c = [k \in 0 .. N |-> c[k]]
      BY <2>5 DEF Recursion
    <3>2. \A k \in 0 .. N : c[k] = IF k = 0 THEN HeaderLen ELSE Max({c[k - 1], sorted[k][2]})
      BY <2>5, <2>6, <1>1 DEF Recursion
    <3> QED
      BY <3>1, <3>2
  <2>8. cursor = [k \in 0 .. N |-> IF k = 0 THEN HeaderLen
                                  ELSE Max({cursor[k - 1], sorted[k][2]})]
    BY <2>7
  <2> HIDE DEF cursor
  <2>9. cursor[0] = HeaderLen
    BY <2>8, <1>1
  <2>10. \A k \in 1 .. N : cursor[k] = Max({cursor[k - 1], sorted[k][2]})
    <3> SUFFICES ASSUME NEW k \in 1 .. N
                 PROVE  cursor[k] = Max({cursor[k - 1], sorted[k][2]})
      OBVIOUS
    <3>1. k \in 0 .. N /\ k # 0
      BY <1>1
    <3> QED
      BY <2>8, <3>1
  <2> DEFINE S == {k \in Nat : k <= N => cursor[k] \in Nat}
  <2>11. 0 \in S
    BY <2>9, <2>4
  <2>12. ASSUME NEW k \in Nat, k \in S
         PROVE  k + 1 \in S
    <3> SUFFICES ASSUME k + 1 <= N
                 PROVE  cursor[k + 1] \in Nat
      OBVIOUS
    <3>1. k + 1 \in 1 .. N /\ cursor[k] \in Nat /\ (k + 1) - 1 = k
      BY <2>12, <1>1
    <3>2. cursor[k + 1] = Max({cursor[k], sorted[k + 1][2]}) /\ sorted[k + 1][2] \in Nat
      BY <3>1, <2>10, <1>1
    <3> QED
      BY <3>1, <3>2, MaxOfTwo
  <2>13. \A k \in Nat : k \in S
    <3> HIDE DEF S
    <3> QED
      BY <2>11, <2>12, SetInduction
  <2>14. \A k \in 0 .. N : cursor[k] \in Nat
    BY <2>13, <1>1
  <2>15. cursor \in [0 .. N -> Nat]
    BY <2>8, <2>14
  <2> QED
    BY <2>9, <2>10, <2>15
<1> HIDE DEF cursor, N
<1> DEFINE S == {k \in Nat : k <= N => cursor[k] <= o \/ f[o + 1] = <<"zero", 0>>}
<1>4. o \in Nat
  OBVIOUS
<1>5. 0 \in S
  BY <1>3
<1>6. ASSUME NEW k \in Nat, k \in S
      PROVE  k + 1 \in S
  <2> SUFFICES ASSUME k + 1 <= N, cursor[k] <= o, f[o + 1] # <<"zero", 0>>
               PROVE  cursor[k + 1] <= o
    BY <1>1, <1>6
  <2>1. k + 1 \in 1 .. N /\ (k + 1) - 1 = k /\ cursor[k] \in Nat
    BY <1>1, <1>3
  <2>2. cursor[k + 1] = Max({cursor[k], sorted[k + 1][2]})
    BY <1>3, <2>1
  <2>3. ZeroBetween(f, cursor[k], sorted[k + 1][1])
    BY <1>2, <2>1 DEF N
  <2>4. sorted[k + 1] \in Regions(h, secs)
    BY <1>1, <2>1
  <2>5. sorted[k + 1][1] \in Nat /\ sorted[k + 1][2] \in Nat
    BY <1>1, <2>1
  <2>6. ~(o < sorted[k + 1][1])
    BY <1>4, <2>1, <2>3, <2>5 DEF ZeroBetween
  <2>7. ~(sorted[k + 1][1] <= o /\ o < sorted[k + 1][2])
    BY <2>4
  <2> QED
    BY <1>4, <2>1, <2>2, <2>5, <2>6, <2>7, MaxOfTwo
<1>7. N \in S
  <2>1. \A k \in Nat : k \in S
    <3> HIDE DEF S
    <3> QED
      BY <1>5, <1>6, SetInduction
  <2> QED
    BY <2>1, <1>1
<1>8. cursor[N] \in Nat /\ N \in 0 .. N
  BY <1>1, <1>3
<1>9. h.footerOff \in Nat
  BY DEF Tabled, HeaderOk
<1> QED
  BY <1>2, <1>4, <1>7, <1>8, <1>9 DEF ZeroBetween, N

(***************************************************************************)
(* Owners                                                                  *)
(***************************************************************************)
Within(o, lo, n) == lo <= o /\ o < lo + n

\* Who owns byte o of a file with this header and these records.
Owners(h, S, o) ==
    (IF o < HeaderLen THEN {<<"header", 0>>} ELSE {})
    \cup (IF Within(o, h.tableOff, h.count) THEN {<<"table", 0>>} ELSE {})
    \cup {<<"payload", r.name>> : r \in {r \in S : /\ "EXTERNAL" \notin r.flags
                                                 /\ Within(o, r.offset, r.lenStored)}}
    \cup {<<"index", r.name>> :
            r \in {r \in S : /\ r.indexOff # 0
                            /\ Within(o, r.indexOff, ChunkCount(r.lenPlain, r.chunkSize))}}

\* Whoever owns a byte behind the header owns a region that holds it.
LEMMA OwnersHaveRegions ==
    ASSUME NEW f, NEW h, NEW secs, NEW n, Tabled(f, h, secs, n),
           NEW o \in Nat, o >= HeaderLen, NEW x \in Owners(h, ToSet(secs), o)
    PROVE  \E a \in Regions(h, secs) :
              /\ a[1] <= o /\ o < a[2]
              /\ \/ a[3] = 0 /\ x = <<"table", 0>>
                 \/ \E i \in DOMAIN secs : a[3] = 2 * i - 1 /\ x = <<"payload", secs[i].name>>
                 \/ \E i \in DOMAIN secs : a[3] = 2 * i /\ x = <<"index", secs[i].name>>
<1>1. \A i \in DOMAIN secs : /\ i \in Nat /\ i >= 1 /\ secs[i].offset \in Nat
                             /\ secs[i].lenStored \in Nat
  BY DEF Tabled, RecordOk
<1>2. h.tableOff \in Nat /\ h.count \in Nat
  BY DEF Tabled, HeaderOk
<1>3. CASE x = <<"table", 0>> /\ Within(o, h.tableOff, h.count)
  <2>1. <<h.tableOff, TableEnd(h), 0>> \in Regions(h, secs)
    BY <1>2, <1>3 DEF Regions, Within
  <2> QED
    BY <1>3, <2>1 DEF Within, TableEnd
<1>4. CASE \E r \in ToSet(secs) : /\ x = <<"payload", r.name>> /\ "EXTERNAL" \notin r.flags
                                  /\ Within(o, r.offset, r.lenStored)
  <2>1. PICK i \in DOMAIN secs : /\ x = <<"payload", secs[i].name>>
                                 /\ "EXTERNAL" \notin secs[i].flags
                                 /\ Within(o, secs[i].offset, secs[i].lenStored)
    BY <1>4 DEF ToSet
  <2>2. secs[i].lenStored > 0
    BY <1>1, <2>1 DEF Within
  <2>3. <<secs[i].offset, StoredEnd(secs[i]), 2 * i - 1>> \in Regions(h, secs)
    BY <2>1, <2>2 DEF Regions
  <2> QED
    BY <2>1, <2>3 DEF Within, StoredEnd
<1>5. CASE \E r \in ToSet(secs) : /\ x = <<"index", r.name>> /\ r.indexOff # 0
                                  /\ Within(o, r.indexOff, ChunkCount(r.lenPlain, r.chunkSize))
  <2>1. PICK i \in DOMAIN secs :
            /\ x = <<"index", secs[i].name>> /\ secs[i].indexOff # 0
            /\ Within(o, secs[i].indexOff, ChunkCount(secs[i].lenPlain, secs[i].chunkSize))
    BY <1>5 DEF ToSet
  <2>2. <<secs[i].indexOff, IndexEnd(secs[i]), 2 * i>> \in Regions(h, secs)
    BY <2>1 DEF Regions
  <2> QED
    BY <2>1, <2>2 DEF Within, IndexEnd
<1>6. ~(o < HeaderLen)
  BY DEF HeaderLen
<1> QED
  BY <1>3, <1>4, <1>5, <1>6 DEF Owners

\* A byte that a region holds has an owner.
LEMMA RegionsHaveOwners ==
    ASSUME NEW f, NEW h, NEW secs, NEW n, Tabled(f, h, secs, n),
           NEW o \in Nat, NEW a \in Regions(h, secs), a[1] <= o, o < a[2]
    PROVE  Owners(h, ToSet(secs), o) # {}
<1>1. \A i \in DOMAIN secs : secs[i] \in ToSet(secs)
  BY DEF ToSet
<1>2. CASE h.count > 0 /\ a = <<h.tableOff, TableEnd(h), 0>>
  <2>1. Within(o, h.tableOff, h.count)
    BY <1>2 DEF Within, TableEnd
  <2> QED
    BY <2>1 DEF Owners
<1>3. CASE \E i \in DOMAIN secs : /\ "EXTERNAL" \notin secs[i].flags
                                  /\ a = <<secs[i].offset, StoredEnd(secs[i]), 2 * i - 1>>
  <2>1. PICK i \in DOMAIN secs : /\ "EXTERNAL" \notin secs[i].flags
                                 /\ a = <<secs[i].offset, StoredEnd(secs[i]), 2 * i - 1>>
    BY <1>3
  <2>2. Within(o, secs[i].offset, secs[i].lenStored)
    BY <2>1 DEF Within, StoredEnd
  <2>3. <<"payload", secs[i].name>> \in Owners(h, ToSet(secs), o)
    BY <1>1, <2>1, <2>2 DEF Owners
  <2> QED
    BY <2>3
<1>4. CASE \E i \in DOMAIN secs : /\ secs[i].indexOff # 0
                                  /\ a = <<secs[i].indexOff, IndexEnd(secs[i]), 2 * i>>
  <2>1. PICK i \in DOMAIN secs : /\ secs[i].indexOff # 0
                                 /\ a = <<secs[i].indexOff, IndexEnd(secs[i]), 2 * i>>
    BY <1>4
  <2>2. Within(o, secs[i].indexOff, ChunkCount(secs[i].lenPlain, secs[i].chunkSize))
    BY <2>1 DEF Within, IndexEnd
  <2>3. <<"index", secs[i].name>> \in Owners(h, ToSet(secs), o)
    BY <1>1, <2>1, <2>2 DEF Owners
  <2> QED
    BY <2>3
<1> QED
  BY <1>2, <1>3, <1>4 DEF Regions

\* No byte has two owners, and one that has none is zero.
LEMMA OneOwner ==
    ASSUME NEW f, NEW h, NEW secs, NEW n, Tabled(f, h, secs, n),
           NEW o \in 0 .. h.footerOff - 1
    PROVE  /\ Cardinality(Owners(h, ToSet(secs), o)) <= 1
           /\ Owners(h, ToSet(secs), o) = {} => f[o + 1] = <<"zero", 0>>
<1> DEFINE owners == Owners(h, ToSet(secs), o)
<1>1. o \in Nat /\ HeaderLen \in Nat
  BY DEF HeaderLen
<1>2. ASSUME NEW x \in owners, NEW y \in owners
      PROVE  x = y
  <2>1. CASE o >= HeaderLen
    <3>1. PICK a \in Regions(h, secs) :
              /\ a[1] <= o /\ o < a[2]
              /\ \/ a[3] = 0 /\ x = <<"table", 0>>
                 \/ \E i \in DOMAIN secs : a[3] = 2 * i - 1 /\ x = <<"payload", secs[i].name>>
                 \/ \E i \in DOMAIN secs : a[3] = 2 * i /\ x = <<"index", secs[i].name>>
      BY <1>1, <2>1, OwnersHaveRegions
    <3>2. PICK b \in Regions(h, secs) :
              /\ b[1] <= o /\ o < b[2]
              /\ \/ b[3] = 0 /\ y = <<"table", 0>>
                 \/ \E i \in DOMAIN secs : b[3] = 2 * i - 1 /\ y = <<"payload", secs[i].name>>
                 \/ \E i \in DOMAIN secs : b[3] = 2 * i /\ y = <<"index", secs[i].name>>
      BY <1>1, <2>1, OwnersHaveRegions
    <3>3. a = b
      BY <1>1, <3>1, <3>2, RegionsAreDisjoint
    <3>4. \A i \in DOMAIN secs : i \in Nat /\ i >= 1
      BY DEF Tabled
    <3> HIDE DEF owners
    <3> QED
      BY <3>1, <3>2, <3>3, <3>4
  <2>2. CASE o < HeaderLen
    <3>1. \A z \in owners \ {<<"header", 0>>} :
              \E a \in Regions(h, secs) : a[1] <= o /\ o < a[2]
      <4>1. h.tableOff \in Nat /\ h.count \in Nat /\ h.tableOff >= HeaderLen
        BY DEF Tabled, HeaderOk
      <4>2. ~Within(o, h.tableOff, h.count)
        BY <1>1, <2>2, <4>1 DEF Within
      <4>3. \A i \in DOMAIN secs :
                /\ secs[i].indexOff \in Nat /\ secs[i].offset \in Nat
                /\ "EXTERNAL" \notin secs[i].flags => secs[i].offset >= HeaderLen
                /\ secs[i].indexOff # 0 => secs[i].indexOff >= HeaderLen
        BY DEF Tabled, RecordOk, PlaceOk, ChunkingOk
      <4>4. \A r \in ToSet(secs) :
                /\ "EXTERNAL" \notin r.flags => ~Within(o, r.offset, r.lenStored)
                /\ r.indexOff # 0 => ~Within(o, r.indexOff, ChunkCount(r.lenPlain, r.chunkSize))
        BY <1>1, <2>2, <4>3 DEF Within, ToSet
      <4> QED
        BY <4>2, <4>4 DEF Owners
    <3>2. \A a \in Regions(h, secs) : ~(a[1] <= o)
      <4>1. \A a \in Regions(h, secs) : a[1] \in Nat /\ HeaderLen <= a[1]
        BY RegionBounds DEF Stretches
      <4> QED
        BY <1>1, <2>2, <4>1
    <3> HIDE DEF owners
    <3> QED
      BY <3>1, <3>2
  <2> QED
    BY <1>1, <2>1, <2>2
<1>3. Cardinality(owners) <= 1
  <2> HIDE DEF owners
  <2>1. CASE owners = {}
    BY <2>1, FS_EmptySet
  <2>2. CASE owners # {}
    <3>1. PICK x \in owners : owners = {x}
      BY <1>2, <2>2
    <3>2. Cardinality({x}) = 1
      BY FS_Singleton
    <3> QED
      BY <3>1, <3>2
  <2> QED
    BY <2>1, <2>2
<1>4. ASSUME owners = {}
      PROVE  f[o + 1] = <<"zero", 0>>
  <2>1. o >= HeaderLen
    <3>1. ~(o < HeaderLen)
      BY <1>4 DEF Owners
    <3> QED
      BY <1>1, <3>1
  <2>2. \A a \in Regions(h, secs) : ~(a[1] <= o /\ o < a[2])
    BY <1>1, <1>4, RegionsHaveOwners
  <2> QED
    BY <2>1, <2>2, PaddingIsZero
<1> QED
  BY <1>3, <1>4

(***************************************************************************)
(* What the writer lays down                                               *)
(***************************************************************************)
\* `flat` joins the sequences up to each one.
Flattens(flat, seqs, n) ==
    \A i \in 1 .. n : flat[i] = IF i = 1 THEN seqs[i] ELSE flat[i - 1] \o seqs[i]

LEMMA FlattenSteps ==
    ASSUME NEW C, NEW seqs \in Seq(Seq(C)), Len(seqs) # 0
    PROVE  \E flat : FlattenSeq(seqs) = flat[Len(seqs)] /\ Flattens(flat, seqs, Len(seqs))
<1> DEFINE N == Len(seqs)
           flatten == CHOOSE f : f = [i \in 1 .. N |-> IF i = 1 THEN seqs[i]
                                                        ELSE f[i - 1] \o seqs[i]]
<1>1. N \in Nat /\ N # 0 /\ \A i \in 1 .. N : seqs[i] \in Seq(C)
  OBVIOUS
<1>2. FlattenSeq(seqs) = flatten[N]
  BY <1>1 DEF FlattenSeq
<1> HIDE DEF N
<1> DEFINE g == [x \in (1 .. N) \X Seq(C) |-> x[2] \o seqs[x[1]]]
<1>3. g \in [(1 .. N) \X Seq(C) -> Seq(C)]
  BY <1>1
<1>4. \A i \in 1 .. N, s \in Seq(C) : g[<<i, s>>] = s \o seqs[i]
  OBVIOUS
<1>5. <<>> \in Seq(C)
  OBVIOUS
<1> HIDE DEF g
<1>6. PICK f : Recursion(f, N, Seq(C), <<>>, g)
  BY <1>1, <1>3, <1>5, RecursionExists
<1> DEFINE e == [i \in 1 .. N |-> f[i]]
<1>7. ASSUME NEW i \in 1 .. N
      PROVE  e[i] = IF i = 1 THEN seqs[i] ELSE e[i - 1] \o seqs[i]
  <2>1. i - 1 \in 0 .. N /\ (i # 1 => i - 1 \in 1 .. N)
    BY <1>1
  <2>2. f[i - 1] \in Seq(C) /\ f[i] = g[<<i, f[i - 1]>>]
    BY <1>6, <2>1 DEF Recursion
  <2>3. f[i] = f[i - 1] \o seqs[i]
    BY <1>4, <2>2
  <2>4. CASE i = 1
    <3>1. f[i - 1] = <<>>
      BY <1>6, <2>4 DEF Recursion
    <3>2. seqs[i] \in Seq(C)
      BY <1>1
    <3> QED
      BY <2>3, <2>4, <3>1, <3>2
  <2>5. CASE i # 1
    BY <2>1, <2>3, <2>5
  <2> QED
    BY <2>4, <2>5
<1>8. e = [i \in 1 .. N |-> IF i = 1 THEN seqs[i] ELSE e[i - 1] \o seqs[i]]
  BY <1>7, Zenon
<1>9. flatten = [i \in 1 .. N |-> IF i = 1 THEN seqs[i] ELSE flatten[i - 1] \o seqs[i]]
  BY <1>8
<1> HIDE DEF flatten
<1>10. Flattens(flatten, seqs, N)
  BY <1>9 DEF Flattens
<1> QED
  BY <1>2, <1>10 DEF N

\* What is joined step by step is the flattened sequence.
LEMMA FlattenIs ==
    ASSUME NEW C, NEW seqs \in Seq(Seq(C)), NEW sum, sum[0] = <<>>,
           \A i \in 1 .. Len(seqs) : sum[i - 1] \in Seq(C) /\ sum[i] = sum[i - 1] \o seqs[i]
    PROVE  FlattenSeq(seqs) = sum[Len(seqs)]
<1> DEFINE N == Len(seqs)
<1>1. N \in Nat /\ \A i \in 1 .. N : seqs[i] \in Seq(C)
  OBVIOUS
<1>2. CASE N = 0
  <2>1. seqs = <<>>
    BY <1>2
  <2>2. FlattenSeq(seqs) = seqs
    BY <1>2 DEF FlattenSeq
  <2> QED
    BY <1>2, <2>1, <2>2, Zenon
<1>3. CASE N # 0
  <2>1. PICK flat : FlattenSeq(seqs) = flat[N] /\ Flattens(flat, seqs, N)
    BY <1>3, FlattenSteps
  <2> HIDE DEF N
  <2> DEFINE S == {i \in Nat : i + 1 <= N => flat[i + 1] = sum[i + 1]}
  <2>2. 0 \in S
    <3>1. 1 \in 1 .. N /\ 1 - 1 = 0
      BY <1>1, <1>3
    <3>2. flat[1] = seqs[1] /\ sum[1] = sum[0] \o seqs[1] /\ seqs[1] \in Seq(C)
      BY <1>1, <2>1, <3>1 DEF Flattens, N
    <3>3. PICK one : one = seqs[1]
      OBVIOUS
    <3>4. <<>> \o one = one
      BY <3>2, <3>3
    <3> QED
      BY <3>2, <3>3, <3>4
  <2>3. ASSUME NEW i \in Nat, i \in S
        PROVE  i + 1 \in S
    <3> SUFFICES ASSUME (i + 1) + 1 <= N
                 PROVE  flat[(i + 1) + 1] = sum[(i + 1) + 1]
      OBVIOUS
    <3>1. PICK j : j = (i + 1) + 1
      OBVIOUS
    <3>2. j \in 1 .. N /\ j # 1 /\ j - 1 = i + 1 /\ i + 1 <= N
      BY <1>1, <3>1
    <3>3. flat[j] = flat[j - 1] \o seqs[j] /\ sum[j] = sum[j - 1] \o seqs[j]
      BY <2>1, <3>2 DEF Flattens, N
    <3>4. flat[j - 1] = sum[j - 1]
      BY <2>3, <3>2
    <3> QED
      BY <3>1, <3>3, <3>4
  <2>4. \A i \in Nat : i \in S
    <3> HIDE DEF S
    <3> QED
      BY <2>2, <2>3, SetInduction
  <2>5. N - 1 \in Nat /\ (N - 1) + 1 = N
    BY <1>1, <1>3
  <2>6. flat[N] = sum[N]
    BY <2>4, <2>5
  <2> QED
    BY <2>1, <2>6 DEF N
<1> QED
  BY <1>2, <1>3

LEMMA FlattenInto ==
    ASSUME NEW C, NEW seqs \in Seq(Seq(C))
    PROVE  FlattenSeq(seqs) \in Seq(C)
<1> DEFINE N == Len(seqs)
<1>1. N \in Nat /\ \A i \in 1 .. N : seqs[i] \in Seq(C)
  OBVIOUS
<1>2. CASE N = 0
  <2>1. seqs = <<>>
    BY <1>2
  <2>2. FlattenSeq(seqs) = seqs
    BY <1>2 DEF FlattenSeq
  <2>3. <<>> \in Seq(C)
    OBVIOUS
  <2>4. FlattenSeq(seqs) = <<>>
    BY <2>1, <2>2, Zenon
  <2> QED
    BY <2>3, <2>4, Zenon
<1>3. CASE N # 0
  <2>1. PICK flat : FlattenSeq(seqs) = flat[N] /\ Flattens(flat, seqs, N)
    BY <1>3, FlattenSteps
  <2> HIDE DEF N
  <2> DEFINE S == {i \in Nat : i + 1 <= N => flat[i + 1] \in Seq(C)}
  <2>2. 0 \in S
    BY <1>1, <1>3, <2>1 DEF Flattens
  <2>3. ASSUME NEW i \in Nat, i \in S
        PROVE  i + 1 \in S
    <3> SUFFICES ASSUME (i + 1) + 1 <= N
                 PROVE  flat[(i + 1) + 1] \in Seq(C)
      OBVIOUS
    <3>1. PICK j : j = (i + 1) + 1
      OBVIOUS
    <3>2. j \in 1 .. N /\ j # 1 /\ j - 1 = i + 1 /\ i + 1 <= N
      BY <1>1, <3>1
    <3>3. flat[j] = flat[j - 1] \o seqs[j]
      BY <2>1, <3>2 DEF Flattens
    <3>4. flat[j - 1] \in Seq(C) /\ seqs[j] \in Seq(C)
      BY <1>1, <2>3, <3>2
    <3>5. flat[j - 1] \o seqs[j] \in Seq(C)
      BY <3>4
    <3> QED
      BY <3>1, <3>3, <3>5
  <2>4. \A i \in Nat : i \in S
    <3> HIDE DEF S
    <3> QED
      BY <2>2, <2>3, SetInduction
  <2>5. N - 1 \in Nat /\ (N - 1) + 1 = N
    BY <1>1, <1>3
  <2>6. flat[N] \in Seq(C)
    BY <2>4, <2>5
  <2> QED
    BY <2>1, <2>6
<1> QED
  BY <1>2, <1>3

OrderOk(order) ==
    /\ order.specs \in Seq(ToSet(order.specs))
    /\ \A s \in ToSet(order.specs) :
         Cells(s.plain) /\ Cells(s.index) /\ s.to \in Seq(ToSet(s.to)) /\ s.cs \in Nat

\* What the sections of an order hold before they are compressed or sealed.
Supplied(order, s) == ToSet(s.plain) \cup ToSet(s.index) \cup ToSet(EnvelopesOf(order.suite, s))

Units(order) == UNION {Supplied(order, s) : s \in ToSet(order.specs)}

\* A cell of the body is of the writer's making, or supplied, or a frame of what was
\* supplied, or sealed under the key of a section.
OrderCell(order, c) ==
    /\ WellFormed(c)
    /\ \/ c[1] \in {"cv", "zero"}
       \/ c \in Units(order)
       \/ c[1] = "zstd" /\ ToSet(c[2]) \subseteq Units(order)
       \/ c[1] = "aead" /\ \E s \in ToSet(order.specs) : c[2].key = ContentKey(s)

OrderCells(order, cells) ==
    cells \in Seq(ToSet(cells)) /\ \A c \in ToSet(cells) : OrderCell(order, c)

\* A sequence made cell by cell.
LEMMA MadeCellByCell ==
    ASSUME NEW order, NEW n \in Nat, NEW s, DOMAIN s = 1 .. n, s = [i \in 1 .. n |-> s[i]],
           \A i \in 1 .. n : OrderCell(order, s[i])
    PROVE  OrderCells(order, s)
<1>1. ToSet(s) = {s[i] : i \in 1 .. n}
  BY DEF ToSet
<1>2. s \in [1 .. n -> ToSet(s)]
  BY <1>1
<1>3. s \in Seq(ToSet(s))
  BY <1>2
<1> QED
  BY <1>1, <1>3 DEF OrderCells

LEMMA CountIsNat ==
    ASSUME NEW n \in Nat, NEW cs \in Nat, cs # 0
    PROVE  ChunkCount(n, cs) \in Nat
BY DEF ChunkCount

LEMMA SlicesLength ==
    ASSUME NEW plain, Len(plain) \in Nat, NEW cs \in Nat, cs # 0
    PROVE  \E n \in Nat : DOMAIN Slices(plain, cs) = 1 .. n
BY CountIsNat DEF Slices

\* One frame per chunk, and one at least.
LEMMA FramesLength ==
    ASSUME NEW plain, Len(plain) \in Nat, NEW cs \in Nat
    PROVE  \E n \in Nat : DOMAIN CompressFrames(plain, cs) = 1 .. n
<1> DEFINE parts == IF cs = 0 \/ plain = <<>> THEN <<plain>> ELSE Slices(plain, cs)
<1>1. \E n \in Nat : DOMAIN parts = 1 .. n
  <2>1. DOMAIN <<plain>> = 1 .. 1
    OBVIOUS
  <2> QED
    BY <2>1, SlicesLength
<1>2. DOMAIN CompressFrames(plain, cs) = DOMAIN parts
  BY DEF CompressFrames
<1> QED
  BY <1>1, <1>2

\* The slices of a plaintext, compressed or not, are sequences of units.
LEMMA SlicesAreFrames ==
    ASSUME NEW plain, Frame(plain), NEW cs \in Nat, cs # 0,
           NEW i \in DOMAIN Slices(plain, cs)
    PROVE  Frame(Slices(plain, cs)[i]) /\ ToSet(Slices(plain, cs)[i]) \subseteq ToSet(plain)
<1>1. Len(plain) \in Nat /\ List(plain)
  BY ListMembers DEF Frame
<1>2. PICK m : m = ChunkCount(Len(plain), cs)
  OBVIOUS
<1>3. m \in Nat /\ i \in 1 .. m /\ Slices(plain, cs)[i] = Chunk(plain, i - 1, cs)
  BY <1>1, <1>2, CountIsNat DEF Slices
<1>4. i - 1 \in Nat /\ (i - 1) + 1 = i /\ i \in Nat
  BY <1>3
<1>5. PICK at \in Nat : at = (i - 1) * cs
  BY <1>4, ProductIsNat
<1>6. PICK hi \in Int : hi = IF ((i - 1) + 1) * cs < Len(plain) THEN ((i - 1) + 1) * cs
                             ELSE Len(plain)
  BY <1>1, <1>4, ProductIsNat
<1>7. hi <= Len(plain) /\ at + 1 \in Int /\ at + 1 >= 1
  BY <1>1, <1>4, <1>6, ProductIsNat
<1>8. PICK part : part = SubSeq(plain, at + 1, hi)
  OBVIOUS
<1>9. part \in Seq(ToSet(part)) /\ ToSet(part) \subseteq ToSet(plain)
  BY <1>1, <1>7, <1>8, CutCells DEF List
<1>10. Slices(plain, cs)[i] = part
  BY <1>3, <1>5, <1>6, <1>8 DEF Chunk
<1> QED
  BY <1>9, <1>10 DEF Frame, List

LEMMA FramesAreFrames ==
    ASSUME NEW plain, Frame(plain), NEW cs \in Nat, NEW i \in DOMAIN CompressFrames(plain, cs)
    PROVE  /\ Frame(CompressFrames(plain, cs)[i])
           /\ \E part : /\ Frame(part) /\ ToSet(part) \subseteq ToSet(plain)
                       /\ CompressFrames(plain, cs)[i] = <<<<"zstd", part>>>>
<1> DEFINE parts == IF cs = 0 \/ plain = <<>> THEN <<plain>> ELSE Slices(plain, cs)
<1>1. DOMAIN CompressFrames(plain, cs) = DOMAIN parts
      /\ CompressFrames(plain, cs)[i] = <<<<"zstd", parts[i]>>>>
  BY DEF CompressFrames
<1>2. Frame(parts[i]) /\ ToSet(parts[i]) \subseteq ToSet(plain)
  <2>1. CASE cs = 0 \/ plain = <<>>
    BY <1>1, <2>1
  <2>2. CASE ~(cs = 0 \/ plain = <<>>)
    BY <1>1, <2>2, SlicesAreFrames
  <2> QED
    BY <2>1, <2>2
<1> HIDE DEF parts
<1>3. PICK c : c = <<"zstd", parts[i]>>
  OBVIOUS
<1>4. c[1] = "zstd" /\ c[2] = parts[i]
  BY <1>3
<1>5. Unpacks(c)
  BY <1>2, <1>4 DEF Unpacks, Frame
<1>6. <<c>> \in Seq(ToSet(<<c>>)) /\ ToSet(<<c>>) = {c}
  BY DEF ToSet
<1> QED
  BY <1>1, <1>2, <1>3, <1>5, <1>6 DEF Frame, List

\* A payload is a sequence of units.
LEMMA PayloadIsFrame ==
    ASSUME NEW cells, Cells(cells)
    PROVE  Frame(cells)
BY DEF Cells, WellFormed, Frame, List

LEMMA CompressedCells ==
    ASSUME NEW order, NEW plain, Frame(plain), ToSet(plain) \subseteq Units(order),
           NEW cs \in Nat
    PROVE  OrderCells(order, Compress(plain, cs))
<1> DEFINE frames == CompressFrames(plain, cs)
           parts == IF cs = 0 \/ plain = <<>> THEN <<plain>> ELSE Slices(plain, cs)
           C == {<<"zstd", parts[i]>> : i \in DOMAIN parts}
<1>0. Len(plain) \in Nat
  BY ListMembers DEF Frame
<1>1. PICK n \in Nat : DOMAIN frames = 1 .. n
  BY <1>0, FramesLength
<1>2. frames = [i \in 1 .. n |-> <<<<"zstd", parts[i]>>>>] /\ DOMAIN parts = 1 .. n
  BY <1>1 DEF CompressFrames
<1>3. \A i \in 1 .. n : <<"zstd", parts[i]>> \in C
  BY <1>2
<1>4. ASSUME NEW i \in 1 .. n
      PROVE  OrderCell(order, <<"zstd", parts[i]>>)
  <2>1. PICK part : /\ Frame(part) /\ ToSet(part) \subseteq ToSet(plain)
                    /\ CompressFrames(plain, cs)[i] = <<<<"zstd", part>>>>
    BY <1>1, FramesAreFrames
  <2>2. frames[i] = <<<<"zstd", parts[i]>>>>
    BY <1>2
  <2> HIDE DEF parts
  <2>3. part = parts[i]
    BY <2>1, <2>2
  <2>4. List(parts[i]) /\ ToSet(parts[i]) \subseteq Units(order)
    BY <2>1, <2>3 DEF Frame
  <2> QED
    BY <2>4 DEF OrderCell, WellFormed, Unpacks, Tags
<1>9. \A c \in C : OrderCell(order, c)
  BY <1>2, <1>4
<1> HIDE DEF frames, parts, C
<1>5. \A c \in C : <<c>> \in Seq(C)
  OBVIOUS
<1>6. frames \in [1 .. n -> Seq(C)]
  BY <1>2, <1>3, <1>5
<1>7. frames \in Seq(Seq(C))
  BY <1>6
<1>8. FlattenSeq(frames) \in Seq(C)
  BY <1>7, FlattenInto
<1> QED
  BY <1>8, <1>9, OneSequence DEF Compress, OrderCells, frames

LEMMA EnvelopeCells ==
    ASSUME NEW order, OrderOk(order)
    PROVE  OrderCells(order, AllEnvelopes(order)) /\ ToSet(AllEnvelopes(order)) \subseteq Units(order)
<1> DEFINE specs == order.specs
           C == UNION {ToSet(EnvelopesOf(order.suite, specs[i])) : i \in DOMAIN specs}
           lists == [i \in DOMAIN specs |-> EnvelopesOf(order.suite, specs[i])]
<1>1. /\ specs \in Seq(ToSet(specs)) /\ DOMAIN specs = 1 .. Len(specs) /\ Len(specs) \in Nat
      /\ \A i \in DOMAIN specs : specs[i] \in ToSet(specs)
  BY DEF OrderOk, ToSet
<1>2. ASSUME NEW i \in DOMAIN specs
      PROVE  /\ EnvelopesOf(order.suite, specs[i]) \in Seq(C)
             /\ \A c \in ToSet(EnvelopesOf(order.suite, specs[i])) :
                    OrderCell(order, c) /\ c \in Units(order)
  <2> DEFINE envs == EnvelopesOf(order.suite, specs[i])
  <2>1. DOMAIN specs[i].to = 1 .. Len(specs[i].to) /\ Len(specs[i].to) \in Nat
    BY <1>1 DEF OrderOk
  <2>6. \A c \in ToSet(envs) : c \in Units(order)
    BY <1>1 DEF Units, Supplied
  <2>2. /\ DOMAIN envs = 1 .. Len(specs[i].to)
        /\ envs = [k \in 1 .. Len(specs[i].to) |-> envs[k]]
        /\ \A k \in 1 .. Len(specs[i].to) : OrderCell(order, envs[k])
    <3>1. /\ DOMAIN envs = 1 .. Len(specs[i].to)
          /\ envs = [k \in 1 .. Len(specs[i].to) |-> envs[k]]
          /\ \A k \in 1 .. Len(specs[i].to) : WellFormed(envs[k])
      BY <2>1 DEF EnvelopesOf, WellFormed, Unpacks, Tags
    <3>2. \A k \in 1 .. Len(specs[i].to) : envs[k] \in ToSet(envs)
      BY <3>1 DEF ToSet
    <3> QED
      BY <2>6, <3>1, <3>2 DEF OrderCell
  <2> HIDE DEF envs
  <2>3. OrderCells(order, envs)
    BY <2>1, <2>2, MadeCellByCell
  <2>4. ToSet(envs) \subseteq C
    BY DEF envs
  <2>5. envs \in Seq(C)
    <3> HIDE DEF C
    <3>1. envs \in Seq(ToSet(envs))
      BY <2>3 DEF OrderCells
    <3> QED
      BY <3>1, <2>4
  <2> QED
    BY <2>3, <2>5, <2>6 DEF envs, OrderCells
<1>3. \A c \in C : OrderCell(order, c) /\ c \in Units(order)
  BY <1>2
<1> HIDE DEF C
<1>4. lists \in [1 .. Len(specs) -> Seq(C)]
  BY <1>1, <1>2
<1>5. lists \in Seq(Seq(C))
  <2> HIDE DEF lists, specs
  <2> QED
    BY <1>1, <1>4
<1>6. FlattenSeq(lists) \in Seq(C)
  BY <1>5, FlattenInto
<1> QED
  BY <1>3, <1>6, OneSequence DEF AllEnvelopes, OrderCells

LEMMA NoCells == \A order : OrderCells(order, <<>>)
<1>1. <<>> \in Seq(ToSet(<<>>)) /\ ToSet(<<>>) = {}
  BY DEF ToSet
<1> QED
  BY <1>1 DEF OrderCells

LEMMA SealedCells ==
    ASSUME NEW order, NEW s \in ToSet(order.specs), NEW key, key = ContentKey(s), NEW section, NEW suite, NEW lenPlain, NEW frames,
           \E n \in Nat : DOMAIN frames = 1 .. n, \A i \in DOMAIN frames : Frame(frames[i])
    PROVE  OrderCells(order, SealFrames(key, section, suite, lenPlain, frames).value)
<1> DEFINE body == [i \in DOMAIN frames |->
                      <<"aead", [key |-> key, frame |-> frames[i],
                                 ctx |-> ChunkContext(section, suite, lenPlain, i, Len(frames))]>>]
<1>1. PICK n \in Nat : DOMAIN frames = 1 .. n
  OBVIOUS
<1>2. /\ DOMAIN body = 1 .. n /\ body = [i \in 1 .. n |-> body[i]]
      /\ \A i \in 1 .. n : OrderCell(order, body[i])
  <2>1. \A i \in 1 .. n : WellFormed(body[i])
    BY <1>1 DEF WellFormed, Unpacks, Tags
  <2>2. \A i \in 1 .. n : body[i][1] = "aead" /\ body[i][2].key = key
    BY <1>1
  <2>3. DOMAIN body = 1 .. n /\ body = [i \in 1 .. n |-> body[i]]
    BY <1>1
  <2> HIDE DEF body
  <2> QED
    BY <2>1, <2>2, <2>3 DEF OrderCell
<1> HIDE DEF body
<1>3. OrderCells(order, body)
  BY <1>2, MadeCellByCell
<1>4. SealFrames(key, section, suite, lenPlain, frames).value \in {body, <<>>}
  BY DEF SealFrames, Ok, Failed, body
<1> QED
  BY <1>3, <1>4, NoCells

\* What is stored of a section, and its chunk index.
LEMMA StoredCells ==
    ASSUME NEW order, OrderOk(order), NEW s \in ToSet(order.specs)
    PROVE  OrderCells(order, Stored(order, s).value)
<1>1. Cells(s.plain) /\ s.cs \in Nat /\ Len(s.plain) \in Nat
  <2>1. Cells(s.plain) /\ s.cs \in Nat
    BY DEF OrderOk
  <2> QED
    BY <2>1 DEF Cells
<1>2. OrderCells(order, PlainOf(order, s)) /\ Cells(PlainOf(order, s))
      /\ ToSet(PlainOf(order, s)) \subseteq Units(order)
  <2>1. ToSet(s.plain) \subseteq Units(order)
    BY DEF Units, Supplied
  <2>2. OrderCells(order, s.plain)
    BY <1>1, <2>1 DEF Cells, OrderCells, OrderCell
  <2>3. PlainOf(order, s) \in {AllEnvelopes(order), s.plain}
    BY DEF PlainOf
  <2>4. OrderCells(order, PlainOf(order, s)) /\ ToSet(PlainOf(order, s)) \subseteq Units(order)
    BY <2>1, <2>2, <2>3, EnvelopeCells
  <2> QED
    BY <2>4 DEF Cells, OrderCells, OrderCell
<1>3. OrderCells(order, SealedBody(order.suite, s).value)
  <2>1. CASE s.from # "inline" \/ s.cs = 0
    <3>1. SealedBody(order.suite, s) = Failed
      BY <2>1 DEF SealedBody
    <3> QED
      BY <3>1, NoCells DEF Failed
  <2>2. CASE ~(s.from # "inline" \/ s.cs = 0) /\ s.comp = "none"
    <3>1. \E n \in Nat : DOMAIN Slices(s.plain, s.cs) = 1 .. n
      BY <1>1, <2>2, SlicesLength
    <3>2. SealedBody(order.suite, s)
            = SealChunked(ContentKey(s), s.name, order.suite, s.cs, s.plain)
      BY <2>2 DEF SealedBody
    <3>3. CASE ValidChunkSize(s.cs)
      <4>1. \A i \in DOMAIN Slices(s.plain, s.cs) : Frame(Slices(s.plain, s.cs)[i])
        BY <1>1, <2>2, PayloadIsFrame, SlicesAreFrames
      <4> QED
        BY <3>1, <3>2, <3>3, <4>1, SealedCells DEF SealChunked
    <3>4. CASE ~ValidChunkSize(s.cs)
      BY <3>2, <3>4, NoCells DEF SealChunked, Failed
    <3> QED
      BY <3>3, <3>4
  <2>3. CASE ~(s.from # "inline" \/ s.cs = 0) /\ s.comp # "none"
    <3>1. \E n \in Nat : DOMAIN CompressFrames(s.plain, s.cs) = 1 .. n
      BY <1>1, FramesLength
    <3>2. SealedBody(order.suite, s)
            = SealFrames(ContentKey(s), s.name, order.suite, Len(s.plain),
                         CompressFrames(s.plain, s.cs))
      BY <2>3 DEF SealedBody
    <3>3. \A i \in DOMAIN CompressFrames(s.plain, s.cs) : Frame(CompressFrames(s.plain, s.cs)[i])
      BY <1>1, PayloadIsFrame, FramesAreFrames
    <3> QED
      BY <3>1, <3>2, <3>3, SealedCells
  <2> QED
    BY <2>1, <2>2, <2>3
<1>4. OrderCells(order, Compress(PlainOf(order, s), s.cs))
  BY <1>1, <1>2, PayloadIsFrame, CompressedCells
<1>5. Stored(order, s).value \in
        {SealedBody(order.suite, s).value, <<>>, Compress(PlainOf(order, s), s.cs),
         PlainOf(order, s)}
  BY DEF Stored, Ok
<1> QED
  BY <1>2, <1>3, <1>4, <1>5, NoCells

LEMMA IndexCells ==
    ASSUME NEW order, OrderOk(order), NEW s \in ToSet(order.specs)
    PROVE  OrderCells(order, IndexOf(s).value)
<1>1. OrderCells(order, s.index) /\ s.cs \in Nat /\ Len(s.plain) \in Nat
  <2>1. Cells(s.index) /\ Cells(s.plain) /\ s.cs \in Nat
    BY DEF OrderOk
  <2>2. ToSet(s.index) \subseteq Units(order)
    BY DEF Units, Supplied
  <2> QED
    BY <2>1, <2>2 DEF Cells, OrderCells, OrderCell
<1>2. OrderCells(order, BuildIndex(s.plain, s.cs).value)
  <2> DEFINE n == ChunkCount(Len(s.plain), s.cs)
             cvs == [i \in 1 .. n |-> ChunkCv(Chunk(s.plain, i - 1, s.cs), i - 1, s.cs)]
             cells == [i \in DOMAIN cvs |-> <<"cv", cvs[i].value>>]
  <2>1. CASE s.cs = 0
    BY <2>1, NoCells DEF BuildIndex, Failed
  <2>2. CASE s.cs # 0
    <3>1. n \in Nat
      BY <1>1, <2>2, CountIsNat
    <3>2. /\ DOMAIN cells = 1 .. n /\ cells = [i \in 1 .. n |-> cells[i]]
          /\ \A i \in 1 .. n : OrderCell(order, cells[i])
      <4> HIDE DEF n
      <4> QED
        BY <3>1 DEF OrderCell, WellFormed, Unpacks, Tags
    <3>3. OrderCells(order, cells)
      <4> HIDE DEF cells, n
      <4> QED
        BY <3>1, <3>2, MadeCellByCell
    <3>4. BuildIndex(s.plain, s.cs).value \in {cells, <<>>}
      BY <2>2 DEF BuildIndex, Ok, Failed
    <3> HIDE DEF cells
    <3> QED
      BY <3>3, <3>4, NoCells
  <2> QED
    BY <2>1, <2>2
<1>3. IndexOf(s).value \in {s.index, <<>>, BuildIndex(s.plain, s.cs).value}
  BY DEF IndexOf, AndThen, Ok, Failed
<1> QED
  BY <1>1, <1>2, <1>3, NoCells

\* A section is placed behind the others.
LEMMA PlacedBody ==
    ASSUME NEW C, <<"zero", 0>> \in C, NEW done \in [body : Seq(C), offs : Seq(Nat)],
           NEW cells \in Seq(C), NEW align \in Nat \ {0}, NEW absent \in BOOLEAN
    PROVE  Place(done, cells, align, absent) \in [body : Seq(C), offs : Seq(Nat)]
<1> DEFINE k == (align - ((HeaderLen + Len(done.body)) % align)) % align
<1>1. k \in Nat
  <2>1. (HeaderLen + Len(done.body)) % align \in 0 .. align - 1
    <3>1. HeaderLen + Len(done.body) \in Nat
      BY DEF HeaderLen
    <3> QED
      BY <3>1
  <2>2. align - ((HeaderLen + Len(done.body)) % align) \in Nat
    BY <2>1
  <2> QED
    BY <2>2
<1>2. Zeros(k) \in Seq(C)
  <2> HIDE DEF k
  <2>1. Zeros(k) \in [1 .. k -> C]
    BY DEF Zeros
  <2> QED
    BY <1>1, <2>1
<1>3. Padded(done.body, align) \in Seq(C)
  <2>1. Padded(done.body, align) = done.body \o Zeros(k)
    BY DEF Padded
  <2> HIDE DEF k
  <2> QED
    BY <1>2, <2>1
<1> DEFINE body == Padded(done.body, align)
<1>4. /\ body \o cells \in Seq(C) /\ HeaderLen + Len(body) \in Nat
      /\ Append(done.offs, 0) \in Seq(Nat) /\ Append(done.offs, HeaderLen + Len(body)) \in Seq(Nat)
  <2> HIDE DEF body
  <2>1. Len(body) \in Nat /\ HeaderLen \in Nat
    BY <1>3 DEF body, HeaderLen
  <2>2. HeaderLen + Len(body) \in Nat
    BY <2>1
  <2>3. body \o cells \in Seq(C)
    BY <1>3 DEF body
  <2> QED
    BY <2>2, <2>3
<1>5. CASE absent
  BY <1>4, <1>5 DEF Place
<1>6. CASE ~absent
  <2>1. Place(done, cells, align, absent)
          = [done EXCEPT !.body = body \o cells, !.offs = Append(@, HeaderLen + Len(body))]
    BY <1>6 DEF Place
  <2> HIDE DEF body
  <2> QED
    BY <1>4, <2>1
<1> QED
  BY <1>5, <1>6

\* A set of cells that holds what a body is made of.
CellsFor(order, s) == ToSet(Stored(order, s).value) \cup ToSet(IndexOf(s).value)

CellsOf(order) == {<<"zero", 0>>} \cup UNION {CellsFor(order, s) : s \in ToSet(order.specs)}

LEMMA CellsOfOrder ==
    ASSUME NEW order, OrderOk(order)
    PROVE  /\ \A c \in CellsOf(order) : OrderCell(order, c)
           /\ \A s \in ToSet(order.specs) : /\ Stored(order, s).value \in Seq(CellsOf(order))
                                            /\ IndexOf(s).value \in Seq(CellsOf(order))
<1> DEFINE C == CellsOf(order)
<1>1. OrderCell(order, <<"zero", 0>>)
  BY DEF OrderCell, WellFormed, Unpacks, Tags
<1>2. ASSUME NEW s \in ToSet(order.specs)
      PROVE  OrderCells(order, Stored(order, s).value) /\ OrderCells(order, IndexOf(s).value)
  BY StoredCells, IndexCells
<1>3. \A c \in C : OrderCell(order, c)
  <2>1. ASSUME NEW s \in ToSet(order.specs), NEW c \in CellsFor(order, s)
        PROVE  OrderCell(order, c)
    BY <1>2 DEF OrderCells, CellsFor
  <2>2. ASSUME NEW c \in C, c # <<"zero", 0>>
        PROVE  \E s \in ToSet(order.specs) : c \in CellsFor(order, s)
    BY <2>2 DEF CellsOf
  <2> QED
    BY <1>1, <2>1, <2>2
<1>5. \A s \in ToSet(order.specs) : /\ ToSet(Stored(order, s).value) \subseteq C
                                    /\ ToSet(IndexOf(s).value) \subseteq C
  <2>1. \A s \in ToSet(order.specs) : CellsFor(order, s) \subseteq C
    BY DEF CellsOf
  <2> HIDE DEF C
  <2> QED
    BY <2>1 DEF CellsFor
<1> HIDE DEF C
<1>4. ASSUME NEW cells, OrderCells(order, cells), ToSet(cells) \subseteq C
      PROVE  cells \in Seq(C)
  <2>1. cells \in Seq(ToSet(cells))
    BY <1>4 DEF OrderCells
  <2> QED
    BY <1>4, <2>1
<1> QED
  BY <1>2, <1>3, <1>4, <1>5 DEF C

\* Both passes walk over the sections and place something of each.
PayloadsStep(order, n, d) ==
    Place(d, Stored(order, order.specs[n]).value, PayloadAlign, order.specs[n].from = "external")

IndicesStep(order, n, d) == PlaceIndex(d, IndexOf(order.specs[n]).value)

BodiesOf(order) == [body : Seq(CellsOf(order)), offs : Seq(Nat)]

LEMMA PayloadsWalk ==
    ASSUME NEW order, OrderOk(order)
    PROVE  \E done : /\ Payloads(order) = done[Len(order.specs)]
                     /\ done[0] = [body |-> <<>>, offs |-> <<>>]
                     /\ \A n \in 0 .. Len(order.specs) : done[n] \in BodiesOf(order)
                     /\ \A n \in 1 .. Len(order.specs) :
                           done[n] = PayloadsStep(order, n, done[n - 1])
<1> DEFINE C == CellsOf(order)
           V == [body : Seq(C), offs : Seq(Nat)]
           N == Len(order.specs)
           base == [body |-> <<>>, offs |-> <<>>]
           g == [x \in (1 .. N) \X V |->
                    Place(x[2], Stored(order, order.specs[x[1]]).value, PayloadAlign,
                          order.specs[x[1]].from = "external")]
           done == CHOOSE d : d = [n \in 0 .. N |->
                       IF n = 0 THEN base
                       ELSE Place(d[n - 1], Stored(order, order.specs[n]).value, PayloadAlign,
                                  order.specs[n].from = "external")]
<1>1. N \in Nat /\ \A n \in 1 .. N : order.specs[n] \in ToSet(order.specs)
  <2>1. order.specs \in Seq(ToSet(order.specs))
    BY DEF OrderOk
  <2> QED
    BY <2>1
<1>2. base \in V
  OBVIOUS
<1>3. /\ <<"zero", 0>> \in C /\ PayloadAlign \in Nat \ {0}
      /\ \A s \in ToSet(order.specs) : Stored(order, s).value \in Seq(C)
  BY CellsOfOrder, LayoutAssumption DEF CellsOf
<1>4. Payloads(order) = done[N]
  BY DEF Payloads
<1> HIDE DEF C, N, base, done
<1>5. g \in [(1 .. N) \X V -> V]
  <2> HIDE DEF V
  <2>1. ASSUME NEW n \in 1 .. N, NEW d \in V
        PROVE  Place(d, Stored(order, order.specs[n]).value, PayloadAlign,
                     order.specs[n].from = "external") \in V
    <3>1. Stored(order, order.specs[n]).value \in Seq(C)
      BY <1>1, <1>3
    <3>2. (order.specs[n].from = "external") \in BOOLEAN
      OBVIOUS
    <3> QED
      BY <1>3, <3>1, <3>2, PlacedBody DEF V
  <2> QED
    BY <2>1
<1>6. \A n \in 1 .. N, d \in V :
          g[<<n, d>>] = Place(d, Stored(order, order.specs[n]).value, PayloadAlign,
                              order.specs[n].from = "external")
  <2> HIDE DEF V
  <2> QED
    OBVIOUS
<1> HIDE DEF g, V
<1>7. PICK f : Recursion(f, N, V, base, g)
  BY <1>1, <1>2, <1>5, RecursionExists
<1>8. ASSUME NEW n \in 0 .. N
      PROVE  f[n] = IF n = 0 THEN base
                    ELSE Place(f[n - 1], Stored(order, order.specs[n]).value, PayloadAlign,
                               order.specs[n].from = "external")
  <2>1. CASE n = 0
    BY <1>7, <2>1 DEF Recursion
  <2>2. CASE n # 0
    <3>1. n \in 1 .. N /\ n - 1 \in 0 .. N
      BY <1>1, <2>2
    <3>2. f[n - 1] \in V /\ f[n] = g[<<n, f[n - 1]>>]
      BY <1>7, <3>1 DEF Recursion
    <3> QED
      BY <1>6, <2>2, <3>1, <3>2
  <2> QED
    BY <2>1, <2>2
<1>9. f = [n \in 0 .. N |-> IF n = 0 THEN base
                            ELSE Place(f[n - 1], Stored(order, order.specs[n]).value, PayloadAlign,
                                       order.specs[n].from = "external")]
  <2> DEFINE e == [n \in 0 .. N |->
                      IF n = 0 THEN base
                      ELSE Place(f[n - 1], Stored(order, order.specs[n]).value, PayloadAlign,
                                 order.specs[n].from = "external")]
  <2>1. f = [n \in 0 .. N |-> f[n]]
    BY <1>7 DEF Recursion
  <2>2. e = [n \in 0 .. N |-> e[n]] /\ \A n \in 0 .. N : f[n] = e[n]
    BY <1>8
  <2> HIDE DEF e
  <2>3. f = e
    BY <2>1, <2>2
  <2> QED
    BY <2>3 DEF e
<1>10. done = [n \in 0 .. N |->
                  IF n = 0 THEN base
                  ELSE Place(done[n - 1], Stored(order, order.specs[n]).value, PayloadAlign,
                             order.specs[n].from = "external")]
  BY <1>9 DEF done
<1>11. done[0] \in V
  BY <1>1, <1>2, <1>10
<1>12. ASSUME NEW n \in 1 .. N, done[n - 1] \in V
       PROVE  done[n] \in V
  <2>1. n \in 0 .. N /\ n # 0
    BY <1>1
  <2>2. done[n] = Place(done[n - 1], Stored(order, order.specs[n]).value, PayloadAlign,
                        order.specs[n].from = "external")
    BY <1>10, <2>1
  <2>3. g[<<n, done[n - 1]>>] \in V
    BY <1>5, <1>12
  <2> QED
    BY <1>6, <1>12, <2>2, <2>3
<1>13. \A n \in 0 .. N : done[n] \in V
  BY <1>1, <1>11, <1>12, StaysIn
<1>14. \A n \in 1 .. N : done[n] = PayloadsStep(order, n, done[n - 1])
  <2>1. \A n \in 1 .. N : n \in 0 .. N /\ n # 0
    BY <1>1
  <2> QED
    BY <1>10, <2>1 DEF PayloadsStep
<1>15. done[0] = base
  BY <1>1, <1>10
<1>16. \A n \in 0 .. N : done[n] \in BodiesOf(order)
  BY <1>13 DEF V, C, BodiesOf
<1> QED
  BY <1>4, <1>14, <1>15, <1>16 DEF N, base

LEMMA PayloadsBody ==
    ASSUME NEW order, OrderOk(order)
    PROVE  Payloads(order) \in [body : Seq(CellsOf(order)), offs : Seq(Nat)]
<1>1. Len(order.specs) \in Nat
  BY DEF OrderOk
<1>2. PICK done : /\ Payloads(order) = done[Len(order.specs)]
                  /\ \A n \in 0 .. Len(order.specs) : done[n] \in BodiesOf(order)
  BY PayloadsWalk
<1> QED
  BY <1>1, <1>2 DEF BodiesOf


LEMMA IndicesWalk ==
    ASSUME NEW order, OrderOk(order),
           NEW payloads \in [body : Seq(CellsOf(order)), offs : Seq(Nat)]
    PROVE  \E done : /\ Indices(order, payloads) = done[Len(order.specs)]
                     /\ done[0] = [body |-> payloads.body, offs |-> <<>>]
                     /\ \A n \in 0 .. Len(order.specs) : done[n] \in BodiesOf(order)
                     /\ \A n \in 1 .. Len(order.specs) :
                           done[n] = IndicesStep(order, n, done[n - 1])
<1> DEFINE C == CellsOf(order)
           V == [body : Seq(C), offs : Seq(Nat)]
           N == Len(order.specs)
           base == [body |-> payloads.body, offs |-> <<>>]
           g == [x \in (1 .. N) \X V |->
                    PlaceIndex(x[2], IndexOf(order.specs[x[1]]).value)]
           done == CHOOSE d : d = [n \in 0 .. N |->
                       IF n = 0 THEN base
                       ELSE PlaceIndex(d[n - 1], IndexOf(order.specs[n]).value)]
<1>1. N \in Nat /\ \A n \in 1 .. N : order.specs[n] \in ToSet(order.specs)
  <2>1. order.specs \in Seq(ToSet(order.specs))
    BY DEF OrderOk
  <2> QED
    BY <2>1
<1>2. base \in V
  OBVIOUS
<1>3. /\ <<"zero", 0>> \in C
      /\ \A s \in ToSet(order.specs) : IndexOf(s).value \in Seq(C)
  BY CellsOfOrder DEF CellsOf
<1>4. Indices(order, payloads) = done[N]
  BY DEF Indices
<1> HIDE DEF C, N, base, done
<1>5. g \in [(1 .. N) \X V -> V]
  <2> HIDE DEF V
  <2>1. ASSUME NEW n \in 1 .. N, NEW d \in V
        PROVE  PlaceIndex(d, IndexOf(order.specs[n]).value) \in V
    <3>1. IndexOf(order.specs[n]).value \in Seq(C)
      BY <1>1, <1>3
    <3>2. (IndexOf(order.specs[n]).value = <<>>) \in BOOLEAN /\ 1 \in Nat \ {0}
      OBVIOUS
    <3> QED
      BY <1>3, <3>1, <3>2, PlacedBody DEF V, PlaceIndex
  <2> QED
    BY <2>1
<1>6. \A n \in 1 .. N, d \in V :
          g[<<n, d>>] = PlaceIndex(d, IndexOf(order.specs[n]).value)
  <2> HIDE DEF V
  <2> QED
    OBVIOUS
<1> HIDE DEF g, V
<1>7. PICK f : Recursion(f, N, V, base, g)
  BY <1>1, <1>2, <1>5, RecursionExists
<1>8. ASSUME NEW n \in 0 .. N
      PROVE  f[n] = IF n = 0 THEN base
                    ELSE PlaceIndex(f[n - 1], IndexOf(order.specs[n]).value)
  <2>1. CASE n = 0
    BY <1>7, <2>1 DEF Recursion
  <2>2. CASE n # 0
    <3>1. n \in 1 .. N /\ n - 1 \in 0 .. N
      BY <1>1, <2>2
    <3>2. f[n - 1] \in V /\ f[n] = g[<<n, f[n - 1]>>]
      BY <1>7, <3>1 DEF Recursion
    <3> QED
      BY <1>6, <2>2, <3>1, <3>2
  <2> QED
    BY <2>1, <2>2
<1>9. f = [n \in 0 .. N |-> IF n = 0 THEN base
                            ELSE PlaceIndex(f[n - 1], IndexOf(order.specs[n]).value)]
  <2> DEFINE e == [n \in 0 .. N |->
                      IF n = 0 THEN base
                      ELSE PlaceIndex(f[n - 1], IndexOf(order.specs[n]).value)]
  <2>1. f = [n \in 0 .. N |-> f[n]]
    BY <1>7 DEF Recursion
  <2>2. e = [n \in 0 .. N |-> e[n]] /\ \A n \in 0 .. N : f[n] = e[n]
    BY <1>8
  <2> HIDE DEF e
  <2>3. f = e
    BY <2>1, <2>2
  <2> QED
    BY <2>3 DEF e
<1>10. done = [n \in 0 .. N |->
                  IF n = 0 THEN base
                  ELSE PlaceIndex(done[n - 1], IndexOf(order.specs[n]).value)]
  BY <1>9 DEF done
<1>11. done[0] \in V
  BY <1>1, <1>2, <1>10
<1>12. ASSUME NEW n \in 1 .. N, done[n - 1] \in V
       PROVE  done[n] \in V
  <2>1. n \in 0 .. N /\ n # 0
    BY <1>1
  <2>2. done[n] = PlaceIndex(done[n - 1], IndexOf(order.specs[n]).value)
    BY <1>10, <2>1
  <2>3. g[<<n, done[n - 1]>>] \in V
    BY <1>5, <1>12
  <2> QED
    BY <1>6, <1>12, <2>2, <2>3
<1>13. \A n \in 0 .. N : done[n] \in V
  BY <1>1, <1>11, <1>12, StaysIn
<1>14. \A n \in 1 .. N : done[n] = IndicesStep(order, n, done[n - 1])
  <2>1. \A n \in 1 .. N : n \in 0 .. N /\ n # 0
    BY <1>1
  <2> QED
    BY <1>10, <2>1 DEF IndicesStep
<1>15. done[0] = base
  BY <1>1, <1>10
<1>16. \A n \in 0 .. N : done[n] \in BodiesOf(order)
  BY <1>13 DEF V, C, BodiesOf
<1> QED
  BY <1>4, <1>14, <1>15, <1>16 DEF N, base

LEMMA IndicesBody ==
    ASSUME NEW order, OrderOk(order),
           NEW payloads \in [body : Seq(CellsOf(order)), offs : Seq(Nat)]
    PROVE  Indices(order, payloads) \in [body : Seq(CellsOf(order)), offs : Seq(Nat)]
<1>1. Len(order.specs) \in Nat
  BY DEF OrderOk
<1>2. PICK done : /\ Indices(order, payloads) = done[Len(order.specs)]
                  /\ \A n \in 0 .. Len(order.specs) : done[n] \in BodiesOf(order)
  BY IndicesWalk
<1> QED
  BY <1>1, <1>2 DEF BodiesOf


\* `cells` stand in a body, which begins behind the header, at an offset of the file.
Keeps(body, off, cells) ==
    /\ off \in Nat /\ off >= HeaderLen
    /\ (off - HeaderLen) + Len(cells) <= Len(body)
    /\ \A j \in 1 .. Len(cells) : body[(off - HeaderLen) + j] = cells[j]

\* `long` begins with `short`.
Begins(long, short) ==
    Len(short) <= Len(long) /\ \A k \in 1 .. Len(short) : long[k] = short[k]

LEMMA JoinedBegins ==
    ASSUME NEW C, NEW a \in Seq(C), NEW b \in Seq(C)
    PROVE  /\ a \o b \in Seq(C) /\ Len(a \o b) = Len(a) + Len(b) /\ Begins(a \o b, a)
           /\ \A j \in 1 .. Len(b) : (a \o b)[Len(a) + j] = b[j]
<1>1. /\ a \o b \in Seq(C) /\ Len(a \o b) = Len(a) + Len(b)
      /\ \A i \in 1 .. Len(a) + Len(b) :
            (a \o b)[i] = IF i <= Len(a) THEN a[i] ELSE b[i - Len(a)]
  BY ConcatProperties
<1>2. PICK c : c = a \o b
  OBVIOUS
<1>3. Len(a) \in Nat /\ Len(b) \in Nat
  OBVIOUS
<1>4. Begins(c, a)
  BY <1>1, <1>2, <1>3 DEF Begins
<1>5. ASSUME NEW j \in 1 .. Len(b)
      PROVE  c[Len(a) + j] = b[j]
  <2>1. Len(a) + j \in 1 .. Len(a) + Len(b) /\ ~(Len(a) + j <= Len(a)) /\ (Len(a) + j) - Len(a) = j
    BY <1>3
  <2> QED
    BY <1>1, <1>2, <2>1
<1> QED
  BY <1>1, <1>2, <1>4, <1>5

\* What was there stays, and the new cells are where the new offset says.
PlacedBehind(C, done, cells, absent, d) ==
    /\ d \in [body : Seq(C), offs : Seq(Nat)]
    /\ Len(d.offs) = Len(done.offs) + 1 /\ Begins(d.offs, done.offs)
    /\ Begins(d.body, done.body)
    /\ IF absent THEN d.offs[Len(d.offs)] = 0 ELSE Keeps(d.body, d.offs[Len(d.offs)], cells)

LEMMA PlacedCells ==
    ASSUME NEW C, <<"zero", 0>> \in C, NEW done \in [body : Seq(C), offs : Seq(Nat)],
           NEW cells \in Seq(C), NEW align \in Nat \ {0}, NEW absent \in BOOLEAN,
           NEW d, d = Place(done, cells, align, absent)
    PROVE  PlacedBehind(C, done, cells, absent, d)
<1>1. d \in [body : Seq(C), offs : Seq(Nat)]
  BY PlacedBody
<1> DEFINE k == (align - ((HeaderLen + Len(done.body)) % align)) % align
<1>2. k \in Nat
  <2>1. (HeaderLen + Len(done.body)) % align \in 0 .. align - 1
    <3>1. HeaderLen + Len(done.body) \in Nat
      BY DEF HeaderLen
    <3> QED
      BY <3>1
  <2>2. align - ((HeaderLen + Len(done.body)) % align) \in Nat
    BY <2>1
  <2> QED
    BY <2>2
<1>3. PICK padding \in Seq(C) : Padded(done.body, align) = done.body \o padding
  <2>1. Padded(done.body, align) = done.body \o Zeros(k)
    BY DEF Padded
  <2>2. Zeros(k) \in Seq(C)
    <3> HIDE DEF k
    <3>1. Zeros(k) \in [1 .. k -> C]
      BY DEF Zeros
    <3> QED
      BY <1>2, <3>1
  <2> QED
    BY <2>1, <2>2
<1>4. PICK body : body = done.body \o padding
  OBVIOUS
<1>5. body \in Seq(C) /\ Begins(body, done.body) /\ Len(body) \in Nat
  <2>1. done.body \in Seq(C)
    OBVIOUS
  <2> QED
    BY <1>4, <2>1, JoinedBegins
<1>6. PICK more : more = body \o cells
  OBVIOUS
<1>7. /\ more \in Seq(C) /\ Len(more) = Len(body) + Len(cells) /\ Begins(more, body)
      /\ \A j \in 1 .. Len(cells) : more[Len(body) + j] = cells[j]
  BY <1>5, <1>6, JoinedBegins
<1>8. PICK offs : offs = done.offs
  OBVIOUS
<1>9. offs \in Seq(Nat) /\ Len(offs) \in Nat
  BY <1>8
<1>10. ASSUME NEW x \in Nat
       PROVE  /\ Len(Append(offs, x)) = Len(offs) + 1 /\ Begins(Append(offs, x), offs)
              /\ Append(offs, x)[Len(offs) + 1] = x
  BY <1>9 DEF Begins
<1>11. CASE absent
  <2>1. d = [done EXCEPT !.offs = Append(@, 0)]
    BY <1>11 DEF Place
  <2>2. d.offs = Append(offs, 0) /\ d.body = done.body
    BY <1>8, <2>1
  <2>3. 0 \in Nat /\ Begins(d.body, done.body)
    BY <2>2 DEF Begins
  <2> QED
    BY <1>1, <1>8, <1>10, <1>11, <2>2, <2>3 DEF PlacedBehind
<1>12. CASE ~absent
  <2>1. d = [done EXCEPT !.body = more, !.offs = Append(@, HeaderLen + Len(body))]
    BY <1>3, <1>4, <1>6, <1>12 DEF Place
  <2>2. d.offs = Append(offs, HeaderLen + Len(body)) /\ d.body = more
    BY <1>8, <2>1
  <2>3. HeaderLen + Len(body) \in Nat /\ (HeaderLen + Len(body)) - HeaderLen = Len(body)
        /\ HeaderLen + Len(body) >= HeaderLen
    BY <1>5 DEF HeaderLen
  <2>4. Keeps(more, HeaderLen + Len(body), cells)
    <3>1. PICK off : off = HeaderLen + Len(body)
      OBVIOUS
    <3>2. off \in Nat /\ off >= HeaderLen /\ off - HeaderLen = Len(body)
      BY <2>3, <3>1
    <3>3. (off - HeaderLen) + Len(cells) <= Len(more)
      BY <1>7, <1>5, <3>2
    <3>4. \A j \in 1 .. Len(cells) : more[(off - HeaderLen) + j] = cells[j]
      BY <1>7, <3>2
    <3> QED
      BY <3>1, <3>2, <3>3, <3>4 DEF Keeps
  <2>5. Begins(more, done.body)
    <3>1. Len(done.body) \in Nat
      OBVIOUS
    <3> QED
      BY <1>5, <1>7, <3>1 DEF Begins
  <2>6. d.offs[Len(d.offs)] = HeaderLen + Len(body) /\ Len(d.offs) = Len(done.offs) + 1
        /\ Begins(d.offs, done.offs)
    BY <1>8, <1>10, <2>2, <2>3
  <2> QED
    BY <1>1, <1>12, <2>2, <2>4, <2>5, <2>6 DEF PlacedBehind
<1> QED
  BY <1>11, <1>12

LEMMA KeepsLonger ==
    ASSUME NEW C, NEW a \in Seq(C), NEW b \in Seq(C), NEW cells \in Seq(C), NEW off,
           Keeps(a, off, cells), Begins(b, a)
    PROVE  Keeps(b, off, cells)
<1>1. Len(a) \in Nat /\ Len(b) \in Nat /\ Len(cells) \in Nat
  OBVIOUS
<1>2. PICK k : k = off - HeaderLen
  OBVIOUS
<1>3. /\ off \in Nat /\ off >= HeaderLen /\ k + Len(cells) <= Len(a)
      /\ \A j \in 1 .. Len(cells) : a[k + j] = cells[j]
  BY <1>2 DEF Keeps
<1>4. k \in Nat
  BY <1>2, <1>3 DEF HeaderLen
<1>5. Len(a) <= Len(b) /\ \A i \in 1 .. Len(a) : b[i] = a[i]
  BY DEF Begins
<1>6. k + Len(cells) <= Len(b)
  BY <1>1, <1>3, <1>4, <1>5
<1>7. ASSUME NEW j \in 1 .. Len(cells)
      PROVE  b[k + j] = cells[j]
  <2>1. k + j \in 1 .. Len(a)
    BY <1>1, <1>3, <1>4
  <2> QED
    BY <1>3, <1>5, <2>1
<1> QED
  BY <1>2, <1>3, <1>6, <1>7 DEF Keeps

\* The first n payloads are where the offsets say; an external section has none.
PlacedAt(order, i, d) ==
    IF order.specs[i].from = "external" THEN d.offs[i] = 0
    ELSE Keeps(d.body, d.offs[i], Stored(order, order.specs[i]).value)

KeptSoFar(order, n, d) == Len(d.offs) = n /\ \A i \in 1 .. n : PlacedAt(order, i, d)

LEMMA OneMoreKept ==
    ASSUME NEW order, OrderOk(order), NEW n \in 1 .. Len(order.specs),
           NEW d \in BodiesOf(order), KeptSoFar(order, n - 1, d),
           NEW e, e = PayloadsStep(order, n, d)
    PROVE  KeptSoFar(order, n, e)
<1>0. /\ n \in Nat /\ n - 1 \in Nat
      /\ \A i \in 1 .. Len(order.specs) : order.specs[i] \in ToSet(order.specs)
  BY DEF OrderOk, ToSet
<1> DEFINE s == order.specs[n]
           cells == Stored(order, s).value
           C == CellsOf(order)
<1>1. /\ <<"zero", 0>> \in C /\ PayloadAlign \in Nat \ {0}
      /\ \A i \in 1 .. Len(order.specs) : Stored(order, order.specs[i]).value \in Seq(C)
  BY <1>0, CellsOfOrder, LayoutAssumption DEF CellsOf
<1>2. e = Place(d, cells, PayloadAlign, s.from = "external")
  BY DEF PayloadsStep
<1>3. cells \in Seq(C) /\ (s.from = "external") \in BOOLEAN
  BY <1>1
<1>4. d \in [body : Seq(C), offs : Seq(Nat)]
  BY DEF BodiesOf
<1> HIDE DEF cells, C, s
<1>5. /\ e \in [body : Seq(C), offs : Seq(Nat)]
      /\ Len(e.offs) = Len(d.offs) + 1 /\ Begins(e.offs, d.offs) /\ Begins(e.body, d.body)
      /\ IF s.from = "external" THEN e.offs[Len(e.offs)] = 0
         ELSE Keeps(e.body, e.offs[Len(e.offs)], cells)
  <2>1. PICK absent \in BOOLEAN : absent = (s.from = "external")
    BY <1>3
  <2>2. e = Place(d, cells, PayloadAlign, absent) /\ PayloadAlign \in Nat \ {0}
    BY <1>1, <1>2, <2>1
  <2>3. PlacedBehind(C, d, cells, absent, e)
    BY <1>1, <1>3, <1>4, <2>2, PlacedCells
  <2> QED
    BY <2>1, <2>3 DEF PlacedBehind
<1>6. Len(d.offs) = n - 1 /\ Len(e.offs) = n
  BY <1>0, <1>5 DEF KeptSoFar
<1>7. PlacedAt(order, n, e)
  BY <1>5, <1>6 DEF PlacedAt, s, cells
<1>8. ASSUME NEW i \in 1 .. n - 1
      PROVE  PlacedAt(order, i, e)
  <2>1. PlacedAt(order, i, d) /\ e.offs[i] = d.offs[i] /\ i \in 1 .. Len(order.specs)
    BY <1>0, <1>5, <1>6 DEF KeptSoFar, Begins
  <2>2. CASE order.specs[i].from = "external"
    BY <2>1, <2>2 DEF PlacedAt
  <2>3. CASE order.specs[i].from # "external"
    <3>1. Keeps(d.body, d.offs[i], Stored(order, order.specs[i]).value)
      BY <2>1, <2>3 DEF PlacedAt
    <3>2. d.body \in Seq(C) /\ e.body \in Seq(C) /\ Stored(order, order.specs[i]).value \in Seq(C)
      BY <1>1, <1>4, <1>5, <2>1
    <3>3. Keeps(e.body, d.offs[i], Stored(order, order.specs[i]).value)
      BY <1>5, <3>1, <3>2, KeepsLonger
    <3> QED
      BY <2>1, <2>3, <3>3 DEF PlacedAt
  <2> QED
    BY <2>2, <2>3
<1>9. \A i \in 1 .. n : i = n \/ i \in 1 .. n - 1
  BY <1>0
<1> QED
  BY <1>6, <1>7, <1>8, <1>9 DEF KeptSoFar

LEMMA PayloadsKept ==
    ASSUME NEW order, OrderOk(order)
    PROVE  KeptSoFar(order, Len(order.specs), Payloads(order))
<1> DEFINE N == Len(order.specs)
<1>1. N \in Nat
  BY DEF OrderOk
<1>2. PICK done : /\ Payloads(order) = done[N]
                  /\ done[0] = [body |-> <<>>, offs |-> <<>>]
                  /\ \A n \in 0 .. N : done[n] \in BodiesOf(order)
                  /\ \A n \in 1 .. N : done[n] = PayloadsStep(order, n, done[n - 1])
  BY PayloadsWalk
<1> HIDE DEF N
<1> DEFINE S == {n \in Nat : n <= N => KeptSoFar(order, n, done[n])}
<1>3. 0 \in S
  BY <1>2 DEF KeptSoFar
<1>4. ASSUME NEW n \in Nat, n \in S
      PROVE  n + 1 \in S
  <2> SUFFICES ASSUME n + 1 <= N PROVE KeptSoFar(order, n + 1, done[n + 1])
    OBVIOUS
  <2>1. n + 1 \in 1 .. N /\ (n + 1) - 1 = n /\ n \in 0 .. N /\ n <= N
    BY <1>1
  <2>2. KeptSoFar(order, n, done[n])
    BY <1>4, <2>1
  <2>3. PICK m : m = n + 1
    OBVIOUS
  <2>4. m \in 1 .. N /\ m - 1 = n
    BY <2>1, <2>3
  <2>5. done[n] \in BodiesOf(order) /\ done[m] = PayloadsStep(order, m, done[n])
    BY <1>2, <2>1, <2>4
  <2>6. KeptSoFar(order, m, done[m])
    BY <2>2, <2>4, <2>5, OneMoreKept DEF N
  <2> QED
    BY <2>3, <2>6
<1>5. \A n \in Nat : n \in S
  <2> HIDE DEF S
  <2> QED
    BY <1>3, <1>4, SetInduction
<1>6. KeptSoFar(order, N, done[N])
  BY <1>1, <1>5
<1> QED
  BY <1>2, <1>6 DEF N

\* The indices are placed behind what is there.
LEMMA IndicesBehind ==
    ASSUME NEW order, OrderOk(order),
           NEW payloads \in [body : Seq(CellsOf(order)), offs : Seq(Nat)]
    PROVE  Begins(Indices(order, payloads).body, payloads.body)
<1> DEFINE N == Len(order.specs)
           C == CellsOf(order)
<1>1. N \in Nat /\ \A i \in 1 .. N : order.specs[i] \in ToSet(order.specs)
  BY DEF OrderOk, ToSet
<1>2. PICK done : /\ Indices(order, payloads) = done[N]
                  /\ done[0] = [body |-> payloads.body, offs |-> <<>>]
                  /\ \A n \in 0 .. N : done[n] \in BodiesOf(order)
                  /\ \A n \in 1 .. N : done[n] = IndicesStep(order, n, done[n - 1])
  BY IndicesWalk
<1>3. <<"zero", 0>> \in C /\ \A i \in 1 .. N : IndexOf(order.specs[i]).value \in Seq(C)
  BY <1>1, CellsOfOrder DEF CellsOf
<1> HIDE DEF N, C
<1> DEFINE S == {n \in Nat : n <= N => Begins(done[n].body, payloads.body)}
<1>4. 0 \in S
  BY <1>2 DEF Begins
<1>5. ASSUME NEW n \in Nat, n \in S
      PROVE  n + 1 \in S
  <2> SUFFICES ASSUME n + 1 <= N PROVE Begins(done[n + 1].body, payloads.body)
    OBVIOUS
  <2>1. n + 1 \in 1 .. N /\ (n + 1) - 1 = n /\ n \in 0 .. N /\ n <= N
    BY <1>1
  <2>2. Begins(done[n].body, payloads.body)
    BY <1>5, <2>1
  <2>3. PICK cells : cells = IndexOf(order.specs[n + 1]).value
    OBVIOUS
  <2>4. done[n] \in [body : Seq(C), offs : Seq(Nat)] /\ cells \in Seq(C)
    BY <1>2, <1>3, <2>1, <2>3 DEF BodiesOf, C
  <2>5. PICK d : d = done[n]
    OBVIOUS
  <2>6. PICK e : e = done[n + 1]
    OBVIOUS
  <2>7. e = Place(d, cells, 1, cells = <<>>)
    BY <1>2, <2>1, <2>3, <2>5, <2>6 DEF IndicesStep, PlaceIndex
  <2>8. 1 \in Nat \ {0} /\ (cells = <<>>) \in BOOLEAN /\ d \in [body : Seq(C), offs : Seq(Nat)]
    BY <2>4, <2>5
  <2>9. Begins(e.body, d.body) /\ e \in [body : Seq(C), offs : Seq(Nat)]
    <3>1. PICK absent \in BOOLEAN : absent = (cells = <<>>)
      BY <2>8
    <3>2. e = Place(d, cells, 1, absent)
      BY <2>7, <3>1
    <3>3. PlacedBehind(C, d, cells, absent, e)
      BY <1>3, <2>4, <2>8, <3>2, PlacedCells
    <3> QED
      BY <3>3 DEF PlacedBehind
  <2>10. Len(d.body) \in Nat /\ Len(e.body) \in Nat /\ Len(payloads.body) \in Nat
    BY <2>8, <2>9
  <2>11. Begins(e.body, payloads.body)
    BY <2>2, <2>5, <2>9, <2>10 DEF Begins
  <2> QED
    BY <2>6, <2>11
<1>6. \A n \in Nat : n \in S
  <2> HIDE DEF S
  <2> QED
    BY <1>4, <1>5, SetInduction
<1>7. Begins(done[N].body, payloads.body)
  BY <1>1, <1>6
<1> QED
  BY <1>2, <1>7

\* Joining and cutting.
LEMMA JoinedCells ==
    ASSUME NEW a, NEW b, a \in Seq(ToSet(a)), b \in Seq(ToSet(b))
    PROVE  /\ a \o b \in Seq(ToSet(a \o b)) /\ ToSet(a \o b) \subseteq ToSet(a) \cup ToSet(b)
           /\ Len(a \o b) = Len(a) + Len(b)
           /\ \A i \in 1 .. Len(a) + Len(b) :
                 (a \o b)[i] = IF i <= Len(a) THEN a[i] ELSE b[i - Len(a)]
<1> DEFINE C == ToSet(a) \cup ToSet(b)
<1>1. a \in Seq(C) /\ b \in Seq(C)
  <2> DEFINE A == ToSet(a)  B == ToSet(b)
  <2>1. a \in Seq(A) /\ b \in Seq(B)
    OBVIOUS
  <2> HIDE DEF A, B
  <2>2. a \in Seq(A \cup B) /\ b \in Seq(A \cup B)
    BY <2>1
  <2> QED
    BY <2>2 DEF A, B
<1> HIDE DEF C
<1>2. /\ a \o b \in Seq(C) /\ Len(a \o b) = Len(a) + Len(b)
      /\ \A i \in 1 .. Len(a) + Len(b) :
            (a \o b)[i] = IF i <= Len(a) THEN a[i] ELSE b[i - Len(a)]
  BY <1>1, ConcatProperties
<1> QED
  BY <1>2, OneSequence DEF C

\* What the writer returns: header, body, one record a section, and the footer.
Assembles(order, ro, f, body, offs, idxs) ==
    LET n == Len(order.specs)
        m == 1 + Len(body)
    IN /\ f \in Seq(ToSet(f)) /\ Len(f) = m + n + 2
       /\ f[1] = <<"hdr", [fixed |-> TRUE, suite |-> order.suite, count |-> n,
                           tableOff |-> m, footerOff |-> m + n, incompat |-> {}, ro |-> ro]>>
       /\ \A k \in 1 .. Len(body) : f[1 + k] = body[k]
       /\ \A i \in 1 .. n : f[m + i] = <<"rec", RecordFor(order, order.specs[i], offs[i], idxs[i])>>
       /\ f[m + n + 1] = <<"foot", [root |-> CommitmentRoot(f[1], [i \in 1 .. n |-> f[m + i]]),
                                    cls |-> 0, pq |-> 0]>>
       /\ f[m + n + 2] = <<"tail", m + n + 2>>

LEMMA ShortLists ==
    ASSUME NEW a, NEW b
    PROVE  /\ <<a, b>> \in Seq(ToSet(<<a, b>>)) /\ Len(<<a, b>>) = 2
           /\ <<a>> \in Seq(ToSet(<<a>>)) /\ Len(<<a>>) = 1
<1>1. PICK s, t : s = <<a, b>> /\ t = <<a>>
  OBVIOUS
<1>2. s \in Seq({a, b}) /\ t \in Seq({a}) /\ Len(s) = 2 /\ Len(t) = 1
  BY <1>1
<1>3. s \in Seq(ToSet(s)) /\ t \in Seq(ToSet(t))
  BY <1>2, OneSequence
<1> QED
  BY <1>1, <1>2, <1>3

\* A cell, two lists and two cells, joined.
PutTogether(f, one, body, table, foot, tail) == f = <<one>> \o body \o table \o <<foot, tail>>

InParts(f, one, body, table, foot, tail, m, n) ==
           /\ f \in Seq(ToSet(f)) /\ Len(f) = m + n + 2 /\ f[1] = one
           /\ \A k \in 1 .. Len(body) : f[1 + k] = body[k]
           /\ \A i \in 1 .. n : f[m + i] = table[i]
           /\ f[m + n + 1] = foot /\ f[m + n + 2] = tail

LEMMA FourParts ==
    ASSUME NEW one, NEW body, body \in Seq(ToSet(body)), NEW table, table \in Seq(ToSet(table)),
           NEW foot, NEW tail, NEW f, PutTogether(f, one, body, table, foot, tail)
    PROVE  InParts(f, one, body, table, foot, tail, 1 + Len(body), Len(table))
<1>0. PICK m, n : m = 1 + Len(body) /\ n = Len(table)
  OBVIOUS
<1>1. PICK head : head = <<one>>
  OBVIOUS
<1>2. PICK footer : footer = <<foot, tail>>
  OBVIOUS
<1>3. /\ head \in Seq(ToSet(head)) /\ Len(head) = 1 /\ head[1] = one
      /\ footer \in Seq(ToSet(footer)) /\ Len(footer) = 2 /\ footer[1] = foot /\ footer[2] = tail
  BY <1>1, <1>2, ShortLists
<1>4. PICK f1 : f1 = head \o body
  OBVIOUS
<1>5. PICK f2 : f2 = f1 \o table
  OBVIOUS
<1>6. f = f2 \o footer
  BY <1>1, <1>2, <1>4, <1>5 DEF PutTogether
<1>7. PICK k \in Nat : k = Len(body)
  OBVIOUS
<1>8. n \in Nat /\ m \in Nat /\ m = 1 + k
  BY <1>0, <1>7
<1>9. /\ f1 \in Seq(ToSet(f1)) /\ Len(f1) = m
      /\ \A i \in 1 .. 1 + k : f1[i] = IF i <= 1 THEN head[i] ELSE body[i - 1]
  <2>1. /\ f1 \in Seq(ToSet(f1)) /\ Len(f1) = Len(head) + Len(body)
        /\ \A i \in 1 .. Len(head) + Len(body) :
              f1[i] = IF i <= Len(head) THEN head[i] ELSE body[i - Len(head)]
    BY <1>3, <1>4, JoinedCells
  <2> QED
    BY <1>3, <1>7, <1>8, <2>1
<1>10. /\ f2 \in Seq(ToSet(f2)) /\ Len(f2) = m + n
       /\ \A i \in 1 .. m + n : f2[i] = IF i <= m THEN f1[i] ELSE table[i - m]
  <2>1. /\ f2 \in Seq(ToSet(f2)) /\ Len(f2) = Len(f1) + Len(table)
        /\ \A i \in 1 .. Len(f1) + Len(table) :
              f2[i] = IF i <= Len(f1) THEN f1[i] ELSE table[i - Len(f1)]
    BY <1>5, <1>9, JoinedCells
  <2> QED
    BY <1>0, <1>9, <2>1
<1>11. /\ f \in Seq(ToSet(f)) /\ Len(f) = (m + n) + 2
       /\ \A i \in 1 .. (m + n) + 2 : f[i] = IF i <= m + n THEN f2[i] ELSE footer[i - (m + n)]
  <2>1. /\ f \in Seq(ToSet(f)) /\ Len(f) = Len(f2) + Len(footer)
        /\ \A i \in 1 .. Len(f2) + Len(footer) :
              f[i] = IF i <= Len(f2) THEN f2[i] ELSE footer[i - Len(f2)]
    BY <1>3, <1>6, <1>10, JoinedCells
  <2> QED
    BY <1>3, <1>10, <2>1
<1>12. f[1] = one
  <2>1. 1 \in 1 .. (m + n) + 2 /\ 1 <= m + n /\ 1 \in 1 .. m + n /\ 1 <= m /\ 1 \in 1 .. 1 + k /\ 1 <= 1
    BY <1>7, <1>8
  <2> QED
    BY <1>3, <1>9, <1>10, <1>11, <2>1
<1>13. ASSUME NEW j \in 1 .. k
       PROVE  f[1 + j] = body[j]
  <2>1. PICK i : i = 1 + j
    OBVIOUS
  <2>2. /\ i \in 1 .. (m + n) + 2 /\ i <= m + n /\ i \in 1 .. m + n /\ i <= m
        /\ i \in 1 .. 1 + k /\ ~(i <= 1) /\ i - 1 = j
    BY <1>7, <1>8, <2>1
  <2> QED
    BY <1>9, <1>10, <1>11, <2>1, <2>2
<1>14. ASSUME NEW j \in 1 .. n
       PROVE  f[m + j] = table[j]
  <2>1. PICK i : i = m + j
    OBVIOUS
  <2>2. /\ i \in 1 .. (m + n) + 2 /\ i <= m + n /\ i \in 1 .. m + n /\ ~(i <= m) /\ i - m = j
    BY <1>8, <2>1
  <2> QED
    BY <1>10, <1>11, <2>1, <2>2
<1>15. f[m + n + 1] = foot /\ f[m + n + 2] = tail
  <2>1. PICK l \in Nat : l = m + n
    BY <1>8
  <2>2. /\ l + 1 \in 1 .. l + 2 /\ ~(l + 1 <= l) /\ (l + 1) - l = 1
        /\ l + 2 \in 1 .. l + 2 /\ ~(l + 2 <= l) /\ (l + 2) - l = 2
    BY <2>1
  <2>3. f[l + 1] = foot /\ f[l + 2] = tail
    BY <1>3, <1>11, <2>1, <2>2
  <2> QED
    BY <2>1, <2>3
<1>16. Len(f) = m + n + 2
  BY <1>8, <1>11
<1>17. InParts(f, one, body, table, foot, tail, m, n)
  BY <1>7, <1>11, <1>12, <1>13, <1>14, <1>15, <1>16 DEF InParts
<1> QED
  BY <1>0, <1>17

LEMMA LaidAssembled ==
    ASSUME NEW order, OrderOk(order), NEW ro
    PROVE  Assembles(order, ro, LaidWith(order, ro), Indices(order, Payloads(order)).body,
                     Payloads(order).offs, Indices(order, Payloads(order)).offs)
<1> DEFINE n == Len(order.specs)
<1>1. PICK payloads : payloads = Payloads(order)
  OBVIOUS
<1>2. PICK indices : indices = Indices(order, payloads)
  OBVIOUS
<1>3. PICK body : body = indices.body
  OBVIOUS
<1>4. body \in Seq(ToSet(body))
  <2>1. payloads \in [body : Seq(CellsOf(order)), offs : Seq(Nat)]
    BY <1>1, PayloadsBody
  <2>2. indices \in [body : Seq(CellsOf(order)), offs : Seq(Nat)]
    BY <1>2, <2>1, IndicesBody
  <2>3. body \in Seq(CellsOf(order))
    BY <1>3, <2>2
  <2> QED
    BY <2>3, OneSequence
<1>5. n \in Nat /\ DOMAIN order.specs = 1 .. n
  BY DEF OrderOk
<1>6. PICK table : table = TableFor(order, payloads, indices)
  OBVIOUS
<1>7. /\ table = [i \in 1 .. n |-> table[i]]
      /\ \A i \in 1 .. n : table[i] = <<"rec", RecordFor(order, order.specs[i], payloads.offs[i],
                                                        indices.offs[i])>>
  BY <1>5, <1>6 DEF TableFor
<1>8. table \in Seq(ToSet(table)) /\ Len(table) = n
  <2> HIDE DEF n
  <2> QED
    BY <1>5, <1>7, MadeList DEF List
<1>9. PICK m \in Nat : m = 1 + Len(body)
  BY <1>4
<1>10. PICK header : header = <<"hdr", [fixed |-> TRUE, suite |-> order.suite, count |-> Len(table),
                               tableOff |-> m, footerOff |-> m + Len(table),
                               incompat |-> {}, ro |-> ro]>>
  OBVIOUS
<1>11. PICK foot : foot = <<"foot", [root |-> CommitmentRoot(header, table), cls |-> 0, pq |-> 0]>>
  OBVIOUS
<1>12. PICK tail : tail = <<"tail", m + Len(table) + MinFooterLen>>
  OBVIOUS
<1>13. PICK f : f = LaidWith(order, ro)
  OBVIOUS
<1>14. f = <<header>> \o body \o table \o <<foot, tail>>
  BY <1>1, <1>2, <1>3, <1>6, <1>9, <1>10, <1>11, <1>12, <1>13
  DEF LaidWith, Assembled, Committed, HeaderLen
<1>15. /\ f \in Seq(ToSet(f)) /\ Len(f) = m + n + 2 /\ f[1] = header
       /\ \A k \in 1 .. Len(body) : f[1 + k] = body[k]
       /\ \A i \in 1 .. n : f[m + i] = table[i]
       /\ f[m + n + 1] = foot /\ f[m + n + 2] = tail
  <2>1. PutTogether(f, header, body, table, foot, tail)
    BY <1>14 DEF PutTogether
  <2>2. InParts(f, header, body, table, foot, tail, 1 + Len(body), Len(table))
    BY <1>4, <1>8, <2>1, FourParts
  <2>3. n = Len(table)
    BY <1>8
  <2> HIDE DEF n
  <2>4. InParts(f, header, body, table, foot, tail, m, n)
    BY <1>9, <2>2, <2>3
  <2> QED
    BY <2>4 DEF InParts
<1>16. [i \in 1 .. n |-> f[m + i]] = table
  BY <1>7, <1>15
<1>17. tail = <<"tail", m + n + 2>>
  BY <1>8, <1>12 DEF MinFooterLen
<1>18. Assembles(order, ro, f, body, payloads.offs, indices.offs)
  <2> HIDE DEF n
  <2>1. foot = <<"foot", [root |-> CommitmentRoot(f[1], [i \in 1 .. n |-> f[m + i]]),
                          cls |-> 0, pq |-> 0]>>
    BY <1>11, <1>15, <1>16
  <2>2. f[1] = <<"hdr", [fixed |-> TRUE, suite |-> order.suite, count |-> n,
                         tableOff |-> m, footerOff |-> m + n, incompat |-> {}, ro |-> ro]>>
    BY <1>8, <1>10, <1>15
  <2>3. \A i \in 1 .. n : f[m + i] = <<"rec", RecordFor(order, order.specs[i], payloads.offs[i],
                                                        indices.offs[i])>>
    BY <1>7, <1>15
  <2> QED
    BY <1>9, <1>15, <1>17, <2>1, <2>2, <2>3 DEF Assembles, n
<1> QED
  BY <1>1, <1>2, <1>3, <1>13, <1>18

(***************************************************************************)
(* Where the indices are                                                   *)
(***************************************************************************)
IndexPlacedAt(order, i, d) ==
    IF IndexOf(order.specs[i]).value = <<>> THEN d.offs[i] = 0
    ELSE Keeps(d.body, d.offs[i], IndexOf(order.specs[i]).value)

IndicesSoFar(order, n, d) == Len(d.offs) = n /\ \A i \in 1 .. n : IndexPlacedAt(order, i, d)

LEMMA OneMoreIndex ==
    ASSUME NEW order, OrderOk(order), NEW n \in 1 .. Len(order.specs),
           NEW d \in BodiesOf(order), IndicesSoFar(order, n - 1, d),
           NEW e, e = IndicesStep(order, n, d)
    PROVE  IndicesSoFar(order, n, e)
<1>0. /\ n \in Nat /\ n - 1 \in Nat
      /\ \A i \in 1 .. Len(order.specs) : order.specs[i] \in ToSet(order.specs)
  BY DEF OrderOk, ToSet
<1> DEFINE cells == IndexOf(order.specs[n]).value
           C == CellsOf(order)
<1>1. <<"zero", 0>> \in C /\ \A i \in 1 .. Len(order.specs) : IndexOf(order.specs[i]).value \in Seq(C)
  BY <1>0, CellsOfOrder DEF CellsOf
<1>2. e = Place(d, cells, 1, cells = <<>>)
  BY DEF IndicesStep, PlaceIndex
<1>3. cells \in Seq(C)
  BY <1>1
<1>4. d \in [body : Seq(C), offs : Seq(Nat)]
  BY DEF BodiesOf
<1> HIDE DEF cells, C
<1>5. /\ e \in [body : Seq(C), offs : Seq(Nat)]
      /\ Len(e.offs) = Len(d.offs) + 1 /\ Begins(e.offs, d.offs) /\ Begins(e.body, d.body)
      /\ IF cells = <<>> THEN e.offs[Len(e.offs)] = 0
         ELSE Keeps(e.body, e.offs[Len(e.offs)], cells)
  <2>1. PICK absent \in BOOLEAN : absent = (cells = <<>>)
    OBVIOUS
  <2>2. e = Place(d, cells, 1, absent) /\ 1 \in Nat \ {0}
    BY <1>2, <2>1
  <2>3. PlacedBehind(C, d, cells, absent, e)
    BY <1>1, <1>3, <1>4, <2>2, PlacedCells
  <2> QED
    BY <2>1, <2>3 DEF PlacedBehind
<1>6. Len(d.offs) = n - 1 /\ Len(e.offs) = n
  BY <1>0, <1>5 DEF IndicesSoFar
<1>7. IndexPlacedAt(order, n, e)
  BY <1>5, <1>6 DEF IndexPlacedAt, cells
<1>8. ASSUME NEW i \in 1 .. n - 1
      PROVE  IndexPlacedAt(order, i, e)
  <2>1. IndexPlacedAt(order, i, d) /\ e.offs[i] = d.offs[i] /\ i \in 1 .. Len(order.specs)
    BY <1>0, <1>5, <1>6 DEF IndicesSoFar, Begins
  <2>2. CASE IndexOf(order.specs[i]).value = <<>>
    BY <2>1, <2>2 DEF IndexPlacedAt
  <2>3. CASE IndexOf(order.specs[i]).value # <<>>
    <3>1. Keeps(d.body, d.offs[i], IndexOf(order.specs[i]).value)
      BY <2>1, <2>3 DEF IndexPlacedAt
    <3>2. d.body \in Seq(C) /\ e.body \in Seq(C) /\ IndexOf(order.specs[i]).value \in Seq(C)
      BY <1>1, <1>4, <1>5, <2>1
    <3>3. Keeps(e.body, d.offs[i], IndexOf(order.specs[i]).value)
      BY <1>5, <3>1, <3>2, KeepsLonger
    <3> QED
      BY <2>1, <2>3, <3>3 DEF IndexPlacedAt
  <2> QED
    BY <2>2, <2>3
<1>9. \A i \in 1 .. n : i = n \/ i \in 1 .. n - 1
  BY <1>0
<1> QED
  BY <1>6, <1>7, <1>8, <1>9 DEF IndicesSoFar

LEMMA IndicesKept ==
    ASSUME NEW order, OrderOk(order),
           NEW payloads \in [body : Seq(CellsOf(order)), offs : Seq(Nat)]
    PROVE  IndicesSoFar(order, Len(order.specs), Indices(order, payloads))
<1> DEFINE N == Len(order.specs)
<1>1. N \in Nat
  BY DEF OrderOk
<1>2. PICK done : /\ Indices(order, payloads) = done[N]
                  /\ done[0] = [body |-> payloads.body, offs |-> <<>>]
                  /\ \A n \in 0 .. N : done[n] \in BodiesOf(order)
                  /\ \A n \in 1 .. N : done[n] = IndicesStep(order, n, done[n - 1])
  BY IndicesWalk
<1> HIDE DEF N
<1> DEFINE S == {n \in Nat : n <= N => IndicesSoFar(order, n, done[n])}
<1>3. 0 \in S
  BY <1>2 DEF IndicesSoFar
<1>4. ASSUME NEW n \in Nat, n \in S
      PROVE  n + 1 \in S
  <2> SUFFICES ASSUME n + 1 <= N PROVE IndicesSoFar(order, n + 1, done[n + 1])
    OBVIOUS
  <2>1. n + 1 \in 1 .. N /\ (n + 1) - 1 = n /\ n \in 0 .. N /\ n <= N
    BY <1>1
  <2>2. IndicesSoFar(order, n, done[n])
    BY <1>4, <2>1
  <2>3. PICK m : m = n + 1
    OBVIOUS
  <2>4. m \in 1 .. N /\ m - 1 = n
    BY <2>1, <2>3
  <2>5. done[n] \in BodiesOf(order) /\ done[m] = IndicesStep(order, m, done[n])
    BY <1>2, <2>1, <2>4
  <2>6. IndicesSoFar(order, m, done[m])
    BY <2>2, <2>4, <2>5, OneMoreIndex DEF N
  <2> QED
    BY <2>3, <2>6
<1>5. \A n \in Nat : n \in S
  <2> HIDE DEF S
  <2> QED
    BY <1>3, <1>4, SetInduction
<1>6. IndicesSoFar(order, N, done[N])
  BY <1>1, <1>5
<1> QED
  BY <1>2, <1>6 DEF N

\* A cell of a file: of its body, or of the writer's own structure.
FileCell(order, c) ==
    OrderCell(order, c) \/ (WellFormed(c) /\ c[1] \in {"hdr", "rec", "foot", "tail"})

\* Every cell is one, and there is one footer but for those in payloads.
FileCells(order, f) ==
    /\ f \in Seq(ToSet(f)) /\ \A c \in ToSet(f) : FileCell(order, c)
    /\ \A c \in ToSet(f) : c[1] = "foot" => OrderCell(order, c) \/ c = f[f[1][2].footerOff + 1]

\* Where every cell of a file just written comes from.
LEMMA LaidCells ==
    ASSUME NEW order, OrderOk(order), NEW ro
    PROVE  FileCells(order, LaidWith(order, ro))
<1>1. PICK f, body, offs, idxs : /\ f = LaidWith(order, ro) /\ Assembles(order, ro, f, body, offs, idxs)
                                 /\ body = Indices(order, Payloads(order)).body
  BY LaidAssembled
<1>2. PICK n \in Nat : n = Len(order.specs)
  BY DEF OrderOk
<1>3. body \in Seq(CellsOf(order))
  <2>1. Payloads(order) \in [body : Seq(CellsOf(order)), offs : Seq(Nat)]
    BY PayloadsBody
  <2>2. Indices(order, Payloads(order)) \in [body : Seq(CellsOf(order)), offs : Seq(Nat)]
    BY <2>1, IndicesBody
  <2> QED
    BY <1>1, <2>2
<1>4. PICK m \in Nat : m = 1 + Len(body)
  BY <1>3
<1>5. /\ f \in Seq(ToSet(f)) /\ Len(f) = m + n + 2
      /\ f[1] = <<"hdr", [fixed |-> TRUE, suite |-> order.suite, count |-> n,
                          tableOff |-> m, footerOff |-> m + n, incompat |-> {}, ro |-> ro]>>
      /\ \A k \in 1 .. Len(body) : f[1 + k] = body[k]
      /\ \A i \in 1 .. n : f[m + i] = <<"rec", RecordFor(order, order.specs[i], offs[i], idxs[i])>>
      /\ f[m + n + 1] = <<"foot", [root |-> CommitmentRoot(f[1], [i \in 1 .. n |-> f[m + i]]),
                                   cls |-> 0, pq |-> 0]>>
      /\ f[m + n + 2] = <<"tail", m + n + 2>>
  BY <1>1, <1>2, <1>4 DEF Assembles
<1>6. f[1][2].footerOff = m + n
  BY <1>5
<1>7. ASSUME NEW c \in ToSet(f)
      PROVE  FileCell(order, c) /\ (c[1] = "foot" => OrderCell(order, c) \/ c = f[m + n + 1])
  <2>1. PICK i \in 1 .. m + n + 2 : c = f[i]
    BY <1>5 DEF ToSet
  <2>2. CASE i = 1
    <3>1. WellFormed(c) /\ c[1] = "hdr"
      BY <1>5, <2>1, <2>2 DEF WellFormed, Unpacks, Tags
    <3> QED
      BY <3>1 DEF FileCell
  <2>3. CASE i > 1 /\ i <= m
    <3>1. PICK k \in 1 .. Len(body) : i = 1 + k
      <4>1. Len(body) \in Nat
        BY <1>3
      <4>2. i - 1 \in 1 .. Len(body) /\ i = 1 + (i - 1)
        BY <1>4, <2>3, <4>1
      <4> QED
        BY <4>2
    <3>2. c = body[k] /\ c \in CellsOf(order)
      BY <1>3, <1>5, <2>1, <3>1
    <3> QED
      BY <3>2, CellsOfOrder DEF FileCell
  <2>4. CASE i > m /\ i <= m + n
    <3>1. PICK k \in 1 .. n : i = m + k
      <4>1. i - m \in 1 .. n /\ i = m + (i - m)
        BY <2>4
      <4> QED
        BY <4>1
    <3>2. PICK r : c = <<"rec", r>>
      BY <1>5, <2>1, <3>1
    <3>3. WellFormed(c) /\ c[1] = "rec"
      BY <3>2 DEF WellFormed, Unpacks, Tags
    <3> QED
      BY <3>3 DEF FileCell
  <2>5. CASE i = m + n + 1
    <3>1. PICK root : c = <<"foot", [root |-> root, cls |-> 0, pq |-> 0]>>
      BY <1>5, <2>1, <2>5
    <3>2. WellFormed(c) /\ c[1] = "foot"
      BY <3>1 DEF WellFormed, Unpacks, Tags
    <3> QED
      BY <2>1, <2>5, <3>2 DEF FileCell
  <2>6. CASE i = m + n + 2
    <3>1. WellFormed(c) /\ c[1] = "tail"
      BY <1>5, <2>1, <2>6 DEF WellFormed, Unpacks, Tags
    <3> QED
      BY <3>1 DEF FileCell
  <2> QED
    BY <2>1, <2>2, <2>3, <2>4, <2>5, <2>6
<1>8. FileCells(order, f)
  BY <1>5, <1>6, <1>7 DEF FileCells
<1> QED
  BY <1>1, <1>8

(***************************************************************************)
(* Steps                                                                   *)
(***************************************************************************)
\* A file of the same length.
LEMMA SameLength ==
    ASSUME NEW f, f \in Seq(ToSet(f)), NEW C, NEW g,
           g = [i \in DOMAIN f |-> g[i]], \A i \in DOMAIN f : g[i] \in C
    PROVE  g \in Seq(ToSet(g)) /\ ToSet(g) \subseteq C
<1>1. Len(f) \in Nat /\ DOMAIN f = 1 .. Len(f)
  OBVIOUS
<1>2. g \in [1 .. Len(f) -> C]
  BY <1>1
<1>3. g \in Seq(C)
  BY <1>1, <1>2
<1> QED
  BY <1>3, OneSequence

\* What signing makes of a file: everything before the footer stays, and four cells follow.
LEMMA SignedCells ==
    ASSUME NEW f, f \in Seq(ToSet(f)), NEW h, h.footerOff \in Nat, h.footerOff < Len(f),
           WellFormed(f[h.footerOff + 1]), f[h.footerOff + 1][1] = "foot", NEW key
    PROVE  LET g == Signed(f, h, key)
               k == h.footerOff
               foot == [root |-> FootAt(f, h).root, cls |-> SlotLen, pq |-> SlotLen]
               over == SigInput(h.suite, foot, k + 4)
           IN /\ g \in Seq(ToSet(g)) /\ Len(g) = k + 4
              /\ \A i \in 1 .. k : g[i] = f[i]
              /\ g[k + 1] = <<"foot", foot>>
              /\ g[k + 2] = <<"sig", [key |-> key, part |-> "cls", over |-> over]>>
              /\ g[k + 3] = <<"sig", [key |-> key, part |-> "pq", over |-> over]>>
              /\ g[k + 4] = <<"tail", k + 4>>
<1> DEFINE k == h.footerOff
           foot == [root |-> FootAt(f, h).root, cls |-> SlotLen, pq |-> SlotLen]
           over == SigInput(h.suite, foot, k + 4)
           c1 == <<"foot", foot>>
           c2 == <<"sig", [key |-> key, part |-> "cls", over |-> over]>>
           c3 == <<"sig", [key |-> key, part |-> "pq", over |-> over]>>
           c4 == <<"tail", k + 4>>
<1>2. k \in Nat /\ k + MinFooterLen + 2 * SlotLen = k + 4
  BY DEF MinFooterLen, SlotLen
<1>3. Signed(f, h, key) = SubSeq(f, 1, k) \o <<c1, c2, c3, c4>>
  <2>1. Slice(f, 0, k) = SubSeq(f, 1, k)
    BY DEF Slice
  <2> QED
    BY <1>2, <2>1 DEF Signed
<1> HIDE DEF k, foot, over, c1, c2, c3, c4
<1>4. PICK a : a = SubSeq(f, 1, k)
  OBVIOUS
<1>5. PICK b : b = <<c1, c2, c3, c4>>
  OBVIOUS
<1>6. b \in Seq({c1, c2, c3, c4}) /\ Len(b) = 4
      /\ b[1] = c1 /\ b[2] = c2 /\ b[3] = c3 /\ b[4] = c4
  BY <1>5
<1>7. b \in Seq(ToSet(b))
  BY <1>6, OneSequence
<1>8. a \in Seq(ToSet(a)) /\ Len(a) = k /\ \A i \in 1 .. k : a[i] = f[i]
  <2>1. k <= Len(f) /\ k \in Int /\ 1 \in Int
    BY <1>2 DEF k
  <2>2. /\ a \in Seq(ToSet(a)) /\ Len(a) = IF 1 <= k THEN k - 1 + 1 ELSE 0
        /\ \A i \in 1 .. k - 1 + 1 : a[i] = f[1 + i - 1]
    BY <1>4, <2>1, CutCells
  <2> QED
    BY <1>2, <2>2
<1>9. PICK g : g = a \o b
  OBVIOUS
<1>10. /\ g \in Seq(ToSet(g)) /\ Len(g) = k + 4
       /\ \A i \in 1 .. k + 4 : g[i] = IF i <= k THEN a[i] ELSE b[i - k]
  <2>1. /\ g \in Seq(ToSet(g)) /\ Len(g) = Len(a) + Len(b)
        /\ \A i \in 1 .. Len(a) + Len(b) : g[i] = IF i <= Len(a) THEN a[i] ELSE b[i - Len(a)]
    BY <1>7, <1>8, <1>9, JoinedCells
  <2>2. Len(a) = k /\ Len(b) = 4
    BY <1>6, <1>8
  <2> QED
    BY <2>1, <2>2
<1>11. \A i \in 1 .. k : g[i] = f[i]
  BY <1>2, <1>8, <1>10
<1>12. g[k + 1] = c1 /\ g[k + 2] = c2 /\ g[k + 3] = c3 /\ g[k + 4] = c4
  <2>1. \A j \in 1 .. 4 : /\ k + j \in 1 .. k + 4 /\ ~(k + j <= k) /\ (k + j) - k = j
    BY <1>2
  <2>2. \A j \in 1 .. 4 : g[k + j] = b[j]
    BY <1>10, <2>1
  <2>3. 1 \in 1 .. 4 /\ 2 \in 1 .. 4 /\ 3 \in 1 .. 4 /\ 4 \in 1 .. 4
    OBVIOUS
  <2> QED
    BY <1>6, <2>2, <2>3
<1>13. Signed(f, h, key) = g
  BY <1>3, <1>4, <1>5, <1>9
<1> QED
  BY <1>10, <1>11, <1>12, <1>13 DEF k, foot, over, c1, c2, c3, c4

\* Where a file that was accepted has its footer.
LEMMA FooterFacts ==
    ASSUME NEW f, f \in Seq(ToSet(f)), Parse(f).ok
    PROVE  LET h == f[1][2]
               k == h.footerOff
           IN /\ h = Parse(f).value.h /\ 1 \in DOMAIN f
              /\ h.count \in Nat /\ h.tableOff \in Nat /\ k \in Nat /\ h.tableOff >= 1
              /\ TableEnd(h) <= k /\ TableEnd(h) \in Nat /\ k + 2 <= Len(f)
              /\ f[k + 1][1] = "foot" /\ Parse(f).value.foot = f[k + 1][2]
              /\ Len(f) - k = 2 + f[k + 1][2].cls + f[k + 1][2].pq
              /\ f[Len(f)] = <<"tail", Len(f)>>
<1> DEFINE h == f[1][2]
           k == h.footerOff
           b == Parse(f).value
<1>1. /\ b.h = h /\ HeaderOk(h) /\ FitsFile(h, Len(f)) /\ f # <<>>
      /\ FooterOk(f, h) /\ b.foot = FootAt(f, h)
  BY ParseFacts
<1>2. Len(f) \in Nat /\ DOMAIN f = 1 .. Len(f) /\ Len(f) # 0
  BY <1>1
<1>3. /\ h.count \in Nat /\ h.tableOff \in Nat /\ k \in Nat /\ h.tableOff >= 1
      /\ TableEnd(h) <= k /\ TableEnd(h) \in Nat /\ k <= Len(f)
  BY <1>1 DEF HeaderOk, HeaderLen, FitsFile, TableEnd
<1>4. PICK c : c = Slice(f, k, Len(f))
  OBVIOUS
<1>5. /\ Len(c) >= 2 /\ c[1][1] = "foot"
      /\ Len(c) = 2 + c[1][2].cls + c[1][2].pq
      /\ c[Len(c)] = <<"tail", Len(f)>>
  BY <1>1, <1>4 DEF FooterOk, MinFooterLen
<1> HIDE DEF h, k, b
<1>6. /\ Len(c) = IF k + 1 <= Len(f) THEN Len(f) - k ELSE 0
      /\ \A i \in 1 .. Len(f) - k : c[i] = f[k + i]
  <2>1. k + 1 \in Int /\ k + 1 >= 1 /\ Len(f) \in Int /\ Len(f) <= Len(f)
    BY <1>2, <1>3
  <2>2. /\ Len(c) = IF k + 1 <= Len(f) THEN Len(f) - (k + 1) + 1 ELSE 0
        /\ \A i \in 1 .. Len(f) - (k + 1) + 1 : c[i] = f[(k + 1) + i - 1]
    BY <1>4, <2>1, CutCells DEF Slice
  <2>3. Len(f) - (k + 1) + 1 = Len(f) - k
    BY <1>2, <1>3
  <2>4. ASSUME NEW i \in 1 .. Len(f) - k
        PROVE  c[i] = f[k + i]
    <3>1. c[i] = f[(k + 1) + i - 1]
      BY <2>2, <2>3
    <3>2. (k + 1) + i - 1 = k + i
      BY <1>2, <1>3
    <3> QED
      BY <3>1, <3>2
  <2> QED
    BY <2>2, <2>3, <2>4
<1>7. k + 2 <= Len(f) /\ Len(c) = Len(f) - k
  <2>1. k \in Nat /\ Len(f) \in Nat
    BY <1>2, <1>3
  <2>2. Len(c) >= 2 /\ Len(c) = IF k + 1 <= Len(f) THEN Len(f) - k ELSE 0
    BY <1>5, <1>6
  <2> QED
    BY <2>1, <2>2
<1>8. c[1] = f[k + 1] /\ c[Len(c)] = f[Len(f)]
  <2>1. /\ 1 \in 1 .. Len(f) - k /\ Len(c) \in 1 .. Len(f) - k
        /\ k + Len(c) = Len(f)
    BY <1>2, <1>3, <1>7
  <2> QED
    BY <1>6, <2>1
<1>9. FootAt(f, h) = f[k + 1][2]
  BY DEF FootAt, k
<1>10. /\ h = b.h /\ 1 \in DOMAIN f /\ b.foot = f[k + 1][2] /\ f[k + 1][1] = "foot"
       /\ Len(f) - k = 2 + f[k + 1][2].cls + f[k + 1][2].pq
       /\ f[Len(f)] = <<"tail", Len(f)>>
  <2>1. 1 \in DOMAIN f
    BY <1>2
  <2>2. Len(f) - k = 2 + f[k + 1][2].cls + f[k + 1][2].pq
    BY <1>5, <1>7, <1>8
  <2> QED
    BY <1>1, <1>5, <1>7, <1>8, <1>9, <2>1, <2>2
<1> QED
  BY <1>3, <1>7, <1>10 DEF h, k, b

(***************************************************************************)
(* What a reader holds                                                     *)
(***************************************************************************)
\* A bundle is not the empty sequence, which stands for none.
LEMMA SomeBundle ==
    ASSUME NEW f, Parse(f).ok
    PROVE  Parse(f).value # <<>>
<1> DEFINE h == f[1][2]
           table == Slice(f, h.tableOff, TableEnd(h))
           secs == [i \in DOMAIN table |-> table[i][2]]
<1>1. Parse(f) = ParseTable(f, h, table)
  BY DEF Parse, Failed
<1>2. ParseTable(f, h, table) = ParseSections(f, h, table, secs)
  <2> HIDE DEF h, table
  <2> QED
    BY <1>1 DEF ParseTable, Failed
<1> HIDE DEF h, table, secs
<1>3. \E man : Parse(f).value = [h |-> h, secs |-> secs, foot |-> FootAt(f, h), man |-> man]
  BY <1>1, <1>2 DEF ParseSections, Failed, AndThen, Ok
<1>4. \A a, b, c, d : [h |-> a, secs |-> b, foot |-> c, man |-> d] # <<>>
  <2> SUFFICES ASSUME NEW a, NEW b, NEW c, NEW d, NEW x,
                      x = [h |-> a, secs |-> b, foot |-> c, man |-> d], x = <<>>
               PROVE  FALSE
    OBVIOUS
  <2>1. "h" \in DOMAIN x /\ DOMAIN x = 1 .. 0
    OBVIOUS
  <2> QED
    BY <2>1
<1> QED
  BY <1>3, <1>4

\* The records are the table's cells, one behind the other.
LEMMA TableFacts ==
    ASSUME NEW f, f \in Seq(ToSet(f)), Parse(f).ok
    PROVE  LET b == Parse(f).value
               n == b.h.count
           IN /\ Tabled(f, b.h, b.secs, n)
              /\ \A i \in 1 .. n : f[b.h.tableOff + i] = Slice(f, b.h.tableOff, TableEnd(b.h))[i]
<1> DEFINE b == Parse(f).value
           h == b.h
           n == h.count
           table == Slice(f, h.tableOff, TableEnd(h))
<1>1. /\ HeaderOk(h) /\ FitsFile(h, Len(f)) /\ TableOk(table)
      /\ b.secs = [i \in DOMAIN table |-> table[i][2]] /\ LayoutOk(f, h, b.secs)
  BY ParseFacts
<1>2. h.tableOff \in Nat /\ n \in Nat /\ Len(f) \in Nat /\ TableEnd(h) = h.tableOff + n
      /\ TableEnd(h) <= Len(f)
  BY <1>1 DEF HeaderOk, FitsFile, TableEnd
<1> HIDE DEF b, h, n
<1>3. /\ table \in Seq(ToSet(table))
      /\ Len(table) = IF h.tableOff + 1 <= TableEnd(h) THEN TableEnd(h) - (h.tableOff + 1) + 1 ELSE 0
      /\ \A i \in 1 .. TableEnd(h) - (h.tableOff + 1) + 1 :
            table[i] = f[(h.tableOff + 1) + i - 1]
  <2>1. h.tableOff + 1 \in Int /\ h.tableOff + 1 >= 1 /\ TableEnd(h) \in Int
    BY <1>2
  <2> QED
    BY <1>2, <2>1, CutCells DEF Slice
<1>4. TableEnd(h) - (h.tableOff + 1) + 1 = n /\ Len(table) = n
  BY <1>2, <1>3
<1>5. DOMAIN table = 1 .. n
  BY <1>3, <1>4
<1>6. ASSUME NEW i \in 1 .. n
      PROVE  f[h.tableOff + i] = table[i]
  <2>1. table[i] = f[(h.tableOff + 1) + i - 1]
    BY <1>3, <1>4
  <2>2. (h.tableOff + 1) + i - 1 = h.tableOff + i
    BY <1>2
  <2> QED
    BY <2>1, <2>2
<1> HIDE DEF table
<1>7. Tabled(f, h, b.secs, n)
  BY <1>1, <1>2, <1>5 DEF Tabled, TableOk
<1> QED
  BY <1>6, <1>7 DEF b, h, n, table

(***************************************************************************)
(* What a signature fixes                                                  *)
(***************************************************************************)

\* The footer of a file whose signatures verify, cell by cell.
LEMMA SignedFooter ==
    ASSUME NEW f, Cells(f), Parse(f).ok, NEW key, VerifySignatures(f, Parse(f).value, key)
    PROVE  LET b == Parse(f).value
               k == b.h.footerOff
               over == SigInput(b.h.suite, b.foot, Len(f))
           IN /\ k \in Nat /\ Len(f) = k + 4
              /\ f[k + 1] = <<"foot", [root |-> b.foot.root, cls |-> b.foot.cls, pq |-> b.foot.pq]>>
              /\ f[k + 2] = <<"sig", [key |-> key, part |-> "cls", over |-> over]>>
              /\ f[k + 3] = <<"sig", [key |-> key, part |-> "pq", over |-> over]>>
              /\ f[k + 4] = <<"tail", k + 4>>
<1> DEFINE b == Parse(f).value
           k == b.h.footerOff
           over == SigInput(b.h.suite, b.foot, Len(f))
           c2 == <<"sig", [key |-> key, part |-> "cls", over |-> over]>>
           c3 == <<"sig", [key |-> key, part |-> "pq", over |-> over]>>
<1>1. /\ k \in Nat /\ k + 2 <= Len(f) /\ f[k + 1][1] = "foot" /\ b.foot = f[k + 1][2]
      /\ f[Len(f)] = <<"tail", Len(f)>>
  BY FooterFacts DEF Cells
<1>2. Slice(f, k + 1, Len(f) - 1) = <<c2, c3>>
  BY DEF VerifySignatures
<1> HIDE DEF b, k, over, c2, c3
<1>3. Len(f) \in Nat /\ DOMAIN f = 1 .. Len(f)
  BY DEF Cells
<1>4. PICK c : c = <<c2, c3>>
  OBVIOUS
<1>5. Len(c) = 2 /\ c[1] = c2 /\ c[2] = c3
  BY <1>4
<1>6. /\ Len(c) = IF (k + 1) + 1 <= Len(f) - 1 THEN (Len(f) - 1) - ((k + 1) + 1) + 1 ELSE 0
      /\ \A i \in 1 .. (Len(f) - 1) - ((k + 1) + 1) + 1 : c[i] = f[((k + 1) + 1) + i - 1]
  <2>1. /\ (k + 1) + 1 \in Int /\ (k + 1) + 1 >= 1
        /\ Len(f) - 1 \in Int /\ Len(f) - 1 <= Len(f)
    BY <1>1, <1>3
  <2>2. c = SubSeq(f, (k + 1) + 1, Len(f) - 1)
    BY <1>2, <1>4 DEF Slice
  <2> QED
    BY <2>1, <2>2, CutCells DEF Cells
<1>7. Len(f) = k + 4
  <2>1. 2 = IF (k + 1) + 1 <= Len(f) - 1 THEN (Len(f) - 1) - ((k + 1) + 1) + 1 ELSE 0
    BY <1>5, <1>6
  <2>2. k \in Nat /\ k + 2 <= Len(f) /\ Len(f) \in Nat
    BY <1>1, <1>3
  <2> QED
    BY <2>1, <2>2
<1>8. f[k + 2] = c2 /\ f[k + 3] = c3
  <2>1. /\ 1 \in 1 .. (Len(f) - 1) - ((k + 1) + 1) + 1 /\ 2 \in 1 .. (Len(f) - 1) - ((k + 1) + 1) + 1
        /\ ((k + 1) + 1) + 1 - 1 = k + 2 /\ ((k + 1) + 1) + 2 - 1 = k + 3
    BY <1>1, <1>7
  <2>2. c[1] = f[((k + 1) + 1) + 1 - 1] /\ c[2] = f[((k + 1) + 1) + 2 - 1]
    BY <1>6, <2>1
  <2> QED
    BY <1>5, <2>1, <2>2
<1>9. f[k + 1] = <<"foot", [root |-> b.foot.root, cls |-> b.foot.cls, pq |-> b.foot.pq]>>
  <2>1. k + 1 \in DOMAIN f
    BY <1>1, <1>3
  <2>2. WellFormed(f[k + 1])
    BY <2>1 DEF Cells, ToSet
  <2> QED
    BY <1>1, <2>2 DEF WellFormed
<1> QED
  BY <1>1, <1>7, <1>8, <1>9 DEF b, k, over, c2, c3

\* Two files with the same header, records and footer.
Agree(f, g) ==
    LET b == Parse(f).value IN
    /\ Len(f) = Len(g) /\ f[1] = g[1]
    /\ b.h = Parse(g).value.h /\ b.secs = Parse(g).value.secs
    /\ Slice(f, b.h.tableOff, TableEnd(b.h)) = Slice(g, b.h.tableOff, TableEnd(b.h))
    /\ \A p \in b.h.footerOff + 1 .. Len(f) : f[p] = g[p]

\* Two accepted files with the same transcript under the same key's signatures have the same
\* header, records and footer.
LEMMA SameTranscript ==
    ASSUME NEW f, Cells(f), Parse(f).ok, NEW g, Cells(g), Parse(g).ok,
           NEW key,
           VerifySignatures(f, Parse(f).value, key), VerifySignatures(g, Parse(g).value, key),
           SigInput(Parse(f).value.h.suite, Parse(f).value.foot, Len(f))
             = SigInput(Parse(g).value.h.suite, Parse(g).value.foot, Len(g))
    PROVE  Agree(f, g)
<1> DEFINE b == Parse(f).value
           m == Parse(g).value
           table == Slice(f, b.h.tableOff, TableEnd(b.h))
           theirs == Slice(g, m.h.tableOff, TableEnd(m.h))
           k == b.h.footerOff
           over == SigInput(b.h.suite, b.foot, Len(f))
<1>1. /\ b.h = f[1][2] /\ b.secs = [i \in DOMAIN table |-> table[i][2]]
      /\ b.foot.root = CommitmentRoot(f[1], table)
      /\ m.h = g[1][2] /\ m.secs = [i \in DOMAIN theirs |-> theirs[i][2]]
      /\ m.foot.root = CommitmentRoot(g[1], theirs)
  BY ParseFacts
<1>2. Len(f) = Len(g) /\ b.foot.cls = m.foot.cls /\ b.foot.pq = m.foot.pq
      /\ b.foot.root = m.foot.root
  <2>1. over.total = Len(f) /\ over.cls = b.foot.cls /\ over.pq = b.foot.pq
        /\ over.root = b.foot.root
    BY DEF SigInput
  <2>2. over.total = Len(g) /\ over.cls = m.foot.cls /\ over.pq = m.foot.pq
        /\ over.root = m.foot.root
    BY DEF SigInput
  <2> QED
    BY <2>1, <2>2
<1>3. f[1] = g[1] /\ table = theirs
  BY <1>1, <1>2 DEF CommitmentRoot
<1>4. b.h = m.h /\ b.secs = m.secs
  BY <1>1, <1>3
<1>5. /\ k \in Nat /\ Len(f) = k + 4
      /\ f[k + 1] = <<"foot", [root |-> b.foot.root, cls |-> b.foot.cls, pq |-> b.foot.pq]>>
      /\ f[k + 2] = <<"sig", [key |-> key, part |-> "cls", over |-> over]>>
      /\ f[k + 3] = <<"sig", [key |-> key, part |-> "pq", over |-> over]>>
      /\ f[k + 4] = <<"tail", k + 4>>
  BY SignedFooter
<1>6. /\ g[k + 1] = <<"foot", [root |-> m.foot.root, cls |-> m.foot.cls, pq |-> m.foot.pq]>>
      /\ g[k + 2] = <<"sig", [key |-> key, part |-> "cls", over |-> over]>>
      /\ g[k + 3] = <<"sig", [key |-> key, part |-> "pq", over |-> over]>>
      /\ g[k + 4] = <<"tail", k + 4>>
  BY <1>4, SignedFooter
<1>7. ASSUME NEW p \in k + 1 .. Len(f)
      PROVE  f[p] = g[p]
  <2> HIDE DEF k, b, m, over
  <2>1. p = k + 1 \/ p = k + 2 \/ p = k + 3 \/ p = k + 4
    BY <1>5
  <2> QED
    BY <1>2, <1>5, <1>6, <2>1
<1> QED
  BY <1>2, <1>3, <1>4, <1>7 DEF Agree

(***************************************************************************)
(* What the author signed                                                  *)
(***************************************************************************)
RecordAt(order, i, c) ==
    c = <<"rec", RecordFor(order, order.specs[i], c[2].offset, c[2].indexOff)>>

HoldsAt(f, off, cells) ==
    /\ off \in Nat /\ off >= 1 /\ off + Len(cells) <= f[1][2].tableOff
    /\ \A j \in 1 .. Len(cells) : f[off + j] = cells[j]

\* The payload is where its record says; an external section has none.
PayloadAt(order, s, off, f) ==
    IF s.from = "external" THEN off = 0 ELSE HoldsAt(f, off, Stored(order, s).value)

\* A file whose table says of each section what the writer was given, and which has it.
LaidAs(order, f) ==
    /\ f[1][2].suite = order.suite
    /\ f[1][2].count = Len(order.specs) /\ f[1][2].tableOff \in Nat
    /\ \A i \in 1 .. Len(order.specs) :
          LET c == f[f[1][2].tableOff + i] IN
          RecordAt(order, i, c) /\ PayloadAt(order, order.specs[i], c[2].offset, f)

\* The index is where its record says, if there is one.
IndexAt(s, off, f) ==
    IF IndexOf(s).value = <<>> THEN off = 0 ELSE HoldsAt(f, off, IndexOf(s).value)

IndexedAs(order, f) ==
    \A i \in 1 .. Len(order.specs) : IndexAt(order.specs[i], f[f[1][2].tableOff + i][2].indexOff, f)

\* What stands in the body stands in the file.
LEMMA BodyHolds ==
    ASSUME NEW C, NEW body \in Seq(C), NEW cells \in Seq(C), NEW off, Keeps(body, off, cells),
           NEW f, f[1][2].tableOff = 1 + Len(body), \A k \in 1 .. Len(body) : f[1 + k] = body[k]
    PROVE  HoldsAt(f, off, cells)
<1>1. /\ off \in Nat /\ off >= 1 /\ (off - 1) + Len(cells) <= Len(body)
      /\ \A j \in 1 .. Len(cells) : body[(off - 1) + j] = cells[j]
  BY DEF Keeps, HeaderLen
<1>2. Len(body) \in Nat /\ Len(cells) \in Nat
  OBVIOUS
<1>3. off + Len(cells) <= f[1][2].tableOff
  BY <1>1, <1>2
<1>4. ASSUME NEW j \in 1 .. Len(cells)
      PROVE  f[off + j] = cells[j]
  <2>1. PICK k : k = (off - 1) + j
    OBVIOUS
  <2>2. k \in 1 .. Len(body) /\ 1 + k = off + j
    <3>1. j \in Nat /\ 1 <= j /\ j <= Len(cells)
      BY <1>2
    <3> QED
      BY <1>1, <1>2, <2>1, <3>1
  <2> QED
    BY <1>1, <2>1, <2>2
<1> QED
  BY <1>1, <1>3, <1>4 DEF HoldsAt

LEMMA LaidAsOrdered ==
    ASSUME NEW order, OrderOk(order), NEW ro
    PROVE  LaidAs(order, LaidWith(order, ro)) /\ IndexedAs(order, LaidWith(order, ro))
<1>1. PICK f, payloads, indices :
          /\ f = LaidWith(order, ro) /\ payloads = Payloads(order)
          /\ indices = Indices(order, payloads)
          /\ Assembles(order, ro, f, indices.body, payloads.offs, indices.offs)
  BY LaidAssembled
<1>2. PICK n \in Nat : n = Len(order.specs) /\ DOMAIN order.specs = 1 .. n
  BY DEF OrderOk
<1>3. payloads \in [body : Seq(CellsOf(order)), offs : Seq(Nat)]
  BY <1>1, PayloadsBody
<1>4. /\ indices \in [body : Seq(CellsOf(order)), offs : Seq(Nat)]
      /\ Begins(indices.body, payloads.body)
  BY <1>1, <1>3, IndicesBody, IndicesBehind
<1>5. KeptSoFar(order, n, payloads) /\ IndicesSoFar(order, n, indices)
  <2>1. KeptSoFar(order, Len(order.specs), payloads)
    BY <1>1, PayloadsKept
  <2>2. IndicesSoFar(order, Len(order.specs), indices)
    BY <1>1, <1>3, IndicesKept
  <2> QED
    BY <1>2, <2>1, <2>2
<1>6. PICK body : body = indices.body
  OBVIOUS
<1>7. PICK m \in Nat : m = 1 + Len(body)
  BY <1>4, <1>6
<1>8. /\ f[1] = <<"hdr", [fixed |-> TRUE, suite |-> order.suite, count |-> n,
                          tableOff |-> m, footerOff |-> m + n, incompat |-> {}, ro |-> ro]>>
      /\ \A k \in 1 .. Len(body) : f[1 + k] = body[k]
      /\ \A i \in 1 .. n : f[m + i] = <<"rec", RecordFor(order, order.specs[i], payloads.offs[i],
                                                        indices.offs[i])>>
  BY <1>1, <1>2, <1>6, <1>7 DEF Assembles
<1>9. f[1][2].count = n /\ f[1][2].tableOff = m /\ f[1][2].suite = order.suite
  BY <1>8
<1>10. ASSUME NEW i \in 1 .. n
       PROVE  /\ RecordAt(order, i, f[m + i]) /\ f[m + i][2].offset = payloads.offs[i]
              /\ f[m + i][2].indexOff = indices.offs[i]
  <2>1. PICK off, idx : off = payloads.offs[i] /\ idx = indices.offs[i]
    OBVIOUS
  <2>2. PICK c, r : c = f[m + i] /\ r = RecordFor(order, order.specs[i], off, idx)
    OBVIOUS
  <2>3. r.offset = off /\ r.indexOff = idx
    BY <2>2 DEF RecordFor
  <2>4. c = <<"rec", r>>
    BY <1>8, <2>1, <2>2
  <2>5. c[2] = r
    BY <2>4
  <2> QED
    BY <2>1, <2>2, <2>3, <2>4, <2>5 DEF RecordAt
<1>11. ASSUME NEW cells \in Seq(CellsOf(order)), NEW off, Keeps(body, off, cells)
       PROVE  HoldsAt(f, off, cells)
  BY <1>4, <1>6, <1>7, <1>8, <1>9, <1>11, BodyHolds
<1>12. \A i \in 1 .. n : /\ Stored(order, order.specs[i]).value \in Seq(CellsOf(order))
                         /\ IndexOf(order.specs[i]).value \in Seq(CellsOf(order))
  <2>1. \A i \in 1 .. n : order.specs[i] \in ToSet(order.specs)
    BY <1>2 DEF ToSet
  <2> QED
    BY <2>1, CellsOfOrder
<1>13. ASSUME NEW i \in 1 .. n
       PROVE  PayloadAt(order, order.specs[i], f[m + i][2].offset, f)
  <2>1. PlacedAt(order, i, payloads)
    BY <1>5 DEF KeptSoFar
  <2>2. CASE order.specs[i].from = "external"
    BY <1>10, <2>1, <2>2 DEF PlacedAt, PayloadAt
  <2>3. CASE order.specs[i].from # "external"
    <3>1. PICK cells \in Seq(CellsOf(order)) : cells = Stored(order, order.specs[i]).value
      BY <1>12
    <3>2. Keeps(payloads.body, payloads.offs[i], cells)
      BY <2>1, <2>3, <3>1 DEF PlacedAt
    <3>3. Keeps(body, payloads.offs[i], cells)
      BY <1>3, <1>4, <1>6, <3>2, KeepsLonger
    <3>4. HoldsAt(f, payloads.offs[i], cells)
      BY <1>11, <3>3
    <3> QED
      BY <1>10, <2>3, <3>1, <3>4 DEF PayloadAt
  <2> QED
    BY <2>2, <2>3
<1>14. ASSUME NEW i \in 1 .. n
       PROVE  IndexAt(order.specs[i], f[m + i][2].indexOff, f)
  <2>1. IndexPlacedAt(order, i, indices)
    BY <1>5 DEF IndicesSoFar
  <2>2. CASE IndexOf(order.specs[i]).value = <<>>
    BY <1>10, <2>1, <2>2 DEF IndexPlacedAt, IndexAt
  <2>3. CASE IndexOf(order.specs[i]).value # <<>>
    <3>1. PICK cells \in Seq(CellsOf(order)) : cells = IndexOf(order.specs[i]).value
      BY <1>12
    <3>2. Keeps(body, indices.offs[i], cells)
      BY <1>6, <2>1, <2>3, <3>1 DEF IndexPlacedAt
    <3>3. HoldsAt(f, indices.offs[i], cells)
      BY <1>11, <3>2
    <3> QED
      BY <1>10, <2>3, <3>1, <3>3 DEF IndexAt
  <2> QED
    BY <2>2, <2>3
<1>15. LaidAs(order, f)
  BY <1>2, <1>9, <1>10, <1>13 DEF LaidAs
<1>16. IndexedAs(order, f)
  BY <1>2, <1>9, <1>14 DEF IndexedAs
<1> QED
  BY <1>1, <1>15, <1>16

\* The payload of a section, and the root that its record gives.
LEMMA PlainCells ==
    ASSUME NEW order, OrderOk(order), NEW s \in ToSet(order.specs)
    PROVE  List(PlainOf(order, s)) /\ List(s.plain) /\ s.cs \in Nat /\ Len(s.plain) \in Nat
<1>1. Cells(s.plain) /\ s.cs \in Nat
  BY DEF OrderOk
<1>2. Cells(AllEnvelopes(order))
  BY EnvelopeCells DEF OrderCells, OrderCell, Cells
<1>3. Cells(PlainOf(order, s))
  BY <1>1, <1>2 DEF PlainOf
<1> QED
  BY <1>1, <1>3, ListMembers DEF Cells, List

LEMMA RootOfSection ==
    ASSUME NEW order, OrderOk(order), CanLay(order), NEW i \in 1 .. Len(order.specs)
    PROVE  RootOf(order, order.specs[i]) = Hash(PlainOf(order, order.specs[i]))
<1> DEFINE s == order.specs[i]
<1>1. s \in ToSet(order.specs) /\ i \in DOMAIN order.specs
  BY DEF OrderOk, ToSet
<1>2. IndexOf(s).ok
  BY <1>1 DEF CanLay
<1> HIDE DEF s
<1>3. CASE ~(s.from = "inline" /\ ~s.encrypt /\ HasIndex(s))
  BY <1>3 DEF RootOf, s
<1>4. CASE s.from = "inline" /\ ~s.encrypt /\ HasIndex(s)
  <2>1. s.index = <<>>
    BY <1>2, <1>4 DEF IndexOf, Failed
  <2>2. IndexOf(s) = BuildIndex(s.plain, s.cs)
    BY <1>4, <2>1 DEF IndexOf
  <2>3. s.cs # 0 /\ ChunkCount(Len(s.plain), s.cs) >= 2
    BY <1>4 DEF HasIndex
  <2>4. List(s.plain) /\ s.cs \in Nat
    BY <1>1, PlainCells
  <2>5. PICK index : index = BuildIndex(s.plain, s.cs).value
    OBVIOUS
  <2>6. RootFromCvs([j \in DOMAIN index |-> CvOf(index[j])]) = Ok(Hash(s.plain))
    BY <1>2, <2>2, <2>3, <2>4, <2>5, BuiltIndex
  <2>7. MergedRoot(index) = Hash(s.plain)
    BY <2>6 DEF MergedRoot, Ok
  <2>8. RootOf(order, s) = MergedRoot(index)
    BY <1>4, <2>5 DEF RootOf
  <2>9. PlainOf(order, s) = s.plain
    BY <1>4 DEF PlainOf
  <2> QED
    BY <2>7, <2>8, <2>9 DEF s
<1> QED
  BY <1>3, <1>4

\* What a record of a reader's bundle says of the section the author signed.
Describes(order, s, r) ==
    /\ s \in ToSet(order.specs) /\ r.name = s.name /\ r.kind = s.kind /\ r.flags = s.flags
    /\ r.comp = s.comp /\ r.enc = (IF s.encrypt THEN "aead" ELSE "none")
    /\ r.chunkSize = s.cs /\ r.lenPlain = Len(PlainOf(order, s))
    /\ r.lenStored = Len(Stored(order, s).value)
    /\ r.root = Hash(PlainOf(order, s))

(***************************************************************************)
(* What a reader is handed                                                 *)
(***************************************************************************)
LEMMA FlattenLists ==
    ASSUME NEW n \in Nat, NEW seqs, seqs = [i \in 1 .. n |-> seqs[i]],
           \A i \in 1 .. n : List(seqs[i])
    PROVE  /\ List(FlattenSeq(seqs))
           /\ ToSet(FlattenSeq(seqs)) \subseteq UNION {ToSet(seqs[i]) : i \in 1 .. n}
<1> DEFINE C == UNION {ToSet(seqs[i]) : i \in 1 .. n}
<1>1. \A i \in 1 .. n : ToSet(seqs[i]) \subseteq C
  OBVIOUS
<1> HIDE DEF C
<1>2. ASSUME NEW i \in 1 .. n
      PROVE  seqs[i] \in Seq(C)
  <2>1. seqs[i] \in Seq(ToSet(seqs[i])) /\ ToSet(seqs[i]) \subseteq C
    BY <1>1 DEF List
  <2> QED
    BY <2>1
<1>3. seqs \in [1 .. n -> Seq(C)]
  BY <1>2
<1>4. seqs \in Seq(Seq(C))
  BY <1>3
<1>5. List(FlattenSeq(seqs)) /\ ToSet(FlattenSeq(seqs)) \subseteq C
  BY <1>4, FlattenInto, OneSequence DEF List
<1> QED
  BY <1>5 DEF C

\* The units of a file: its cells, and what is packed in one.
Packed(cells) == UNION {ToSet(c[2]) : c \in {d \in ToSet(cells) : d[1] = "zstd"}}

LEMMA UnpackedList ==
    ASSUME NEW cells, Frame(cells), NEW want, DecompressExact(cells, want).ok
    PROVE  /\ List(DecompressExact(cells, want).value)
           /\ ToSet(DecompressExact(cells, want).value) \subseteq Packed(cells)
<1> DEFINE seqs == [i \in DOMAIN cells |-> cells[i][2]]
<1>1. PICK n \in Nat : DOMAIN cells = 1 .. n
  BY ListMembers DEF Frame
<1>2. \A i \in 1 .. n : cells[i][1] = "zstd"
  BY <1>1 DEF DecompressExact, Failed
<1>3. \A i \in 1 .. n : List(cells[i][2])
  BY <1>1, <1>2 DEF Frame, Unpacks, ToSet
<1>4. seqs = [i \in 1 .. n |-> seqs[i]] /\ \A i \in 1 .. n : List(seqs[i])
  BY <1>1, <1>3
<1>5. DecompressExact(cells, want).value = FlattenSeq(seqs)
  BY <1>1, <1>2 DEF DecompressExact, Ok, Failed
<1>6. \A i \in 1 .. n : ToSet(seqs[i]) \subseteq Packed(cells)
  <2>1. \A i \in 1 .. n : cells[i] \in ToSet(cells) /\ seqs[i] = cells[i][2]
    BY <1>1 DEF ToSet
  <2> HIDE DEF seqs
  <2> QED
    BY <1>2, <2>1 DEF Packed
<1> HIDE DEF seqs
<1>7. List(FlattenSeq(seqs)) /\ ToSet(FlattenSeq(seqs)) \subseteq Packed(cells)
  <2>1. List(FlattenSeq(seqs)) /\ ToSet(FlattenSeq(seqs)) \subseteq UNION {ToSet(seqs[i]) : i \in 1 .. n}
    BY <1>4, FlattenLists
  <2> QED
    BY <1>6, <2>1
<1> QED
  BY <1>5, <1>7

\* The payload a record names lies within the file it was parsed from, and within
\* whatever the file becomes that is no shorter.
LEMMA StoredIn ==
    ASSUME NEW f, Cells(f), Parse(f).ok, NEW r \in ToSet(Parse(f).value.secs),
           "EXTERNAL" \notin r.flags, NEW g, Cells(g), Len(g) >= Len(f)
    PROVE  LET stored == Slice(g, r.offset, StoredEnd(r)) IN
           /\ Frame(stored) /\ \A c \in ToSet(stored) : WellFormed(c)
           /\ ToSet(stored) \subseteq ToSet(g)
<1> DEFINE b == Parse(f).value
<1>1. /\ f \in Seq(ToSet(f)) /\ Len(f) \in Nat
      /\ g \in Seq(ToSet(g)) /\ Len(g) \in Nat
  BY DEF Cells
<1>2. Tabled(f, b.h, b.secs, b.h.count)
  BY <1>1, TableFacts
<1>3. b.h.footerOff \in Nat /\ b.h.footerOff + 2 <= Len(f)
  BY <1>1, FooterFacts
<1>4. PICK i \in DOMAIN b.secs : r = b.secs[i]
  BY DEF ToSet
<1> HIDE DEF b
<1>5. r.offset \in Nat /\ r.lenStored \in Nat /\ StoredEnd(r) <= b.h.footerOff
  BY <1>2, <1>4 DEF Tabled, RecordOk, LayoutOk
<1>6. /\ r.offset + 1 \in Int /\ StoredEnd(r) \in Int /\ r.offset + 1 >= 1
      /\ StoredEnd(r) <= Len(g)
  BY <1>1, <1>3, <1>5 DEF StoredEnd
<1>7. PICK stored : stored = Slice(g, r.offset, StoredEnd(r))
  OBVIOUS
<1>8. stored \in Seq(ToSet(stored)) /\ ToSet(stored) \subseteq ToSet(g)
  BY <1>1, <1>6, <1>7, CutCells DEF Slice
<1>9. \A c \in ToSet(stored) : WellFormed(c)
  BY <1>8 DEF Cells
<1> QED
  BY <1>7, <1>8, <1>9 DEF Frame, List, WellFormed

LEMMA StoredFrame ==
    ASSUME NEW f, Cells(f), Parse(f).ok, NEW r \in ToSet(Parse(f).value.secs),
           "EXTERNAL" \notin r.flags
    PROVE  LET stored == Slice(f, r.offset, StoredEnd(r)) IN
           /\ Frame(stored) /\ \A c \in ToSet(stored) : WellFormed(c)
           /\ ToSet(stored) \subseteq ToSet(f)
<1>1. Len(f) >= Len(f)
  BY DEF Cells
<1> QED
  BY <1>1, StoredIn

LEMMA ReadList ==
    ASSUME NEW f, Cells(f), Parse(f).ok, NEW r \in ToSet(Parse(f).value.secs),
           VerifiedBytes(f, r).ok
    PROVE  /\ List(VerifiedBytes(f, r).value) /\ Hash(VerifiedBytes(f, r).value) = r.root
           /\ ToSet(VerifiedBytes(f, r).value) \subseteq ToSet(f) \cup Packed(f)
<1>1. /\ ReadPlain(f, r).ok /\ VerifiedBytes(f, r).value = ReadPlain(f, r).value
      /\ Hash(ReadPlain(f, r).value) = r.root
  BY DEF VerifiedBytes, AndThen, Ok, Failed
<1>2. PICK stored : stored = Slice(f, r.offset, StoredEnd(r))
  OBVIOUS
<1>3. "EXTERNAL" \notin r.flags
      /\ ReadPlain(f, r) = IF r.comp = "zstd" THEN Decompress(stored, r.lenPlain) ELSE Ok(stored)
  BY <1>1, <1>2 DEF ReadPlain, Failed
<1>4. Frame(stored) /\ ToSet(stored) \subseteq ToSet(f) /\ Packed(stored) \subseteq Packed(f)
  <2>1. Frame(stored) /\ ToSet(stored) \subseteq ToSet(f)
    BY <1>2, <1>3, StoredFrame
  <2> QED
    BY <2>1 DEF Packed
<1>5. /\ List(ReadPlain(f, r).value)
      /\ ToSet(ReadPlain(f, r).value) \subseteq ToSet(f) \cup Packed(f)
  <2>1. CASE r.comp = "zstd"
    <3>1. ReadPlain(f, r) = DecompressExact(stored, r.lenPlain)
      BY <1>1, <1>3, <2>1 DEF Decompress, Failed
    <3> QED
      BY <1>1, <1>4, <3>1, UnpackedList
  <2>2. CASE r.comp # "zstd"
    BY <1>3, <1>4, <2>2 DEF Ok, Frame
  <2> QED
    BY <2>1, <2>2
<1> QED
  BY <1>1, <1>5

LEMMA PartList ==
    ASSUME NEW frame, Frame(frame), NEW r, NEW i, PartOf(frame, r, i).ok
    PROVE  List(PartOf(frame, r, i).value)
<1>1. PICK want : want = ChunkLen(r.lenPlain, i - 1, r.chunkSize)
  OBVIOUS
<1>2. CASE r.comp = "zstd"
  BY <1>1, <1>2, UnpackedList DEF PartOf
<1>3. CASE r.comp # "zstd"
  BY <1>3 DEF PartOf, Ok, Failed, Frame
<1> QED
  BY <1>2, <1>3

LEMMA JoinedList ==
    ASSUME NEW n \in Nat, NEW frames, DOMAIN frames = 1 .. n,
           \A i \in 1 .. n : Frame(frames[i]), NEW r, Joined(r, frames).ok
    PROVE  /\ List(Joined(r, frames).value) /\ Hash(Joined(r, frames).value) = r.root
           /\ Joined(r, frames).value # <<>> => n # 0
<1> DEFINE results == [i \in DOMAIN frames |-> PartOf(frames[i], r, i)]
           parts == [i \in DOMAIN results |-> results[i].value]
<1>1. DOMAIN results = 1 .. n /\ \A i \in 1 .. n : results[i] = PartOf(frames[i], r, i)
  OBVIOUS
<1>2. Joined(r, frames) = AndThen(Collect(results), LAMBDA all : LET plain == FlattenSeq(all) IN
                                IF Hash(plain) = r.root THEN Ok(plain) ELSE Failed)
  BY DEF Joined, Failed
<1>3. Collect(results).ok
  <2> HIDE DEF results
  <2> QED
    BY <1>2 DEF AndThen, Failed
<1>4. \A i \in 1 .. n : results[i].ok
  <2> HIDE DEF results
  <2> QED
    BY <1>1, <1>3 DEF Collect, Failed
<1>5. Collect(results).value = parts
  <2> HIDE DEF results
  <2> QED
    BY <1>1, <1>4 DEF Collect, Ok
<1>6. parts = [i \in 1 .. n |-> parts[i]] /\ \A i \in 1 .. n : List(parts[i])
  <2>1. \A i \in 1 .. n : PartOf(frames[i], r, i).ok
    BY <1>1, <1>4
  <2>2. \A i \in 1 .. n : List(PartOf(frames[i], r, i).value)
    BY <2>1, PartList
  <2>3. DOMAIN parts = 1 .. n /\ \A i \in 1 .. n : parts[i] = PartOf(frames[i], r, i).value
    BY <1>1
  <2>4. parts = [i \in 1 .. n |-> parts[i]]
    BY <1>1
  <2> HIDE DEF parts
  <2> QED
    BY <2>2, <2>3, <2>4
<1> HIDE DEF results, parts
<1>7. List(FlattenSeq(parts)) /\ (FlattenSeq(parts) # <<>> => n # 0)
  <2>1. List(FlattenSeq(parts)) /\ ToSet(FlattenSeq(parts)) \subseteq UNION {ToSet(parts[i]) : i \in 1 .. n}
    BY <1>6, FlattenLists
  <2>2. ASSUME n = 0
        PROVE  FlattenSeq(parts) = <<>>
    <3>1. PICK flat : flat = FlattenSeq(parts)
      OBVIOUS
    <3>2. ToSet(flat) = {}
      BY <2>1, <2>2, <3>1
    <3>3. /\ Len(flat) \in Nat /\ flat = [i \in 1 .. Len(flat) |-> flat[i]]
          /\ \A i \in 1 .. Len(flat) : flat[i] \in {}
      <4>1. List(flat)
        BY <2>1, <3>1
      <4> QED
        BY <3>2, <4>1, ListMembers
    <3> QED
      BY <3>1, <3>3
  <2> QED
    BY <2>1, <2>2
<1>8. Joined(r, frames) = IF Hash(FlattenSeq(parts)) = r.root THEN Ok(FlattenSeq(parts)) ELSE Failed
  BY <1>2, <1>3, <1>5 DEF AndThen
<1> QED
  BY <1>7, <1>8 DEF Ok, Failed

SealedUnder(f, key) == \E c \in ToSet(f) : c[1] = "aead" /\ c[2].key = key

\* What is decrypted under a record has its root, whatever the file has become since
\* it was parsed.
LEMMA DecryptedIn ==
    ASSUME NEW f, Cells(f), Parse(f).ok, NEW r, NEW key,
           NEW g, Cells(g), Len(g) >= Len(f),
           DecryptSection(g, Parse(f).value, r, key).ok
    PROVE  LET plain == DecryptSection(g, Parse(f).value, r, key).value IN
           /\ r \in ToSet(Parse(f).value.secs) /\ List(plain) /\ Hash(plain) = r.root
           /\ plain # <<>> => SealedUnder(g, key)
<1> DEFINE b == Parse(f).value
<1>1. PICK body : body = Slice(g, r.offset, StoredEnd(r))
  OBVIOUS
<1>2. PICK opened : opened = OpenFrames(key, r.name, b.h.suite, r.lenPlain, body)
  OBVIOUS
<1>3. /\ Owned(b, r) /\ "EXTERNAL" \notin r.flags
      /\ DecryptSection(g, b, r, key) = AndThen(opened, LAMBDA frames : Joined(r, frames))
  BY <1>1, <1>2 DEF DecryptSection, Failed
<1>4. r \in ToSet(b.secs)
  BY <1>3 DEF Owned, ToSet
<1>5. Frame(body) /\ (\A c \in ToSet(body) : WellFormed(c)) /\ ToSet(body) \subseteq ToSet(g)
  BY <1>1, <1>3, <1>4, StoredIn
<1>6. opened.ok /\ DecryptSection(g, b, r, key) = Joined(r, opened.value)
  <2> HIDE DEF b
  <2>1. DecryptSection(g, b, r, key).ok
    BY DEF b
  <2> QED
    BY <1>3, <2>1 DEF AndThen, Failed
<1> HIDE DEF b
<1>7. PICK n \in Nat : DOMAIN body = 1 .. n
  BY <1>5, ListMembers DEF Frame
<1>8. /\ \A i \in 1 .. n : body[i][1] = "aead" /\ body[i][2].key = key
      /\ opened.value = [i \in 1 .. n |-> body[i][2].frame]
  BY <1>2, <1>6, <1>7 DEF OpenFrames, Ok, Failed
<1>9. \A i \in 1 .. n : Frame(opened.value[i])
  <2>1. \A i \in 1 .. n : WellFormed(body[i])
    BY <1>5, <1>7 DEF ToSet
  <2> QED
    BY <1>8, <2>1 DEF WellFormed
<1>10. PICK frames : frames = opened.value
  OBVIOUS
<1>11. /\ List(Joined(r, frames).value) /\ Hash(Joined(r, frames).value) = r.root
       /\ Joined(r, frames).value # <<>> => n # 0
  <2>1. DOMAIN frames = 1 .. n /\ \A i \in 1 .. n : Frame(frames[i])
    BY <1>8, <1>9, <1>10
  <2>2. Joined(r, frames).ok
    BY <1>6, <1>10 DEF b
  <2> QED
    BY <2>1, <2>2, JoinedList
<1>12. n # 0 => SealedUnder(g, key)
  <2>1. n # 0 => 1 \in 1 .. n
    OBVIOUS
  <2>2. n # 0 => body[1] \in ToSet(g)
    BY <1>5, <1>7, <2>1 DEF ToSet
  <2> QED
    BY <1>8, <2>1, <2>2 DEF SealedUnder
<1> QED
  BY <1>4, <1>6, <1>10, <1>11, <1>12 DEF b

LEMMA DecryptedList ==
    ASSUME NEW f, Cells(f), Parse(f).ok, NEW r, NEW key,
           DecryptSection(f, Parse(f).value, r, key).ok
    PROVE  LET plain == DecryptSection(f, Parse(f).value, r, key).value IN
           /\ r \in ToSet(Parse(f).value.secs) /\ List(plain) /\ Hash(plain) = r.root
           /\ plain # <<>> => SealedUnder(f, key)
<1>1. Len(f) >= Len(f)
  BY DEF Cells
<1> QED
  BY <1>1, DecryptedIn

LEMMA PickedOf ==
    ASSUME NEW s, List(s), NEW S, S \subseteq DOMAIN s
    PROVE  /\ List(Picked(s, S)) /\ Len(Picked(s, S)) = Cardinality(S)
           /\ \A k \in 1 .. Len(Picked(s, S)) : \E i \in S : Picked(s, S)[k] = s[i]
<1>1. PICK at \in Seq(S) :
        /\ Len(at) = Cardinality(S)
        /\ List(Picked(s, S)) /\ Len(Picked(s, S)) = Len(at)
        /\ \A k \in 1 .. Len(at) : Picked(s, S)[k] = s[at[k]]
  BY PickedFacts
<1>2. \A k \in 1 .. Len(at) : at[k] \in S
  OBVIOUS
<1> QED
  BY <1>1, <1>2

LEMMA SectionUnits ==
    ASSUME NEW f, Cells(f), Parse(f).ok, NEW r, SectionBytes(f, Parse(f).value, r).ok
    PROVE  /\ r \in ToSet(Parse(f).value.secs) /\ "SEALED" \notin r.flags
           /\ List(SectionBytes(f, Parse(f).value, r).value)
           /\ ToSet(SectionBytes(f, Parse(f).value, r).value) \subseteq ToSet(f) \cup Packed(f)
<1>1. /\ Owned(Parse(f).value, r) /\ "SEALED" \notin r.flags
      /\ SectionBytes(f, Parse(f).value, r) = VerifiedBytes(f, r)
  BY DEF SectionBytes, Failed
<1>2. r \in ToSet(Parse(f).value.secs)
  BY <1>1 DEF Owned, ToSet
<1> QED
  BY <1>1, <1>2, ReadList

\* Envelopes are cells of the file, or packed in one.
LEMMA EnvelopesRead ==
    ASSUME NEW f, Cells(f), Parse(f).ok, Envelopes(f, Parse(f).value).ok
    PROVE  LET all == Envelopes(f, Parse(f).value).value IN
           /\ List(all) /\ ToSet(all) \subseteq ToSet(f) \cup Packed(f)
           /\ \A i \in 1 .. Len(all) : all[i][1] = "env"
<1> DEFINE b == Parse(f).value
           K == {i \in DOMAIN b.secs : b.secs[i].kind = "keys"}
           keys == Picked(b.secs, K)
           results == [i \in DOMAIN keys |-> SectionBytes(f, b, keys[i])]
           lists == [i \in DOMAIN results |-> results[i].value]
           flat == FlattenSeq(lists)
<1>1. List(b.secs)
  <2>1. Tabled(f, b.h, b.secs, b.h.count)
    BY TableFacts DEF Cells
  <2>2. DOMAIN b.secs = 1 .. b.h.count /\ b.h.count \in Nat
    BY <2>1 DEF Tabled
  <2>3. b.secs = [i \in DOMAIN Slice(f, b.h.tableOff, TableEnd(b.h)) |->
                    Slice(f, b.h.tableOff, TableEnd(b.h))[i][2]]
    BY ParseFacts
  <2> HIDE DEF b
  <2>4. b.secs = [i \in 1 .. b.h.count |-> b.secs[i]]
    BY <2>2, <2>3
  <2> QED
    BY <2>2, <2>4, MadeList
<1>2. List(keys) /\ \A k \in 1 .. Len(keys) : \E i \in K : keys[k] = b.secs[i]
  <2>1. K \subseteq DOMAIN b.secs
    OBVIOUS
  <2> HIDE DEF b, K
  <2> QED
    BY <1>1, <2>1, PickedOf
<1>3. Envelopes(f, b) = AndThen(Collect(results),
            LAMBDA ls : LET all == FlattenSeq(ls) IN
                        IF \A i \in DOMAIN all : all[i][1] = "env" THEN Ok(all) ELSE Failed)
  BY DEF Envelopes
<1>4. PICK n \in Nat : DOMAIN keys = 1 .. n /\ Len(keys) = n
  <2> HIDE DEF keys
  <2> QED
    BY <1>2, ListMembers
<1>5. DOMAIN results = 1 .. n /\ \A i \in 1 .. n : results[i] = SectionBytes(f, b, keys[i])
  BY <1>4
<1>6. Collect(results).ok
  <2> HIDE DEF results
  <2> QED
    BY <1>3 DEF AndThen, Failed
<1>7. \A i \in 1 .. n : results[i].ok
  <2> HIDE DEF results
  <2> QED
    BY <1>5, <1>6 DEF Collect, Failed
<1>8. Collect(results).value = lists
  <2> HIDE DEF results
  <2> QED
    BY <1>5, <1>7 DEF Collect, Ok
<1>9. \A i \in 1 .. n : /\ List(SectionBytes(f, b, keys[i]).value)
                        /\ ToSet(SectionBytes(f, b, keys[i]).value) \subseteq ToSet(f) \cup Packed(f)
  <2>1. \A i \in 1 .. n : SectionBytes(f, b, keys[i]).ok
    BY <1>5, <1>7
  <2> HIDE DEF keys
  <2> QED
    BY <2>1, SectionUnits
<1>10. /\ lists = [i \in 1 .. n |-> lists[i]]
       /\ \A i \in 1 .. n : List(lists[i]) /\ ToSet(lists[i]) \subseteq ToSet(f) \cup Packed(f)
  <2>1. DOMAIN lists = 1 .. n /\ \A i \in 1 .. n : lists[i] = SectionBytes(f, b, keys[i]).value
    BY <1>5
  <2>2. lists = [i \in 1 .. n |-> lists[i]]
    BY <1>5
  <2> HIDE DEF lists, keys
  <2> QED
    BY <1>9, <2>1, <2>2
<1> HIDE DEF lists, results, keys
<1>11. List(flat) /\ ToSet(flat) \subseteq ToSet(f) \cup Packed(f)
  <2>1. List(flat) /\ ToSet(flat) \subseteq UNION {ToSet(lists[i]) : i \in 1 .. n}
    BY <1>10, FlattenLists
  <2> QED
    BY <1>10, <2>1
<1>12. Envelopes(f, b) = IF \A i \in DOMAIN flat : flat[i][1] = "env" THEN Ok(flat) ELSE Failed
  BY <1>3, <1>6, <1>8 DEF AndThen
<1> HIDE DEF flat
<1>13. \A i \in DOMAIN flat : flat[i][1] = "env"
  <2>1. Envelopes(f, b).ok
    OBVIOUS
  <2> HIDE DEF b
  <2> QED
    BY <1>12, <2>1 DEF Failed
<1>14. Envelopes(f, b).value = flat
  BY <1>12, <1>13 DEF Ok
<1>15. DOMAIN flat = 1 .. Len(flat)
  BY <1>11, ListMembers
<1> QED
  BY <1>11, <1>13, <1>14, <1>15

EnvelopeIn(f, name, holder, ctx) ==
    \E e \in ToSet(f) \cup Packed(f) :
        e[1] = "env" /\ e[2].name = name /\ e[2].ctx = ctx /\ e[2].to = holder

\* The envelope that gave a content key.
LEMMA KeyHasEnvelope ==
    ASSUME NEW f, Cells(f), Parse(f).ok, NEW r, NEW holder, NEW ctx,
           SectionContentKey(f, Parse(f).value, r, holder, ctx).ok
    PROVE  EnvelopeIn(f, r.name, holder, ctx)
<1> DEFINE b == Parse(f).value
<1>1. PICK envs : envs = Envelopes(f, b)
  OBVIOUS
<1>2. PICK all : all = envs.value
  OBVIOUS
<1> DEFINE M == {i \in DOMAIN all : /\ all[i][2].name = r.name /\ all[i][2].ctx = ctx
                                    /\ all[i][2].to = holder /\ all[i][2].suite = b.h.suite}
           mine == Picked(all, M)
<1>3. envs.ok /\ SectionContentKey(f, b, r, holder, ctx) =
                   IF mine # <<>> THEN Ok(mine[1][2].key) ELSE Failed
  BY <1>1, <1>2 DEF SectionContentKey, AndThen, Failed
<1>4. mine # <<>>
  <2>1. SectionContentKey(f, b, r, holder, ctx).ok
    OBVIOUS
  <2> HIDE DEF b, mine
  <2> QED
    BY <1>3, <2>1 DEF Failed
<1>5. /\ List(all) /\ ToSet(all) \subseteq ToSet(f) \cup Packed(f)
      /\ \A i \in 1 .. Len(all) : all[i][1] = "env"
  BY <1>1, <1>2, <1>3, EnvelopesRead
<1>6. M \subseteq DOMAIN all /\ \A i \in M : /\ all[i][2].name = r.name /\ all[i][2].ctx = ctx
                                             /\ all[i][2].to = holder
  OBVIOUS
<1> HIDE DEF M
<1>7. List(mine) /\ \A k \in 1 .. Len(mine) : \E i \in M : mine[k] = all[i]
  BY <1>5, <1>6, PickedOf
<1>8. Len(mine) \in Nat /\ mine = [i \in 1 .. Len(mine) |-> mine[i]]
  <2> HIDE DEF mine
  <2> QED
    BY <1>7, ListMembers
<1>9. 1 \in 1 .. Len(mine)
  <2> HIDE DEF mine
  <2>1. Len(mine) # 0
    <3>1. ASSUME Len(mine) = 0 PROVE mine = <<>>
      BY <1>8, <3>1
    <3> QED
      BY <1>4, <3>1
  <2> QED
    BY <1>8, <2>1
<1>10. PICK i \in M : mine[1] = all[i]
  BY <1>7, <1>9
<1>11. i \in 1 .. Len(all) /\ all[i] \in ToSet(all)
  BY <1>5, <1>6, ListMembers
<1> QED
  BY <1>5, <1>6, <1>10, <1>11 DEF EnvelopeIn

LEMMA ReadIndex ==
    ASSUME NEW f, Cells(f), Parse(f).ok, NEW r, IndexFor(f, Parse(f).value, r).ok,
           IndexFor(f, Parse(f).value, r).value # <<>>
    PROVE  /\ r \in ToSet(Parse(f).value.secs)
           /\ Reduces(IndexFor(f, Parse(f).value, r).value, r.lenPlain, r.chunkSize, r.root)
<1> DEFINE b == Parse(f).value
           n == ChunkCount(r.lenPlain, r.chunkSize)
<1>1. PICK cells : cells = Slice(f, r.indexOff, IndexEnd(r))
  OBVIOUS
<1>2. /\ Owned(b, r) /\ r.indexOff # 0
      /\ IndexFor(f, b, r) = AndThen(ParseIndex(cells, n),
           LAMBDA cvs : IF VerifyRoot(cvs, r.root, r.chunkSize) THEN Ok(cvs) ELSE Failed)
  BY <1>1 DEF IndexFor, Failed, Ok
<1>3. r \in ToSet(b.secs)
  BY <1>2 DEF Owned, ToSet
<1>4. PICK index : index = IndexFor(f, b, r)
  OBVIOUS
<1>5. index.ok
  BY <1>4
<1>6. n \in Nat
  <2>1. f \in Seq(ToSet(f))
    BY DEF Cells
  <2>2. RecordOk(r)
    BY <1>3, <2>1, TableFacts DEF Tabled, ToSet
  <2> QED
    BY <1>2, <2>2, CountIsNat DEF RecordOk, ChunkingOk
<1> HIDE DEF b, n
<1>7. /\ ParseIndex(cells, n).ok /\ index.value = ParseIndex(cells, n).value
      /\ VerifyRoot(index.value, r.root, r.chunkSize)
  BY <1>2, <1>4, <1>5 DEF AndThen, Ok, Failed
<1>8. n >= 2 /\ index.value = [i \in 1 .. n |-> CvOf(cells[i])]
  BY <1>7 DEF ParseIndex, Ok, Failed
<1>9. List(index.value) /\ Len(index.value) = n
  <2>1. index.value = [i \in 1 .. n |-> index.value[i]]
    BY <1>8
  <2> QED
    BY <1>6, <2>1, MadeList
<1> QED
  BY <1>3, <1>4, <1>7, <1>8, <1>9 DEF Reduces, VerifyRoot, b, n

\* A part of a list is one.
LEMMA ChunkIsList ==
    ASSUME NEW plain, List(plain), NEW cs \in Nat, NEW i \in Nat
    PROVE  List(Chunk(plain, i, cs))
<1>1. PICK at \in Nat : at = i * cs
  BY ProductIsNat
<1>2. PICK next \in Nat : next = (i + 1) * cs
  <2>1. i + 1 \in Nat
    OBVIOUS
  <2> QED
    BY <2>1, ProductIsNat
<1>3. PICK hi : hi = IF next < Len(plain) THEN next ELSE Len(plain)
  OBVIOUS
<1>4. hi \in Int /\ hi <= Len(plain) /\ at + 1 \in Int /\ at + 1 >= 1
  BY <1>3, ListMembers
<1>5. PICK part : part = SubSeq(plain, at + 1, hi)
  OBVIOUS
<1>6. part \in Seq(ToSet(part))
  BY <1>4, <1>5, CutCells DEF List
<1>7. Chunk(plain, i, cs) = part
  BY <1>1, <1>2, <1>3, <1>5 DEF Chunk
<1> QED
  BY <1>6, <1>7 DEF List

(***************************************************************************)
(* Answers                                                                 *)
(***************************************************************************)
LEMMA ReadBytes ==
    ASSUME NEW f, Cells(f), Parse(f).ok, NEW r, SectionBytes(f, Parse(f).value, r).ok
    PROVE  LET plain == SectionBytes(f, Parse(f).value, r).value IN
           r \in ToSet(Parse(f).value.secs) /\ List(plain) /\ Hash(plain) = r.root
<1>1. /\ Owned(Parse(f).value, r)
      /\ SectionBytes(f, Parse(f).value, r) = VerifiedBytes(f, r)
  BY DEF SectionBytes, Failed
<1>2. r \in ToSet(Parse(f).value.secs)
  BY <1>1 DEF Owned, ToSet
<1> QED
  BY <1>1, <1>2, ReadList

(***************************************************************************)
(* Compression undone                                                      *)
(***************************************************************************)
\* One cell from each.
LEMMA FlattenCells ==
    ASSUME NEW n \in Nat, NEW seqs, NEW cells,
           seqs = [i \in 1 .. n |-> <<cells[i]>>], cells = [i \in 1 .. n |-> cells[i]]
    PROVE  FlattenSeq(seqs) = cells
<1> DEFINE C == {cells[i] : i \in 1 .. n}
           sum == [i \in 0 .. n |-> [j \in 1 .. i |-> cells[j]]]
<1>1. \A i \in 1 .. n : cells[i] \in C /\ <<cells[i]>> \in Seq(C)
  OBVIOUS
<1> HIDE DEF C
<1>2. seqs \in Seq(Seq(C)) /\ Len(seqs) = n
  <2>1. \A i \in 1 .. n : seqs[i] \in Seq(C)
    BY <1>1
  <2>2. seqs \in [1 .. n -> Seq(C)]
    BY <2>1
  <2> QED
    BY <2>2
<1>3. sum[0] = <<>> /\ sum[n] = cells
  OBVIOUS
<1>4. ASSUME NEW i \in 1 .. n
      PROVE  sum[i - 1] \in Seq(C) /\ sum[i] = sum[i - 1] \o seqs[i]
  <2>1. i - 1 \in 0 .. n /\ i \in 0 .. n /\ 1 .. i - 1 \subseteq 1 .. n
    OBVIOUS
  <2>2. PICK a : a = sum[i - 1]
    OBVIOUS
  <2>3. PICK b : b = sum[i]
    OBVIOUS
  <2>4. a = [j \in 1 .. i - 1 |-> cells[j]] /\ b = [j \in 1 .. i |-> cells[j]]
    BY <2>1, <2>2, <2>3
  <2>5. a \in Seq(C) /\ Len(a) = i - 1
    <3>1. i - 1 \in Nat
      OBVIOUS
    <3>2. a \in [1 .. i - 1 -> C]
      BY <1>1, <2>1, <2>4
    <3> QED
      BY <3>1, <3>2
  <2>6. seqs[i] = <<cells[i]>>
    OBVIOUS
  <2>7. b = a \o <<cells[i]>>
    BY <1>1, <2>4, <2>5
  <2> QED
    BY <2>2, <2>3, <2>5, <2>6, <2>7
<1> HIDE DEF sum
<1>5. \A i \in 1 .. Len(seqs) : sum[i - 1] \in Seq(C) /\ sum[i] = sum[i - 1] \o seqs[i]
  BY <1>2, <1>4
<1>6. PICK flat : flat = FlattenSeq(seqs)
  OBVIOUS
<1>7. flat = sum[Len(seqs)]
  BY <1>2, <1>3, <1>5, <1>6, FlattenIs
<1> QED
  BY <1>2, <1>3, <1>6, <1>7

\* Chunk for chunk, the whole.
LEMMA SlicesJoin ==
    ASSUME NEW plain, List(plain), NEW cs \in Nat, cs # 0
    PROVE  FlattenSeq(Slices(plain, cs)) = plain
<1> DEFINE C == ToSet(plain)
           seqs == Slices(plain, cs)
<1>1. PICK n \in Nat : n = Len(plain)
  BY ListMembers
<1>2. PICK m : m = ChunkCount(n, cs)
  OBVIOUS
<1>3. m \in Nat /\ n <= m * cs
  <2>1. cs >= 1
    OBVIOUS
  <2> QED
    BY <1>1, <1>2, <2>1, CountCovers DEF Covers
<1>4. seqs = [i \in 1 .. m |-> Chunk(plain, i - 1, cs)]
  BY <1>1, <1>2 DEF Slices
<1> HIDE DEF seqs
<1> DEFINE end(i) == IF i * cs < n THEN i * cs ELSE n
           sum == [i \in 0 .. m |-> SubSeq(plain, 1, end(i))]
<1>5. plain \in Seq(C)
  BY DEF List
<1> HIDE DEF C
<1>6. \A i \in Nat : end(i) \in 0 .. n
  BY <1>1, ProductIsNat
<1>7. ASSUME NEW i \in 1 .. m
      PROVE  /\ i - 1 \in 0 .. m /\ i \in 0 .. m /\ end(i - 1) <= end(i)
             /\ seqs[i] = SubSeq(plain, end(i - 1) + 1, end(i))
  <2>1. i - 1 \in Nat /\ i \in Nat /\ (i - 1) + 1 = i
    BY <1>3
  <2>2. PICK at \in Nat : at = (i - 1) * cs
    BY <2>1, ProductIsNat
  <2>3. i * cs = at + cs
    <3>1. (i - 1 + 1) * cs = (i - 1) * cs + 1 * cs
      BY <2>1, FactorsOut
    <3> QED
      BY <2>1, <2>2, <3>1
  <2>4. i - 1 \in 0 .. ChunkCount(Len(plain), cs) - 1
    BY <1>1, <1>2, <1>3
  <2>5. at < n
    <3>1. cs >= 1
      OBVIOUS
    <3>2. PICK part : part = Chunk(plain, i - 1, cs)
      OBVIOUS
    <3>3. ChunkIs(plain, i - 1, cs, part)
      BY <2>4, <3>1, <3>2, ChunkFacts
    <3> QED
      BY <1>1, <2>2, <3>3 DEF ChunkIs
  <2>6. end(i - 1) = at /\ end(i) = IF at + cs < n THEN at + cs ELSE n
    BY <2>2, <2>3, <2>5
  <2>7. Chunk(plain, i - 1, cs) = SubSeq(plain, at + 1, IF at + cs < n THEN at + cs ELSE n)
    BY <1>1, <2>1, <2>2, <2>3 DEF Chunk
  <2> HIDE DEF end
  <2>8. end(i - 1) <= end(i)
    BY <1>1, <2>2, <2>5, <2>6
  <2>9. i - 1 \in 0 .. m /\ i \in 0 .. m
    BY <1>3
  <2> QED
    BY <1>4, <2>6, <2>7, <2>8, <2>9
<1>8. end(0) = 0 /\ end(m) = n
  BY <1>1, <1>3, ProductIsNat
<1> HIDE DEF end
<1>9. ASSUME NEW i \in 1 .. m
      PROVE  sum[i - 1] \in Seq(C) /\ sum[i] = sum[i - 1] \o seqs[i]
  <2>1. PICK x \in 0 .. n : x = end(i - 1)
    BY <1>3, <1>6
  <2>2. PICK y \in 0 .. n : y = end(i)
    BY <1>3, <1>6
  <2>3. x <= y /\ sum[i - 1] = SubSeq(plain, 1, x) /\ sum[i] = SubSeq(plain, 1, y)
        /\ seqs[i] = SubSeq(plain, x + 1, y)
    BY <1>7, <2>1, <2>2
  <2> HIDE DEF sum
  <2>4. SubSeq(plain, 1, x) \o SubSeq(plain, x + 1, y) = SubSeq(plain, 1, y)
    <3>1. 1 \in 1 .. Len(plain) + 1 /\ x \in 1 - 1 .. Len(plain) /\ y \in x .. Len(plain)
      BY <1>1, <2>1, <2>2, <2>3
    <3> QED
      BY <1>5, <3>1, ConcatAdjacentSubSeq
  <2>5. SubSeq(plain, 1, x) \in Seq(C)
    BY <1>1, <1>5
  <2> QED
    BY <2>3, <2>4, <2>5
<1>10. sum[0] = <<>> /\ sum[m] = plain
  <2>1. sum[0] = SubSeq(plain, 1, 0) /\ sum[m] = SubSeq(plain, 1, n)
    BY <1>3, <1>8
  <2>2. SubSeq(plain, 1, 0) = <<>>
    BY <1>5
  <2>3. SubSeq(plain, 1, n) = plain
    BY <1>1, <1>5, SubSeqFull
  <2> QED
    BY <2>1, <2>2, <2>3
<1> HIDE DEF sum
<1>11. seqs \in Seq(Seq(C)) /\ Len(seqs) = m
  <2>1. \A i \in 1 .. m : seqs[i] \in Seq(C)
    <3>1. ASSUME NEW i \in 1 .. m
          PROVE  seqs[i] \in Seq(C)
      <4>1. PICK x \in 0 .. n : x = end(i - 1)
        BY <1>3, <1>6
      <4>2. PICK y \in 0 .. n : y = end(i)
        BY <1>3, <1>6
      <4>3. x <= y /\ seqs[i] = SubSeq(plain, x + 1, y)
        BY <1>7, <4>1, <4>2
      <4>4. SubSeq(plain, x + 1, y) \in Seq(C)
        BY <1>1, <1>5
      <4> QED
        BY <4>3, <4>4
    <3> QED
      BY <3>1
  <2> QED
    BY <1>3, <1>4, <2>1
<1>12. FlattenSeq(seqs) = sum[Len(seqs)]
  BY <1>9, <1>10, <1>11, FlattenIs
<1> QED
  BY <1>10, <1>11, <1>12 DEF seqs

\* What was compressed comes back, or the length does not fit.
LEMMA CompressionUndone ==
    ASSUME NEW plain, List(plain), NEW cs \in Nat, NEW want
    PROVE  DecompressExact(Compress(plain, cs), want) =
              IF Len(plain) = want THEN Ok(plain) ELSE Failed
<1> DEFINE parts == IF cs = 0 \/ plain = <<>> THEN <<plain>> ELSE Slices(plain, cs)
           frames == CompressFrames(plain, cs)
           C == ToSet(plain)
<1>1. \E n \in Nat \ {0} : DOMAIN parts = 1 .. n
  <2>1. Len(plain) \in Nat /\ (plain # <<>> => Len(plain) >= 1)
    BY ListMembers DEF List
  <2>2. CASE cs = 0 \/ plain = <<>>
    <3>1. PICK ps : ps = <<plain>>
      OBVIOUS
    <3>2. parts = ps
      BY <2>2, <3>1
    <3> HIDE DEF parts
    <3>3. DOMAIN parts = 1 .. 1 /\ 1 \in Nat \ {0}
      BY <3>1, <3>2
    <3> QED
      BY <3>3
  <2>3. CASE ~(cs = 0 \/ plain = <<>>)
    <3>1. PICK m : m = ChunkCount(Len(plain), cs)
      OBVIOUS
    <3>2. m \in Nat /\ Len(plain) <= m * cs
      BY <2>1, <2>3, <3>1, CountCovers DEF Covers
    <3>3. m # 0
      BY <2>1, <2>3, <3>2
    <3>4. DOMAIN Slices(plain, cs) = 1 .. m
      BY <3>1 DEF Slices
    <3> QED
      BY <2>3, <3>2, <3>3, <3>4
  <2> QED
    BY <2>2, <2>3
<1>2. PICK n \in Nat \ {0} : DOMAIN parts = 1 .. n
  BY <1>1
<1>3. FlattenSeq(parts) = plain
  <2>1. CASE cs = 0 \/ plain = <<>>
    <3>1. parts = <<plain>> /\ plain \in Seq(C)
      BY <2>1 DEF List
    <3> HIDE DEF parts, C
    <3>2. parts \in Seq(Seq(C)) /\ Len(parts) = 1 /\ parts[1] = plain
      BY <3>1
    <3> DEFINE sum == [i \in 0 .. 1 |-> IF i = 0 THEN <<>> ELSE plain]
    <3>3. sum[0] = <<>> /\ sum[1] = plain /\ <<>> \in Seq(C) /\ <<>> \o plain = plain
      BY <3>1
    <3> HIDE DEF sum
    <3>4. ASSUME NEW i \in 1 .. Len(parts)
          PROVE  sum[i - 1] \in Seq(C) /\ sum[i] = sum[i - 1] \o parts[i]
      <4>1. i = 1 /\ i - 1 = 0
        BY <3>2
      <4> QED
        BY <3>2, <3>3, <4>1
    <3>5. FlattenSeq(parts) = sum[Len(parts)]
      BY <3>2, <3>3, <3>4, FlattenIs
    <3> QED
      BY <3>2, <3>3, <3>5
  <2>2. CASE ~(cs = 0 \/ plain = <<>>)
    BY <2>2, SlicesJoin
  <2> QED
    BY <2>1, <2>2
<1>4. frames = [i \in 1 .. n |-> <<<<"zstd", parts[i]>>>>]
  BY <1>2 DEF CompressFrames
<1>5. parts = [i \in 1 .. n |-> parts[i]]
  <2>1. CASE cs = 0 \/ plain = <<>>
    BY <1>2, <2>1
  <2>2. CASE ~(cs = 0 \/ plain = <<>>)
    BY <1>2, <2>2 DEF Slices
  <2> QED
    BY <2>1, <2>2
<1> HIDE DEF parts
<1> DEFINE cells == [i \in 1 .. n |-> <<"zstd", parts[i]>>]
<1>6. Compress(plain, cs) = cells
  <2>1. cells = [i \in 1 .. n |-> cells[i]] /\ frames = [i \in 1 .. n |-> <<cells[i]>>]
    BY <1>4
  <2> HIDE DEF frames, cells
  <2>2. FlattenSeq(frames) = cells
    BY <2>1, FlattenCells
  <2> QED
    BY <2>2 DEF Compress, frames
<1>7. DecompressExact(cells, want) =
         LET whole == FlattenSeq([i \in DOMAIN cells |-> cells[i][2]])
         IN IF Len(whole) = want THEN Ok(whole) ELSE Failed
  <2>1. \A i \in DOMAIN cells : cells[i][1] = "zstd"
    OBVIOUS
  <2>2. cells # <<>>
    <3>1. 1 \in DOMAIN cells
      OBVIOUS
    <3> HIDE DEF cells
    <3> QED
      BY <3>1
  <2> HIDE DEF cells
  <2> QED
    BY <2>1, <2>2 DEF DecompressExact
<1>8. [i \in DOMAIN cells |-> cells[i][2]] = parts
  BY <1>5
<1> QED
  BY <1>3, <1>6, <1>7, <1>8

\* The payload that a record names, cell for cell.
LEMMA StoredCut ==
    ASSUME NEW f, Cells(f), Parse(f).ok, NEW r \in ToSet(Parse(f).value.secs),
           "EXTERNAL" \notin r.flags
    PROVE  LET stored == Slice(f, r.offset, StoredEnd(r)) IN
           /\ List(stored) /\ Len(stored) = r.lenStored
           /\ r.offset \in Nat /\ r.offset >= 1 /\ r.lenStored \in Nat
           /\ \A j \in 1 .. r.lenStored : stored[j] = f[r.offset + j]
<1> DEFINE b == Parse(f).value
<1>1. f \in Seq(ToSet(f)) /\ Len(f) \in Nat
  BY DEF Cells
<1>2. Tabled(f, b.h, b.secs, b.h.count)
  BY <1>1, TableFacts
<1>3. b.h.footerOff \in Nat /\ b.h.footerOff + 2 <= Len(f)
  BY <1>1, FooterFacts
<1>4. PICK i \in DOMAIN b.secs : r = b.secs[i]
  BY DEF ToSet
<1> HIDE DEF b
<1>5. /\ r.offset \in Nat /\ r.lenStored \in Nat /\ StoredEnd(r) <= b.h.footerOff
      /\ r.offset >= 1
  BY <1>2, <1>4 DEF Tabled, RecordOk, LayoutOk, PlaceOk, HeaderLen
<1>6. PICK off \in Nat, n \in Nat : off = r.offset /\ n = r.lenStored
  BY <1>5
<1>7. off >= 1 /\ StoredEnd(r) = off + n /\ off + n <= Len(f)
  BY <1>1, <1>3, <1>5, <1>6 DEF StoredEnd
<1>8. PICK stored : stored = Slice(f, off, off + n)
  OBVIOUS
<1>9. /\ stored \in Seq(ToSet(stored))
      /\ Len(stored) = IF off + 1 <= off + n THEN (off + n) - (off + 1) + 1 ELSE 0
      /\ \A j \in 1 .. (off + n) - (off + 1) + 1 : stored[j] = f[(off + 1) + j - 1]
  <2>1. off + 1 \in Int /\ off + 1 >= 1 /\ off + n \in Int
    BY <1>6
  <2> QED
    BY <1>1, <1>7, <1>8, <2>1, CutCells DEF Slice
<1>10. Len(stored) = n
  BY <1>6, <1>9
<1>11. ASSUME NEW j \in 1 .. n
       PROVE  stored[j] = f[off + j]
  <2>1. (off + n) - (off + 1) + 1 = n /\ (off + 1) + j - 1 = off + j
    BY <1>6
  <2>2. stored[j] = f[(off + 1) + j - 1]
    BY <1>9, <2>1
  <2> QED
    BY <2>1, <2>2
<1> QED
  BY <1>5, <1>6, <1>7, <1>8, <1>9, <1>10, <1>11 DEF List

\* A payload that stands as it was written gives what was written.
LEMMA WrittenReads ==
    ASSUME NEW order, OrderOk(order), NEW s \in ToSet(order.specs),
           ~s.encrypt, s.from # "external", NEW stored, stored = Stored(order, s).value,
           NEW read, NEW lenPlain, read.ok,
           read = IF s.comp = "zstd" THEN Decompress(stored, lenPlain) ELSE Ok(stored)
    PROVE  read.value = PlainOf(order, s)
<1>1. PICK plain : plain = PlainOf(order, s)
  OBVIOUS
<1>2. List(plain) /\ s.cs \in Nat
  BY <1>1, PlainCells
<1>3. CASE s.comp = "zstd"
  <2>1. stored = Compress(plain, s.cs)
    BY <1>1, <1>3 DEF Stored, Ok
  <2>2. read = DecompressExact(stored, lenPlain)
    BY <1>3 DEF Decompress, Failed
  <2> QED
    BY <1>1, <1>2, <2>1, <2>2, CompressionUndone DEF Ok, Failed
<1>4. CASE s.comp # "zstd"
  <2>1. stored = plain
    BY <1>1, <1>4 DEF Stored, Ok
  <2> QED
    BY <1>1, <1>4, <2>1 DEF Ok
<1> QED
  BY <1>3, <1>4

(***************************************************************************)
(* The manifest                                                            *)
(***************************************************************************)
\* The manifest a reader holds was decoded from a section of the file, and agrees with
\* the table.
LEMMA ManifestFacts ==
    ASSUME NEW f, Cells(f), Parse(f).ok
    PROVE  LET b == Parse(f).value IN
           DecodeOk(b.man) /\ ValidateAgainst(b.man, b.secs) /\ List(b.man.names)
<1> DEFINE b == Parse(f).value
           h == f[1][2]
           table == Slice(f, h.tableOff, TableEnd(h))
           secs == [i \in DOMAIN table |-> table[i][2]]
<1>1. TableOk(table) /\ Parse(f) = ParseTable(f, h, table)
  <2>1. b.h = h /\ TableOk(Slice(f, b.h.tableOff, TableEnd(b.h)))
    BY ParseFacts
  <2> QED
    BY <2>1 DEF Parse, Failed
<1>2. Parse(f) = ParseSections(f, h, table, secs) /\ b.secs = secs
  <2>1. b.h = h /\ b.secs = [i \in DOMAIN Slice(f, b.h.tableOff, TableEnd(b.h)) |->
                            Slice(f, b.h.tableOff, TableEnd(b.h))[i][2]]
    BY ParseFacts
  <2> HIDE DEF h, table
  <2>2. Parse(f) = ParseSections(f, h, table, secs)
    BY <1>1 DEF ParseTable, Failed
  <2> QED
    BY <2>1, <2>2 DEF table
<1>3. PICK manifest : manifest = ManifestOf(f, secs)
  OBVIOUS
<1> HIDE DEF h, table, secs
<1>4. /\ manifest.ok /\ ValidateAgainst(manifest.value, secs) /\ b.man = manifest.value
  BY <1>2, <1>3 DEF ParseSections, Failed, AndThen, Ok
<1>5. LayoutOk(f, h, secs) /\ \A i \in DOMAIN secs : RecordOk(secs[i])
  <2>1. b.h = h /\ LayoutOk(f, b.h, b.secs)
    BY ParseFacts DEF h
  <2>2. \A i \in DOMAIN secs : RecordOk(secs[i])
    BY <1>1 DEF TableOk, secs
  <2> QED
    BY <1>2, <2>1, <2>2
<1>6. PICK m \in DOMAIN secs : /\ secs[m].kind = "manifest"
                               /\ manifest = AndThen(VerifiedBytes(f, secs[m]),
                                    LAMBDA bytes : IF Len(bytes) = 1 /\ bytes[1][1] = "man" /\ DecodeOk(bytes[1][2])
                                                   THEN Ok(bytes[1][2]) ELSE Failed)
  <2>1. {i \in DOMAIN secs : secs[i].kind = "manifest"} # {}
    <3> DEFINE M == {i \in DOMAIN secs : secs[i].kind = "manifest"}
    <3>1. Cardinality(M) = 1
      BY <1>5 DEF LayoutOk
    <3> HIDE DEF M
    <3>2. M # {}
      BY <3>1, FS_EmptySet
    <3> QED
      BY <3>2 DEF M
  <2>2. PICK m : m = CHOOSE i \in DOMAIN secs : secs[i].kind = "manifest"
    OBVIOUS
  <2>3. m \in DOMAIN secs /\ secs[m].kind = "manifest"
    BY <2>1, <2>2
  <2> QED
    BY <1>3, <2>2, <2>3 DEF ManifestOf
<1>7. PICK r, got : r = secs[m] /\ got = VerifiedBytes(f, secs[m])
  OBVIOUS
<1>8. r \in ToSet(b.secs) /\ RecordOk(r) /\ r.kind = "manifest"
  BY <1>2, <1>5, <1>6, <1>7 DEF ToSet
<1>9. r.comp = "none" /\ r.enc = "none" /\ "EXTERNAL" \notin r.flags
  BY <1>8 DEF RecordOk, KindOk
<1>10. /\ got.ok /\ Len(got.value) = 1 /\ got.value[1][1] = "man" /\ DecodeOk(got.value[1][2])
       /\ manifest.value = got.value[1][2]
  BY <1>4, <1>6, <1>7 DEF AndThen, Ok, Failed
<1>11. PICK stored : stored = Slice(f, r.offset, StoredEnd(r))
  OBVIOUS
<1>12. Frame(stored) /\ \A c \in ToSet(stored) : WellFormed(c)
  BY <1>8, <1>9, <1>11, StoredFrame
<1>13. got.value = stored
  BY <1>7, <1>9, <1>10, <1>11 DEF VerifiedBytes, ReadPlain, AndThen, Ok, Failed
<1>14. WellFormed(stored[1])
  <2>1. Len(stored) = 1
    BY <1>10, <1>13
  <2>2. 1 \in 1 .. Len(stored)
    BY <2>1
  <2> QED
    BY <1>12, <2>2, ListMembers DEF Frame
<1> QED
  BY <1>2, <1>4, <1>10, <1>13, <1>14 DEF WellFormed

\* What a reader is given has the length the record says.
LEMMA PlainLength ==
    ASSUME NEW f, Cells(f), Parse(f).ok, NEW r \in ToSet(Parse(f).value.secs),
           VerifiedBytes(f, r).ok
    PROVE  Len(VerifiedBytes(f, r).value) = r.lenPlain
<1>1. /\ ReadPlain(f, r).ok /\ VerifiedBytes(f, r).value = ReadPlain(f, r).value
  BY DEF VerifiedBytes, AndThen, Ok, Failed
<1>2. PICK stored : stored = Slice(f, r.offset, StoredEnd(r))
  OBVIOUS
<1>3. /\ "EXTERNAL" \notin r.flags /\ r.enc = "none"
      /\ ReadPlain(f, r) = IF r.comp = "zstd" THEN Decompress(stored, r.lenPlain) ELSE Ok(stored)
  BY <1>1, <1>2 DEF ReadPlain, Failed
<1>4. CASE r.comp = "zstd"
  BY <1>1, <1>3, <1>4 DEF Decompress, DecompressExact, Ok, Failed
<1>5. CASE r.comp # "zstd"
  <2>1. RecordOk(r)
    <3>1. Tabled(f, Parse(f).value.h, Parse(f).value.secs, Parse(f).value.h.count)
      BY TableFacts DEF Cells
    <3> QED
      BY <3>1 DEF Tabled, ToSet
  <2>2. r.lenStored = r.lenPlain
    BY <1>3, <1>5, <2>1 DEF RecordOk, PlaceOk
  <2>3. Len(stored) = r.lenStored
    BY <1>2, <1>3, StoredCut
  <2> QED
    BY <1>1, <1>3, <1>5, <2>2, <2>3 DEF Ok
<1> QED
  BY <1>4, <1>5

(***************************************************************************)
(* What stands as it was written                                           *)
(***************************************************************************)
\* The records of a written file are those of the sections its author asked for, one
\* for one.
LEMMA WrittenTable ==
    ASSUME NEW order, OrderOk(order), CanLay(order), NEW g, LaidAs(order, g),
           Cells(g), Parse(g).ok, NEW i, i \in 1 .. Len(order.specs)
    PROVE  LET r == Parse(g).value.secs[i]
               s == order.specs[i]
           IN /\ DOMAIN Parse(g).value.secs = 1 .. Len(order.specs)
              /\ s \in ToSet(order.specs) /\ r \in ToSet(Parse(g).value.secs)
              /\ Describes(order, s, r) /\ PayloadAt(order, s, r.offset, g)
<1> DEFINE b == Parse(g).value
<1>2. g \in Seq(ToSet(g)) /\ g # <<>>
  BY ParseFacts DEF Cells
<1>3. /\ b.h = g[1][2] /\ b.secs = [j \in DOMAIN Slice(g, b.h.tableOff, TableEnd(b.h)) |->
                            Slice(g, b.h.tableOff, TableEnd(b.h))[j][2]]
  BY ParseFacts
<1>4. /\ DOMAIN b.secs = 1 .. b.h.count
      /\ \A j \in 1 .. b.h.count :
            g[b.h.tableOff + j] = Slice(g, b.h.tableOff, TableEnd(b.h))[j]
  BY <1>2, TableFacts DEF Tabled
<1>5. b.h.count = Len(order.specs)
  BY <1>3 DEF LaidAs
<1>6. PICK r : r = b.secs[i]
  OBVIOUS
<1>7. r = g[b.h.tableOff + i][2]
  <2> HIDE DEF b
  <2>1. PICK t : t = Slice(g, b.h.tableOff, TableEnd(b.h))
    OBVIOUS
  <2>2. b.secs = [j \in DOMAIN t |-> t[j][2]]
    BY <1>3, <2>1
  <2>3. i \in DOMAIN t
    BY <1>4, <1>5, <2>2
  <2> QED
    BY <1>4, <1>5, <1>6, <2>1, <2>2, <2>3
<1>8. /\ i \in 1 .. Len(order.specs) /\ RecordAt(order, i, g[b.h.tableOff + i])
      /\ PayloadAt(order, order.specs[i], g[b.h.tableOff + i][2].offset, g)
  <2>1. PICK n : n = Len(order.specs)
    OBVIOUS
  <2>2. i \in 1 .. n
    BY <2>1
  <2>3. PICK m : m = b.h.tableOff
    OBVIOUS
  <2>4. m = g[1][2].tableOff
    BY <1>3, <2>3
  <2> HIDE DEF b
  <2>6. RecordAt(order, i, g[m + i]) /\ PayloadAt(order, order.specs[i], g[m + i][2].offset, g)
    BY <2>1, <2>2, <2>4 DEF LaidAs
  <2> QED
    BY <2>1, <2>2, <2>3, <2>6
<1> HIDE DEF b
<1>9. PICK s : s = order.specs[i]
  OBVIOUS
<1>10. s \in ToSet(order.specs)
  BY <1>8, <1>9 DEF OrderOk, ToSet
<1>11. /\ r = RecordFor(order, s, r.offset, r.indexOff)
       /\ PayloadAt(order, s, r.offset, g)
  <2>1. PICK c : c = g[b.h.tableOff + i]
    OBVIOUS
  <2>2. c[2] = r /\ PayloadAt(order, s, c[2].offset, g)
    BY <1>7, <1>8, <1>9, <2>1
  <2>3. c = <<"rec", RecordFor(order, s, c[2].offset, c[2].indexOff)>>
    BY <1>8, <1>9, <2>1 DEF RecordAt
  <2>4. PICK x : x = RecordFor(order, s, c[2].offset, c[2].indexOff)
    OBVIOUS
  <2>5. c[2] = x
    BY <2>3, <2>4
  <2> QED
    BY <2>2, <2>4, <2>5
<1>12. RootOf(order, s) = Hash(PlainOf(order, s))
  BY <1>8, <1>9, RootOfSection
<1>13. PICK off, idx : r = RecordFor(order, s, off, idx)
  BY <1>11
<1>14. Describes(order, s, r)
  BY <1>10, <1>12, <1>13 DEF Describes, RecordFor
<1>15. r \in ToSet(b.secs)
  BY <1>4, <1>5, <1>6 DEF ToSet
<1> QED
  BY <1>4, <1>5, <1>6, <1>9, <1>10, <1>11, <1>14, <1>15 DEF b

\* Each record of a written file is that of a section its author asked for.
LEMMA WrittenRecords ==
    ASSUME NEW order, OrderOk(order), CanLay(order), NEW g, LaidAs(order, g),
           Cells(g), Parse(g).ok, NEW r \in ToSet(Parse(g).value.secs)
    PROVE  \E s \in ToSet(order.specs) : Describes(order, s, r) /\ PayloadAt(order, s, r.offset, g)
<1>1. PICK secs, n : secs = Parse(g).value.secs /\ n = Len(order.specs)
  OBVIOUS
<1>2. PICK i \in DOMAIN secs : r = secs[i]
  BY <1>1 DEF ToSet
<1>3. DOMAIN secs = 1 .. n
  <2>1. Parse(g).value.h.count = n /\ DOMAIN secs = 1 .. Parse(g).value.h.count
    BY <1>1, ParseFacts, TableFacts DEF LaidAs, Cells, Tabled
  <2> QED
    BY <2>1
<1>4. PICK s : s = order.specs[i]
  OBVIOUS
<1>5. s \in ToSet(order.specs) /\ Describes(order, s, r) /\ PayloadAt(order, s, r.offset, g)
  <2>1. i \in 1 .. Len(order.specs) /\ r = Parse(g).value.secs[i]
    BY <1>1, <1>2, <1>3
  <2> QED
    BY <1>4, <2>1, WrittenTable
<1> QED
  BY <1>5

\* The payload of a written file, at the place its record gives.
LEMMA StandsAsWritten ==
    ASSUME NEW order, OrderOk(order), NEW g, Cells(g), Parse(g).ok,
           NEW r \in ToSet(Parse(g).value.secs), NEW s \in ToSet(order.specs),
           Describes(order, s, r), PayloadAt(order, s, r.offset, g), "EXTERNAL" \notin r.flags
    PROVE  s.from # "external" /\ Slice(g, r.offset, StoredEnd(r)) = Stored(order, s).value
<1>1. PICK stored : stored = Slice(g, r.offset, StoredEnd(r))
  OBVIOUS
<1>2. PICK off \in Nat, n \in Nat : off = r.offset /\ n = r.lenStored
  BY StoredCut
<1>3. List(stored) /\ Len(stored) = n /\ off >= 1 /\ \A j \in 1 .. n : stored[j] = g[off + j]
  BY <1>1, <1>2, StoredCut
<1>4. s.from # "external"
  BY <1>2, <1>3 DEF PayloadAt
<1>5. PICK cells : cells = Stored(order, s).value
  OBVIOUS
<1>6. List(cells) /\ Len(cells) = n
  <2>1. cells \in Seq(ToSet(cells))
    BY <1>5, StoredCells DEF OrderCells
  <2>2. n = Len(cells)
    BY <1>2, <1>5 DEF Describes
  <2> QED
    BY <2>1, <2>2 DEF List
<1>7. \A j \in 1 .. n : g[off + j] = cells[j]
  BY <1>2, <1>4, <1>5, <1>6 DEF PayloadAt, HoldsAt
<1>8. \A j \in 1 .. n : stored[j] = cells[j]
  BY <1>3, <1>7
<1>9. stored = cells
  BY <1>3, <1>6, <1>8, SameList
<1> QED
  BY <1>1, <1>4, <1>5, <1>9

\* A section that takes no key comes back as it was given, if what was compressed is
\* within the caps.
LEMMA WrittenIsRead ==
    ASSUME NEW order, OrderOk(order), NEW g, Cells(g), Parse(g).ok,
           NEW r \in ToSet(Parse(g).value.secs), NEW s \in ToSet(order.specs),
           Describes(order, s, r), PayloadAt(order, s, r.offset, g), "EXTERNAL" \notin r.flags,
           r.enc = "none", r.kind \in KnownKinds \/ r.comp = "none",
           r.comp = "zstd" => WithinCaps(r.lenPlain, r.lenStored)
    PROVE  VerifiedBytes(g, r) = Ok(PlainOf(order, s))
<1>1. PICK stored, plain : stored = Stored(order, s).value /\ plain = PlainOf(order, s)
  OBVIOUS
<1>2. ~s.encrypt /\ s.comp = r.comp /\ r.lenPlain = Len(plain) /\ r.lenStored = Len(stored)
      /\ r.root = Hash(plain)
  BY <1>1 DEF Describes
<1>3. s.from # "external" /\ Slice(g, r.offset, StoredEnd(r)) = stored
  BY <1>1, StandsAsWritten
<1>4. ReadPlain(g, r) = IF r.comp = "zstd" THEN Decompress(stored, r.lenPlain) ELSE Ok(stored)
  BY <1>3 DEF ReadPlain
<1>5. List(plain) /\ s.cs \in Nat
  BY <1>1, PlainCells
<1>6. ReadPlain(g, r) = Ok(plain)
  <2>1. CASE s.comp = "zstd"
    <3>1. stored = Compress(plain, s.cs)
      BY <1>1, <1>2, <1>3, <2>1 DEF Stored, Ok
    <3>2. ReadPlain(g, r) = DecompressExact(stored, r.lenPlain)
      BY <1>2, <1>4, <2>1 DEF Decompress
    <3> QED
      BY <1>2, <1>5, <3>1, <3>2, CompressionUndone
  <2>2. CASE s.comp # "zstd"
    <3>1. stored = plain
      BY <1>1, <1>2, <1>3, <2>2 DEF Stored, Ok
    <3> QED
      BY <1>2, <1>4, <2>2, <3>1
  <2> QED
    BY <2>1, <2>2
<1> QED
  BY <1>1, <1>2, <1>6 DEF VerifiedBytes, AndThen, Ok

\* Two records of a parsed table with one name are one record.
LEMMA OneRecordPerName ==
    ASSUME NEW f, Parse(f).ok, NEW r \in ToSet(Parse(f).value.secs),
           NEW x \in ToSet(Parse(f).value.secs), r.name = x.name
    PROVE  r = x
<1> DEFINE secs == Parse(f).value.secs
<1>1. \A i, j \in DOMAIN secs : secs[i].name = secs[j].name => i = j
  BY ParseFacts DEF LayoutOk
<1> QED
  BY <1>1 DEF ToSet

(***************************************************************************)
(* The listing                                                             *)
(***************************************************************************)
Listable(b) == {i \in DOMAIN b.secs : /\ b.secs[i].kind \in KnownKinds
                                      /\ "PLAYER_VISIBLE" \in b.secs[i].flags
                                      /\ "SEALED" \notin b.secs[i].flags}

\* What is listed of one record.
Listing(b, r) ==
    [id |-> r.name, name |-> b.man.names[r.name + 1],
     path |-> IF r.name \in DOMAIN b.man.paths THEN {b.man.paths[r.name]} ELSE {},
     size |-> r.lenPlain, root |-> r.root, external |-> "EXTERNAL" \in r.flags,
     mirrors |-> IF "EXTERNAL" \in r.flags THEN b.man.external[r.name].mirrors ELSE {}]

\* The positions that are listed, in table order.
ListedAt(b, at) ==
    /\ at \in Seq(Listable(b)) /\ DOMAIN ServingManifest(b) = 1 .. Len(at)
    /\ \A k \in 1 .. Len(at) : ServingManifest(b)[k] = Listing(b, b.secs[at[k]])
    /\ \A x \in Listable(b) : \E k \in 1 .. Len(at) : at[k] = x
    /\ \A j, k \in 1 .. Len(at) : at[j] = at[k] => j = k

LEMMA SectionsList ==
    ASSUME NEW f, Cells(f), Parse(f).ok
    PROVE  List(Parse(f).value.secs)
<1>1. PICK secs : secs = Parse(f).value.secs
  OBVIOUS
<1>2. PICK n \in Nat : DOMAIN secs = 1 .. n
  BY <1>1, TableFacts DEF Cells, Tabled
<1>3. PICK t : t = Slice(f, Parse(f).value.h.tableOff, TableEnd(Parse(f).value.h))
  OBVIOUS
<1>4. secs = [i \in 1 .. n |-> secs[i]]
  <2>1. secs = [i \in DOMAIN t |-> t[i][2]]
    BY <1>1, <1>3, ParseFacts
  <2> QED
    BY <1>2, <2>1
<1> QED
  BY <1>1, <1>4, MadeList

LEMMA ListingFacts ==
    ASSUME NEW f, Cells(f), Parse(f).ok
    PROVE  \E at : ListedAt(Parse(f).value, at)
<1>1. PICK b : b = Parse(f).value
  OBVIOUS
<1>2. List(b.secs)
  BY <1>1, SectionsList
<1>3. PICK S : S = Listable(b)
  OBVIOUS
<1>4. S \subseteq DOMAIN b.secs
  BY <1>3 DEF Listable
<1>5. PICK at \in Seq(S) :
        /\ Len(at) = Cardinality(S) /\ Cardinality(S) \in Nat
        /\ \A x \in S : \E k \in 1 .. Len(at) : at[k] = x
        /\ \A i, j \in 1 .. Len(at) : i < j => at[i] < at[j]
        /\ List(Picked(b.secs, S)) /\ Len(Picked(b.secs, S)) = Len(at)
        /\ \A k \in 1 .. Len(at) : Picked(b.secs, S)[k] = b.secs[at[k]]
  BY <1>2, <1>4, PickedFacts
<1>6. PICK shown : shown = Picked(b.secs, S)
  OBVIOUS
<1>7. ServingManifest(b) = [i \in DOMAIN shown |-> Listing(b, shown[i])]
  BY <1>3, <1>6 DEF ServingManifest, Listing, Listable
<1>8. DOMAIN shown = 1 .. Len(at) /\ \A k \in 1 .. Len(at) : shown[k] = b.secs[at[k]]
  BY <1>5, <1>6, ListMembers
<1>9. ASSUME NEW j \in 1 .. Len(at), NEW k \in 1 .. Len(at), at[j] = at[k]
      PROVE  j = k
  <2>1. at[j] \in Nat /\ at[k] \in Nat
    <3>1. DOMAIN b.secs = 1 .. Len(b.secs) /\ Len(b.secs) \in Nat
      BY <1>2, ListMembers
    <3> QED
      BY <1>4, <3>1
  <2>2. ~(at[j] < at[k]) /\ ~(at[k] < at[j])
    BY <1>9, <2>1
  <2>3. j \in Nat /\ k \in Nat /\ ~(j < k) /\ ~(k < j)
    BY <1>5, <2>2
  <2> QED
    BY <2>3
<1>10. ListedAt(b, at)
  BY <1>3, <1>5, <1>7, <1>8, <1>9 DEF ListedAt
<1> QED
  BY <1>1, <1>10

\* What the parser holds of every record: the rules of a record, a name, and a name that
\* is its own.
LEMMA RecordFacts ==
    ASSUME NEW f, Cells(f), Parse(f).ok, NEW r \in ToSet(Parse(f).value.secs)
    PROVE  LET b == Parse(f).value IN
           /\ RecordOk(r) /\ r.name \in Nat /\ r.name + 1 \in DOMAIN b.man.names
           /\ "EXTERNAL" \in r.flags =>
                /\ r.name \in DOMAIN b.man.external
                /\ b.man.external[r.name].size = r.lenPlain
                /\ b.man.external[r.name].mirrors # {}
<1>1. PICK b : b = Parse(f).value
  OBVIOUS
<1>2. RecordOk(r)
  <2>1. Tabled(f, b.h, b.secs, b.h.count)
    BY <1>1, TableFacts DEF Cells
  <2> QED
    BY <1>1, <2>1 DEF Tabled, ToSet
<1>3. DecodeOk(b.man) /\ ValidateAgainst(b.man, b.secs) /\ List(b.man.names)
  BY <1>1, ManifestFacts
<1>4. PICK i \in DOMAIN b.secs : r = b.secs[i]
  BY <1>1 DEF ToSet
<1>5. r.name \in Nat /\ r.name < Len(b.man.names)
  BY <1>2, <1>3, <1>4 DEF RecordOk, ValidateAgainst
<1>6. r.name + 1 \in DOMAIN b.man.names
  <2>1. Len(b.man.names) \in Nat /\ DOMAIN b.man.names = 1 .. Len(b.man.names)
    BY <1>3, ListMembers
  <2> QED
    BY <1>5, <2>1
<1>7. ASSUME "EXTERNAL" \in r.flags
      PROVE  /\ r.name \in DOMAIN b.man.external
             /\ b.man.external[r.name].size = r.lenPlain
             /\ b.man.external[r.name].mirrors # {}
  <2>1. PICK out : out = {k \in DOMAIN b.secs : "EXTERNAL" \in b.secs[k].flags}
    OBVIOUS
  <2>2. i \in out
    BY <1>4, <1>7, <2>1
  <2>3. DOMAIN b.man.external = {b.secs[k].name : k \in out}
        /\ \A k \in out : b.man.external[b.secs[k].name].size = b.secs[k].lenPlain
    BY <1>3, <2>1 DEF ValidateAgainst
  <2>4. r.name \in DOMAIN b.man.external /\ b.man.external[r.name].size = r.lenPlain
    BY <1>4, <2>2, <2>3
  <2> QED
    BY <1>3, <2>4 DEF DecodeOk, ExternalOk
<1> QED
  BY <1>1, <1>2, <1>5, <1>6, <1>7

\* Two listed artifacts are two sections, with two names and two paths.
LEMMA ListedOnce ==
    ASSUME NEW f, Cells(f), Parse(f).ok, NEW r \in ToSet(Parse(f).value.secs),
           NEW x \in ToSet(Parse(f).value.secs), r # x
    PROVE  LET a == Listing(Parse(f).value, r)
               c == Listing(Parse(f).value, x)
           IN a.name # c.name /\ a.path \cap c.path = {}
<1>1. PICK b : b = Parse(f).value
  OBVIOUS
<1>2. r.name # x.name
  BY OneRecordPerName
<1>3. NoRepeat(b.man.names) /\ NoRepeat(b.man.paths)
  BY <1>1, ManifestFacts DEF DecodeOk
<1>4. /\ r.name \in Nat /\ x.name \in Nat
      /\ r.name + 1 \in DOMAIN b.man.names /\ x.name + 1 \in DOMAIN b.man.names
  BY <1>1, RecordFacts
<1>5. r.name + 1 # x.name + 1
  BY <1>2, <1>4
<1>6. b.man.names[r.name + 1] # b.man.names[x.name + 1]
  BY <1>3, <1>4, <1>5 DEF NoRepeat
<1>7. Listing(b, r).path \cap Listing(b, x).path = {}
  BY <1>2, <1>3 DEF Listing, NoRepeat
<1> QED
  BY <1>1, <1>6, <1>7 DEF Listing

\* What is served is listed for serving, and takes no key.
LEMMA ServedFacts ==
    ASSUME NEW f, NEW b, NEW r, Serve(f, b, r).ok
    PROVE  /\ Owned(b, r) /\ r.kind \in KnownKinds /\ "PLAYER_VISIBLE" \in r.flags
           /\ "SEALED" \notin r.flags /\ "EXTERNAL" \notin r.flags
           /\ Serve(f, b, r) = VerifiedBytes(f, r)
<1>1. /\ "PLAYER_VISIBLE" \in r.flags /\ r.flags \cap {"SEALED", "EXTERNAL"} = {}
      /\ Serve(f, b, r) = SectionBytes(f, b, r)
  BY DEF Serve, Failed
<1>2. Owned(b, r) /\ r.kind \in KnownKinds /\ SectionBytes(f, b, r) = VerifiedBytes(f, r)
  BY <1>1 DEF SectionBytes, Failed
<1> QED
  BY <1>1, <1>2

\* What is served of a listed section passes its own listing.
LEMMA ServedIsAccepted ==
    ASSUME NEW f, Cells(f), Parse(f).ok, NEW r \in ToSet(Parse(f).value.secs),
           Serve(f, Parse(f).value, r).ok
    PROVE  Accepts(Listing(Parse(f).value, r), Serve(f, Parse(f).value, r).value)
<1>1. Serve(f, Parse(f).value, r) = VerifiedBytes(f, r) /\ VerifiedBytes(f, r).ok
  BY ServedFacts
<1>2. Len(VerifiedBytes(f, r).value) = r.lenPlain /\ Hash(VerifiedBytes(f, r).value) = r.root
  BY <1>1, PlainLength, ReadList
<1> QED
  BY <1>1, <1>2 DEF Accepts, Listing

\* In a file that stands as it was written, what is listed and in the file is served
\* unless it is encrypted or beyond the caps.
LEMMA WrittenIsServed ==
    ASSUME NEW order, OrderOk(order), CanLay(order), NEW g, LaidAs(order, g),
           Cells(g), Parse(g).ok, NEW i \in Listable(Parse(g).value), NEW r,
           r = Parse(g).value.secs[i], "EXTERNAL" \notin r.flags
    PROVE  Serve(g, Parse(g).value, r).ok <=>
              /\ r.enc = "none"
              /\ r.comp = "zstd" => WithinCaps(r.lenPlain, r.lenStored)
<1>1. PICK b : b = Parse(g).value
  OBVIOUS
<1>2. /\ r \in ToSet(b.secs) /\ Owned(b, r) /\ r.kind \in KnownKinds
      /\ "PLAYER_VISIBLE" \in r.flags /\ "SEALED" \notin r.flags
  BY <1>1 DEF Listable, ToSet, Owned
<1>3. Serve(g, b, r) = VerifiedBytes(g, r)
  BY <1>2 DEF Serve, SectionBytes
<1>4. PICK s \in ToSet(order.specs) : Describes(order, s, r) /\ PayloadAt(order, s, r.offset, g)
  BY <1>1, <1>2, WrittenRecords
<1>5. ASSUME r.enc = "none", r.comp = "zstd" => WithinCaps(r.lenPlain, r.lenStored)
      PROVE  VerifiedBytes(g, r).ok
  <2>1. VerifiedBytes(g, r) = Ok(PlainOf(order, s))
    BY <1>1, <1>2, <1>4, <1>5, WrittenIsRead
  <2> QED
    BY <2>1 DEF Ok
<1>6. ASSUME VerifiedBytes(g, r).ok
      PROVE  r.enc = "none" /\ (r.comp = "zstd" => WithinCaps(r.lenPlain, r.lenStored))
  <2>1. PICK stored : stored = Slice(g, r.offset, StoredEnd(r))
    OBVIOUS
  <2>2. ReadPlain(g, r).ok
    BY <1>6 DEF VerifiedBytes, AndThen, Failed
  <2>3. /\ r.enc = "none"
        /\ ReadPlain(g, r) = IF r.comp = "zstd" THEN Decompress(stored, r.lenPlain) ELSE Ok(stored)
    BY <2>1, <2>2 DEF ReadPlain, Failed
  <2>4. Len(stored) = r.lenStored
    BY <1>1, <1>2, <2>1, StoredCut
  <2>5. r.comp = "zstd" => WithinCaps(r.lenPlain, Len(stored))
    BY <2>2, <2>3 DEF Decompress, Failed
  <2> QED
    BY <2>3, <2>4, <2>5
<1> QED
  BY <1>1, <1>3, <1>5, <1>6

\* A section that is in the file is not marked external.
LEMMA WrittenInside ==
    ASSUME NEW order, NEW g, Cells(g), Parse(g).ok, NEW r \in ToSet(Parse(g).value.secs), NEW s,
           PayloadAt(order, s, r.offset, g), s.from # "external"
    PROVE  "EXTERNAL" \notin r.flags
<1>1. RecordOk(r)
  BY RecordFacts
<1>2. ASSUME "EXTERNAL" \in r.flags
      PROVE  FALSE
  <2>1. r.offset = 0
    BY <1>1, <1>2 DEF RecordOk, PlaceOk
  <2>2. r.offset >= 1
    BY DEF PayloadAt, HoldsAt
  <2> QED
    BY <2>1, <2>2
<1> QED
  BY <1>2

(***************************************************************************)
(* What was sealed, opened under its key                                   *)
(***************************************************************************)
\* One part of the plaintext for each chunk, of the length its place gives.
PartsOf(plain, cs, parts, n) ==
    /\ n \in Nat /\ parts = [i \in 1 .. n |-> parts[i]]
    /\ \A i \in 1 .. n : List(parts[i]) /\ Len(parts[i]) = ChunkLen(Len(plain), i - 1, cs)
    /\ FlattenSeq(parts) = plain

LEMMA SlicesAreParts ==
    ASSUME NEW plain, List(plain), NEW cs \in Nat, cs # 0
    PROVE  PartsOf(plain, cs, Slices(plain, cs), ChunkCount(Len(plain), cs))
<1>1. PICK lp, n : lp = Len(plain) /\ n = ChunkCount(Len(plain), cs)
  OBVIOUS
<1>2. lp \in Nat /\ n \in Nat
  BY <1>1, ListMembers, CountIsNat
<1>3. PICK parts : parts = Slices(plain, cs)
  OBVIOUS
<1>4. parts = [i \in 1 .. n |-> Chunk(plain, i - 1, cs)]
  BY <1>1, <1>3 DEF Slices
<1>5. ASSUME NEW i \in 1 .. n
      PROVE  List(parts[i]) /\ Len(parts[i]) = ChunkLen(lp, i - 1, cs)
  <2>1. PICK part, k : part = Chunk(plain, i - 1, cs) /\ k = i - 1
    OBVIOUS
  <2>2. k \in 0 .. ChunkCount(Len(plain), cs) - 1 /\ k \in Int
    BY <1>1, <1>2, <2>1
  <2>3. ChunkIs(plain, k, cs, part) /\ k * cs \in Nat
    BY <2>1, <2>2, ChunkFacts
  <2>4. (k + 1) * cs = k * cs + 1 * cs
    BY <2>2, FactorsOut
  <2>5. PICK m : m = k * cs
    OBVIOUS
  <2>6. (k + 1) * cs = m + cs /\ m \in Nat
    BY <2>3, <2>4, <2>5
  <2>7. List(part) /\ Len(part) = IF cs < lp - m THEN cs ELSE lp - m
    BY <1>1, <2>3, <2>5 DEF ChunkIs
  <2>8. ChunkLen(lp, k, cs) = IF m + cs <= lp THEN cs ELSE lp - m
    BY <2>5, <2>6 DEF ChunkLen
  <2>9. Len(part) = ChunkLen(lp, k, cs)
    BY <1>2, <2>6, <2>7, <2>8
  <2> QED
    BY <1>4, <2>1, <2>7, <2>9
<1>6. FlattenSeq(parts) = plain
  BY <1>3, SlicesJoin
<1>7. parts = [i \in 1 .. n |-> parts[i]]
  BY <1>4
<1> QED
  BY <1>1, <1>2, <1>3, <1>5, <1>6, <1>7 DEF PartsOf

\* One part alone.
LEMMA FlattenOne ==
    ASSUME NEW plain, List(plain)
    PROVE  FlattenSeq(<<plain>>) = plain
<1> DEFINE C == ToSet(plain)
<1>1. PICK parts : parts = <<plain>>
  OBVIOUS
<1>2. plain \in Seq(C)
  BY DEF List
<1> HIDE DEF C
<1>3. parts \in Seq(Seq(C)) /\ Len(parts) = 1 /\ parts[1] = plain
  BY <1>1, <1>2
<1> DEFINE sum == [i \in 0 .. 1 |-> IF i = 0 THEN <<>> ELSE plain]
<1>4. sum[0] = <<>> /\ sum[1] = plain /\ <<>> \in Seq(C) /\ <<>> \o plain = plain
  BY <1>2
<1> HIDE DEF sum
<1>5. ASSUME NEW i \in 1 .. Len(parts)
      PROVE  sum[i - 1] \in Seq(C) /\ sum[i] = sum[i - 1] \o parts[i]
  <2>1. i = 1 /\ i - 1 = 0
    BY <1>3
  <2> QED
    BY <1>3, <1>4, <2>1
<1>6. FlattenSeq(parts) = sum[Len(parts)]
  BY <1>3, <1>4, <1>5, FlattenIs
<1> QED
  BY <1>1, <1>3, <1>4, <1>6

LEMMA EmptyPart ==
    ASSUME NEW cs \in Nat, cs # 0
    PROVE  PartsOf(<<>>, cs, <<<<>>>>, 1)
<1>1. List(<<>>)
  BY DEF List, ToSet
<1>2. FlattenSeq(<<<<>>>>) = <<>>
  BY <1>1, FlattenOne
<1>3. ChunkLen(0, 0, cs) = 0
  BY DEF ChunkLen
<1>4. PICK parts : parts = <<<<>>>>
  OBVIOUS
<1>5. parts = [i \in 1 .. 1 |-> parts[i]] /\ parts[1] = <<>>
  BY <1>4
<1>6. ASSUME NEW i \in 1 .. 1
      PROVE  List(parts[i]) /\ Len(parts[i]) = ChunkLen(Len(<<>>), i - 1, cs)
  <2>1. i = 1 /\ i - 1 = 0
    OBVIOUS
  <2> QED
    BY <1>1, <1>3, <1>5, <2>1
<1> QED
  BY <1>2, <1>4, <1>5, <1>6 DEF PartsOf

\* The frames of the parts, compressed if the section is.
Framed(parts, n, comp) ==
    [i \in 1 .. n |-> IF comp = "zstd" THEN <<<<"zstd", parts[i]>>>> ELSE parts[i]]

LEMMA OneFrameUndone ==
    ASSUME NEW part, List(part)
    PROVE  DecompressExact(<<<<"zstd", part>>>>, Len(part)) = Ok(part)
<1>1. Compress(part, 0) = <<<<"zstd", part>>>>
  <2> DEFINE cells == <<<<"zstd", part>>>>
             frames == CompressFrames(part, 0)
  <2>1. cells = [i \in 1 .. 1 |-> cells[i]]
    OBVIOUS
  <2>2. frames = [i \in 1 .. 1 |-> <<cells[i]>>]
    <3>1. frames = [i \in DOMAIN <<part>> |-> <<<<"zstd", <<part>>[i]>>>>]
      BY DEF CompressFrames
    <3>2. DOMAIN <<part>> = 1 .. 1 /\ \A i \in 1 .. 1 : <<part>>[i] = part /\ cells[i] = <<"zstd", part>>
      OBVIOUS
    <3> QED
      BY <3>1, <3>2
  <2> HIDE DEF frames, cells
  <2>3. FlattenSeq(frames) = cells
    BY <2>1, <2>2, FlattenCells
  <2> QED
    BY <2>3 DEF Compress, frames, cells
<1>2. DecompressExact(Compress(part, 0), Len(part)) =
         IF Len(part) = Len(part) THEN Ok(part) ELSE Failed
  BY CompressionUndone
<1> QED
  BY <1>1, <1>2

LEMMA JoinedParts ==
    ASSUME NEW plain, NEW cs, NEW parts, NEW n, PartsOf(plain, cs, parts, n),
           NEW r, r.lenPlain = Len(plain), r.chunkSize = cs, r.root = Hash(plain),
           ChunksExpected(r, n)
    PROVE  Joined(r, Framed(parts, n, r.comp)) = Ok(plain)
<1>1. PICK frames : frames = Framed(parts, n, r.comp)
  OBVIOUS
<1>2. n \in Nat /\ DOMAIN frames = 1 .. n /\ frames = [i \in 1 .. n |-> frames[i]]
  BY <1>1 DEF Framed, PartsOf
<1>3. Len(frames) = n
  BY <1>2, MadeList
<1>4. ASSUME NEW i \in 1 .. n
      PROVE  PartOf(frames[i], r, i) = Ok(parts[i])
  <2>1. List(parts[i]) /\ Len(parts[i]) = ChunkLen(r.lenPlain, i - 1, r.chunkSize)
    BY DEF PartsOf
  <2>2. frames[i] = IF r.comp = "zstd" THEN <<<<"zstd", parts[i]>>>> ELSE parts[i]
    BY <1>1 DEF Framed
  <2>3. PICK part : part = parts[i]
    OBVIOUS
  <2>4. DecompressExact(<<<<"zstd", part>>>>, Len(part)) = Ok(part)
    BY <2>1, <2>3, OneFrameUndone
  <2> QED
    BY <2>1, <2>2, <2>3, <2>4 DEF PartOf
<1> DEFINE results == [i \in DOMAIN frames |-> PartOf(frames[i], r, i)]
<1>5. DOMAIN results = 1 .. n /\ \A i \in 1 .. n : results[i] = Ok(parts[i])
  BY <1>2, <1>4
<1>6. Joined(r, frames) = AndThen(Collect(results), LAMBDA all : LET whole == FlattenSeq(all) IN
                                IF Hash(whole) = r.root THEN Ok(whole) ELSE Failed)
  BY <1>3 DEF Joined
<1> HIDE DEF results
<1>7. Collect(results) = Ok([i \in DOMAIN results |-> results[i].value])
  BY <1>5 DEF Collect, Ok
<1>8. [i \in DOMAIN results |-> results[i].value] = parts
  <2>1. parts = [i \in 1 .. n |-> parts[i]]
    BY DEF PartsOf
  <2>2. \A i \in 1 .. n : results[i].value = parts[i]
    BY <1>5 DEF Ok
  <2> QED
    BY <1>5, <2>1, <2>2
<1>9. Collect(results) = Ok(parts)
  BY <1>7, <1>8
<1>10. FlattenSeq(parts) = plain
  BY DEF PartsOf
<1> QED
  BY <1>1, <1>6, <1>9, <1>10 DEF AndThen, Ok

LEMMA OpenedAsSealed ==
    ASSUME NEW n \in Nat, n <= MaxIndex, NEW frames, frames = [i \in 1 .. n |-> frames[i]],
           NEW key, NEW section, NEW suite, NEW lenPlain
    PROVE  OpenFrames(key, section, suite, lenPlain,
                      SealFrames(key, section, suite, lenPlain, frames).value) = Ok(frames)
<1>1. Len(frames) = n /\ DOMAIN frames = 1 .. n
  BY MadeList
<1>2. MaxIndex \in Nat
  BY StreamAssumption
<1>3. PICK body : body = SealFrames(key, section, suite, lenPlain, frames).value
  OBVIOUS
<1>4. body = [i \in 1 .. n |->
               <<"aead", [key |-> key, frame |-> frames[i],
                          ctx |-> ChunkContext(section, suite, lenPlain, i, n)]>>]
  <2>1. Len(frames) <= MaxIndex + 1
    BY <1>1, <1>2
  <2> QED
    BY <1>1, <1>3, <2>1 DEF SealFrames, Ok
<1>5. DOMAIN body = 1 .. n /\ body = [i \in 1 .. n |-> body[i]]
  BY <1>4
<1>6. Len(body) = n
  BY <1>5, MadeList
<1>7. \A i \in 1 .. n : /\ body[i][1] = "aead" /\ body[i][2].key = key
                        /\ body[i][2].ctx = ChunkContext(section, suite, lenPlain, i, n)
                        /\ body[i][2].frame = frames[i]
  BY <1>4
<1>8. OpenFrames(key, section, suite, lenPlain, body) = Ok([i \in DOMAIN body |-> body[i][2].frame])
  BY <1>5, <1>6, <1>7 DEF OpenFrames
<1>9. [i \in DOMAIN body |-> body[i][2].frame] = frames
  BY <1>5, <1>7
<1> QED
  BY <1>3, <1>8, <1>9

LEMMA ChunksWithinCounter ==
    ASSUME NEW n \in Nat, NEW cs \in Nat, cs # 0, n <= MaxIndex * cs
    PROVE  ChunkCount(n, cs) <= MaxIndex
<1>1. PICK m : m = ChunkCount(n, cs)
  OBVIOUS
<1>2. Covers(n, m, cs)
  BY <1>1, CountCovers
<1>3. MaxIndex \in Nat /\ MaxIndex * cs \in Nat
  BY StreamAssumption, ProductIsNat
<1>4. m \in Nat /\ m * cs < n + cs
  BY <1>2 DEF Covers
<1>5. m * cs \in Nat
  BY <1>4, ProductIsNat
<1>6. m * cs < MaxIndex * cs + cs
  BY <1>3, <1>4, <1>5
<1>7. m <= MaxIndex
  BY <1>3, <1>4, <1>6, SmallerFactor
<1> QED
  BY <1>1, <1>7

\* The frames encrypt_section sealed, and the parts they hold.
LEMMA SealedFrames ==
    ASSUME NEW order, OrderOk(order), NEW s \in ToSet(order.specs), s.encrypt,
           Stored(order, s).ok, s.comp \in {"none", "zstd"},
           Len(PlainOf(order, s)) <= MaxIndex * s.cs
    PROVE  /\ PlainOf(order, s) = s.plain /\ s.cs # 0
           /\ \E parts, n :
                 /\ PartsOf(s.plain, s.cs, parts, n) /\ n <= MaxIndex
                 /\ IF s.comp = "zstd" /\ Len(s.plain) = 0 THEN n <= 1
                    ELSE n = ChunkCount(Len(s.plain), s.cs)
                 /\ Stored(order, s) = SealFrames(ContentKey(s), s.name, order.suite, Len(s.plain),
                                                  Framed(parts, n, s.comp))
<1>1. /\ List(s.plain) /\ s.cs \in Nat /\ Len(s.plain) \in Nat
  BY PlainCells
<1>2. s.from = "inline" /\ s.cs # 0
  BY DEF Stored, SealedBody, Failed
<1>3. PlainOf(order, s) = s.plain
  BY <1>2 DEF PlainOf
<1>4. PICK n : n = ChunkCount(Len(s.plain), s.cs)
  OBVIOUS
<1>5. PartsOf(s.plain, s.cs, Slices(s.plain, s.cs), n)
  BY <1>1, <1>2, <1>4, SlicesAreParts
<1>6. n <= MaxIndex
  BY <1>1, <1>2, <1>3, <1>4, ChunksWithinCounter
<1>7. CASE s.comp = "none"
  <2>1. Stored(order, s) = SealFrames(ContentKey(s), s.name, order.suite, Len(s.plain),
                                      Slices(s.plain, s.cs))
    BY <1>2, <1>7 DEF Stored, SealedBody, SealChunked, Failed
  <2>2. Framed(Slices(s.plain, s.cs), n, s.comp) = Slices(s.plain, s.cs)
    BY <1>5, <1>7 DEF Framed, PartsOf
  <2>3. Stored(order, s) = SealFrames(ContentKey(s), s.name, order.suite, Len(s.plain),
                                      Framed(Slices(s.plain, s.cs), n, s.comp))
    BY <2>1, <2>2
  <2> QED
    BY <1>2, <1>3, <1>4, <1>5, <1>6, <1>7, <2>3
<1>8. CASE s.comp = "zstd"
  <2>1. Stored(order, s) = SealFrames(ContentKey(s), s.name, order.suite, Len(s.plain),
                                      CompressFrames(s.plain, s.cs))
    BY <1>2, <1>8 DEF Stored, SealedBody
  <2>2. CASE s.plain # <<>>
    <3>1. DOMAIN Slices(s.plain, s.cs) = 1 .. n
      BY <1>5 DEF PartsOf
    <3>2. CompressFrames(s.plain, s.cs) = Framed(Slices(s.plain, s.cs), n, s.comp)
      BY <1>2, <1>8, <2>2, <3>1 DEF Framed, CompressFrames
    <3>3. Stored(order, s) = SealFrames(ContentKey(s), s.name, order.suite, Len(s.plain),
                                        Framed(Slices(s.plain, s.cs), n, s.comp))
      BY <2>1, <3>2
    <3>4. Len(s.plain) # 0
      BY <1>1, <2>2, ListMembers
    <3> QED
      BY <1>2, <1>3, <1>4, <1>5, <1>6, <3>3, <3>4
  <2>3. CASE s.plain = <<>>
    <3>1. PartsOf(s.plain, s.cs, <<<<>>>>, 1)
      BY <1>1, <1>2, <2>3, EmptyPart
    <3>2. CompressFrames(s.plain, s.cs) = Framed(<<<<>>>>, 1, s.comp)
      <4>1. CompressFrames(s.plain, s.cs) = [i \in DOMAIN <<s.plain>> |-> <<<<"zstd", <<s.plain>>[i]>>>>]
        BY <2>3 DEF CompressFrames
      <4>2. DOMAIN <<s.plain>> = 1 .. 1
        OBVIOUS
      <4> QED
        BY <1>8, <2>3, <4>1, <4>2 DEF Framed
    <3>3. Stored(order, s) = SealFrames(ContentKey(s), s.name, order.suite, Len(s.plain),
                                        Framed(<<<<>>>>, 1, s.comp))
      BY <2>1, <3>2
    <3>4. Len(s.plain) = 0 /\ 1 <= MaxIndex
      BY <2>3, StreamAssumption
    <3> QED
      BY <1>2, <1>3, <1>8, <3>1, <3>3, <3>4
  <2> QED
    BY <2>2, <2>3
<1> QED
  BY <1>7, <1>8

LEMMA SealedIsOpened ==
    ASSUME NEW order, OrderOk(order), CanLay(order), NEW g, LaidAs(order, g), Cells(g), Parse(g).ok,
           NEW r \in ToSet(Parse(g).value.secs), NEW s \in ToSet(order.specs),
           Describes(order, s, r), PayloadAt(order, s, r.offset, g),
           s.encrypt, s.kind \in KnownKinds,
           r.comp = "zstd" => WithinCaps(r.lenPlain, r.lenStored),
           Len(PlainOf(order, s)) <= MaxIndex * s.cs
    PROVE  DecryptSection(g, Parse(g).value, r, ContentKey(s)) = Ok(PlainOf(order, s))
<1> DEFINE b == Parse(g).value
<1>1. RecordOk(r) /\ r.enc = "aead" /\ r.comp = s.comp
  BY RecordFacts DEF Describes
<1>2. "EXTERNAL" \notin r.flags /\ s.comp \in {"none", "zstd"}
  BY <1>1 DEF RecordOk, PlaceOk
<1>3. Slice(g, r.offset, StoredEnd(r)) = Stored(order, s).value
  BY <1>2, StandsAsWritten
<1>4. Stored(order, s).ok
  <2>1. PICK i \in DOMAIN order.specs : s = order.specs[i]
    BY DEF ToSet
  <2> QED
    BY <2>1 DEF CanLay
<1>5. PlainOf(order, s) = s.plain /\ s.cs # 0
  BY <1>2, <1>4, SealedFrames
<1>6. PICK parts, n :
         /\ PartsOf(s.plain, s.cs, parts, n) /\ n <= MaxIndex
         /\ IF s.comp = "zstd" /\ Len(s.plain) = 0 THEN n <= 1
            ELSE n = ChunkCount(Len(s.plain), s.cs)
         /\ Stored(order, s) = SealFrames(ContentKey(s), s.name, order.suite, Len(s.plain),
                                          Framed(parts, n, s.comp))
  BY <1>2, <1>4, SealedFrames
<1>7. /\ r.lenPlain = Len(s.plain) /\ r.chunkSize = s.cs /\ r.root = Hash(s.plain)
      /\ r.name = s.name /\ r.kind = s.kind
  BY <1>5 DEF Describes
<1>8. b.h.suite = order.suite
  BY ParseFacts DEF LaidAs
<1>9. PICK frames : frames = Framed(parts, n, s.comp)
  OBVIOUS
<1>10. n \in Nat /\ frames = [i \in 1 .. n |-> frames[i]]
  BY <1>6, <1>9 DEF PartsOf, Framed
<1>11. OpenFrames(ContentKey(s), r.name, b.h.suite, r.lenPlain, Slice(g, r.offset, StoredEnd(r)))
          = Ok(frames)
  <2> HIDE DEF b
  <2> QED
    BY <1>3, <1>6, <1>7, <1>8, <1>9, <1>10, OpenedAsSealed
<1>12. ChunksExpected(r, n)
  BY <1>1, <1>6, <1>7 DEF ChunksExpected
<1>13. Joined(r, frames) = Ok(s.plain)
  BY <1>1, <1>6, <1>7, <1>9, <1>12, JoinedParts
<1>14. Owned(b, r)
  BY DEF Owned, ToSet
<1>15. DecryptSection(g, b, r, ContentKey(s)) =
         AndThen(OpenFrames(ContentKey(s), r.name, b.h.suite, r.lenPlain,
                            Slice(g, r.offset, StoredEnd(r))),
                 LAMBDA fs : Joined(r, fs))
  <2> HIDE DEF b
  <2> QED
    BY <1>1, <1>2, <1>7, <1>14 DEF DecryptSection
<1> HIDE DEF b
<1> QED
  BY <1>5, <1>11, <1>13, <1>15 DEF AndThen, Ok, b

\* Concatenation leaves nothing out.
LEMMA JoinedHolds ==
    ASSUME NEW C, NEW a \in Seq(C), NEW b \in Seq(C)
    PROVE  ToSet(a) \subseteq ToSet(a \o b) /\ ToSet(b) \subseteq ToSet(a \o b)
<1>1. PICK c : c = a \o b
  OBVIOUS
<1>2. /\ Len(a) \in Nat /\ DOMAIN a = 1 .. Len(a) /\ Len(b) \in Nat /\ DOMAIN b = 1 .. Len(b)
  OBVIOUS
<1>3. /\ DOMAIN c = 1 .. Len(a) + Len(b) /\ Begins(c, a)
      /\ \A j \in 1 .. Len(b) : c[Len(a) + j] = b[j]
  <2>1. c \in Seq(C) /\ Len(c) = Len(a) + Len(b)
    BY <1>1, JoinedBegins
  <2> QED
    BY <1>1, <2>1, JoinedBegins
<1>4. \A j \in 1 .. Len(a) : j \in DOMAIN c /\ c[j] = a[j]
  BY <1>2, <1>3 DEF Begins
<1>5. \A j \in 1 .. Len(b) : Len(a) + j \in DOMAIN c /\ c[Len(a) + j] = b[j]
  BY <1>2, <1>3
<1>6. ToSet(a) \subseteq ToSet(c)
  BY <1>2, <1>4 DEF ToSet
<1>7. ToSet(b) \subseteq ToSet(c)
  <2>1. \A x \in ToSet(b) : \E j \in 1 .. Len(b) : x = b[j]
    BY <1>2 DEF ToSet
  <2>2. \A k \in DOMAIN c : c[k] \in ToSet(c)
    BY DEF ToSet
  <2> QED
    BY <1>5, <2>1, <2>2
<1> QED
  BY <1>1, <1>6, <1>7

LEMMA FlattenHolds ==
    ASSUME NEW n \in Nat, NEW seqs, seqs = [i \in 1 .. n |-> seqs[i]],
           \A i \in 1 .. n : List(seqs[i]), NEW i \in 1 .. n
    PROVE  ToSet(seqs[i]) \subseteq ToSet(FlattenSeq(seqs))
<1> DEFINE C == UNION {ToSet(seqs[k]) : k \in 1 .. n}
<1>1. \A k \in 1 .. n : ToSet(seqs[k]) \subseteq C
  OBVIOUS
<1> HIDE DEF C
<1>2. ASSUME NEW k \in 1 .. n
      PROVE  seqs[k] \in Seq(C)
  <2>1. seqs[k] \in Seq(ToSet(seqs[k])) /\ ToSet(seqs[k]) \subseteq C
    BY <1>1 DEF List
  <2> QED
    BY <2>1
<1>3. seqs \in [1 .. n -> Seq(C)]
  BY <1>2
<1>4. seqs \in Seq(Seq(C)) /\ Len(seqs) = n /\ n # 0
  BY <1>3
<1>5. PICK flat : FlattenSeq(seqs) = flat[Len(seqs)] /\ Flattens(flat, seqs, Len(seqs))
  BY <1>4, FlattenSteps
<1>6. \A k \in 1 .. n : flat[k] = IF k = 1 THEN seqs[k] ELSE flat[k - 1] \o seqs[k]
  BY <1>4, <1>5 DEF Flattens
<1> DEFINE S == {k \in Nat : k \in 1 .. n =>
                    /\ flat[k] \in Seq(C)
                    /\ k >= i => ToSet(seqs[i]) \subseteq ToSet(flat[k])}
<1>7. 0 \in S
  OBVIOUS
<1>8. ASSUME NEW k \in Nat, k \in S
      PROVE  k + 1 \in S
  <2> SUFFICES ASSUME k + 1 \in 1 .. n
               PROVE  /\ flat[k + 1] \in Seq(C)
                      /\ k + 1 >= i => ToSet(seqs[i]) \subseteq ToSet(flat[k + 1])
    OBVIOUS
  <2>1. CASE k = 0
    <3>1. flat[k + 1] = seqs[1] /\ k + 1 = 1
      BY <1>6, <2>1
    <3>2. k + 1 >= i => i = 1
      BY <2>1
    <3>3. seqs[1] \in Seq(C)
      BY <1>2, <2>1
    <3> QED
      BY <3>1, <3>2, <3>3
  <2>2. CASE k # 0
    <3>1. PICK a, b : a = flat[k] /\ b = seqs[k + 1]
      OBVIOUS
    <3>2. k \in 1 .. n /\ k + 1 # 1 /\ (k + 1) - 1 = k
      BY <2>2
    <3>3. flat[k + 1] = a \o b
      BY <1>6, <3>1, <3>2
    <3>4. a \in Seq(C) /\ b \in Seq(C) /\ (k >= i => ToSet(seqs[i]) \subseteq ToSet(a))
      BY <1>2, <1>8, <3>1, <3>2
    <3>5. /\ a \o b \in Seq(C)
          /\ ToSet(a) \subseteq ToSet(a \o b) /\ ToSet(b) \subseteq ToSet(a \o b)
      BY <3>4, JoinedHolds, JoinedBegins
    <3>6. k + 1 >= i => k >= i \/ i = k + 1
      OBVIOUS
    <3> QED
      BY <3>1, <3>3, <3>4, <3>5, <3>6
  <2> QED
    BY <2>1, <2>2
<1> HIDE DEF S
<1>9. n \in S
  BY <1>7, <1>8, SetInduction
<1>10. ToSet(seqs[i]) \subseteq ToSet(flat[n])
  <2>1. n \in 1 .. n /\ n >= i
    BY <1>4
  <2> QED
    BY <1>9, <2>1 DEF S
<1> QED
  BY <1>4, <1>5, <1>10

(***************************************************************************)
(* Envelopes as they were written                                          *)
(***************************************************************************)
EnvelopeCell(suite, s, t) ==
    <<"env", [name |-> s.name, ctx |-> t.ctx, to |-> t.holder, suite |-> suite, key |-> ContentKey(s)]>>

LEMMA EnvelopeFacts ==
    ASSUME NEW order, OrderOk(order)
    PROVE  /\ List(AllEnvelopes(order))
           /\ \A c \in ToSet(AllEnvelopes(order)) :
                 \E s \in ToSet(order.specs) : \E t \in ToSet(s.to) : c = EnvelopeCell(order.suite, s, t)
           /\ \A s \in ToSet(order.specs) : \A t \in ToSet(s.to) :
                 EnvelopeCell(order.suite, s, t) \in ToSet(AllEnvelopes(order))
<1>1. PICK n, specs : n = Len(order.specs) /\ specs = order.specs
  OBVIOUS
<1>2. /\ DOMAIN specs = 1 .. n /\ n \in Nat
      /\ \A i \in 1 .. n : specs[i] \in ToSet(order.specs)
      /\ \A s \in ToSet(order.specs) : \E i \in 1 .. n : s = specs[i]
  BY <1>1 DEF OrderOk, ToSet
<1>3. PICK lists : lists = [i \in 1 .. n |-> EnvelopesOf(order.suite, specs[i])]
  OBVIOUS
<1>4. AllEnvelopes(order) = FlattenSeq(lists) /\ lists = [i \in 1 .. n |-> lists[i]]
  BY <1>1, <1>2, <1>3 DEF AllEnvelopes
<1>5. ASSUME NEW s \in ToSet(order.specs)
      PROVE  /\ List(EnvelopesOf(order.suite, s))
             /\ \A c \in ToSet(EnvelopesOf(order.suite, s)) :
                   \E t \in ToSet(s.to) : c = EnvelopeCell(order.suite, s, t)
             /\ \A t \in ToSet(s.to) :
                   EnvelopeCell(order.suite, s, t) \in ToSet(EnvelopesOf(order.suite, s))
  <2>1. DOMAIN s.to = 1 .. Len(s.to) /\ Len(s.to) \in Nat
    BY DEF OrderOk
  <2>2. PICK envs : envs = EnvelopesOf(order.suite, s)
    OBVIOUS
  <2>3. /\ DOMAIN envs = 1 .. Len(s.to) /\ envs = [i \in 1 .. Len(s.to) |-> envs[i]]
        /\ \A i \in 1 .. Len(s.to) : envs[i] = EnvelopeCell(order.suite, s, s.to[i])
    BY <2>1, <2>2 DEF EnvelopesOf, EnvelopeCell
  <2>4. List(envs)
    BY <2>1, <2>3, MadeList
  <2>5. \A c \in ToSet(envs) : \E t \in ToSet(s.to) : c = EnvelopeCell(order.suite, s, t)
    BY <2>1, <2>3 DEF ToSet
  <2>6. ASSUME NEW t \in ToSet(s.to)
        PROVE  EnvelopeCell(order.suite, s, t) \in ToSet(envs)
    <3>1. PICK i \in 1 .. Len(s.to) : t = s.to[i]
      BY <2>1 DEF ToSet
    <3>2. envs[i] = EnvelopeCell(order.suite, s, t) /\ i \in DOMAIN envs
      BY <2>3, <3>1
    <3> QED
      BY <3>2 DEF ToSet
  <2> QED
    BY <2>2, <2>4, <2>5, <2>6
<1>6. \A i \in 1 .. n : List(lists[i]) /\ lists[i] = EnvelopesOf(order.suite, specs[i])
  BY <1>2, <1>3, <1>5
<1>7. /\ List(FlattenSeq(lists))
      /\ ToSet(FlattenSeq(lists)) \subseteq UNION {ToSet(lists[i]) : i \in 1 .. n}
      /\ \A i \in 1 .. n : ToSet(lists[i]) \subseteq ToSet(FlattenSeq(lists))
  <2>1. \A i \in 1 .. n : List(lists[i])
    BY <1>6
  <2>2. lists = [i \in 1 .. n |-> lists[i]] /\ n \in Nat
    BY <1>2, <1>4
  <2>3. /\ List(FlattenSeq(lists))
        /\ ToSet(FlattenSeq(lists)) \subseteq UNION {ToSet(lists[i]) : i \in 1 .. n}
    BY <2>1, <2>2, FlattenLists
  <2>4. \A i \in 1 .. n : ToSet(lists[i]) \subseteq ToSet(FlattenSeq(lists))
    BY <2>1, <2>2, FlattenHolds
  <2> QED
    BY <2>3, <2>4
<1>8. ASSUME NEW c \in ToSet(AllEnvelopes(order))
      PROVE  \E s \in ToSet(order.specs) : \E t \in ToSet(s.to) : c = EnvelopeCell(order.suite, s, t)
  <2>1. PICK i \in 1 .. n : c \in ToSet(lists[i])
    BY <1>4, <1>7
  <2>2. PICK s \in ToSet(order.specs) : s = specs[i]
    BY <1>2
  <2>3. c \in ToSet(EnvelopesOf(order.suite, s))
    BY <1>6, <2>1, <2>2
  <2> QED
    BY <1>5, <2>3
<1>9. ASSUME NEW s \in ToSet(order.specs), NEW t \in ToSet(s.to)
      PROVE  EnvelopeCell(order.suite, s, t) \in ToSet(AllEnvelopes(order))
  <2>1. PICK i \in 1 .. n : s = specs[i]
    BY <1>2
  <2>2. EnvelopeCell(order.suite, s, t) \in ToSet(EnvelopesOf(order.suite, s))
    BY <1>5
  <2>3. EnvelopesOf(order.suite, s) = lists[i]
    BY <1>6, <2>1
  <2> QED
    BY <1>4, <1>7, <2>2, <2>3
<1>10. List(AllEnvelopes(order))
  BY <1>4, <1>7
<1> QED
  BY <1>8, <1>9, <1>10

\* Every keys section holds the envelopes, and a reader can read it.
KeysReadable(order, f) ==
    /\ \A s \in ToSet(order.specs) : s.kind = "keys" <=> s.from = "envelopes"
    /\ \A r \in ToSet(Parse(f).value.secs) :
          r.kind = "keys" /\ r.comp = "zstd" => WithinCaps(r.lenPlain, r.lenStored)

LEMMA KeysSectionIsRead ==
    ASSUME NEW order, OrderOk(order), CanLay(order), NEW g, LaidAs(order, g), Cells(g), Parse(g).ok,
           KeysReadable(order, g), NEW r \in ToSet(Parse(g).value.secs), r.kind = "keys"
    PROVE  SectionBytes(g, Parse(g).value, r) = Ok(AllEnvelopes(order))
<1>1. PICK s \in ToSet(order.specs) : Describes(order, s, r) /\ PayloadAt(order, s, r.offset, g)
  BY WrittenRecords
<1>2. s.from = "envelopes"
  BY <1>1 DEF Describes, KeysReadable
<1>3. ~s.encrypt
  <2>1. PICK i \in DOMAIN order.specs : s = order.specs[i]
    BY DEF ToSet
  <2>2. Stored(order, s).ok
    BY <2>1 DEF CanLay
  <2> QED
    BY <1>2, <2>2 DEF Stored, SealedBody, Failed
<1>4. RecordOk(r) /\ r.enc = "none"
  BY <1>1, <1>3, RecordFacts DEF Describes
<1>5. "SEALED" \notin r.flags
  BY <1>4 DEF RecordOk, SealedOk
<1>6. "EXTERNAL" \notin r.flags
  <2>1. s.from # "external"
    BY <1>2
  <2> QED
    BY <1>1, <2>1, WrittenInside
<1>7. r.kind \in KnownKinds
  BY DEF KnownKinds
<1>8. VerifiedBytes(g, r) = Ok(PlainOf(order, s))
  BY <1>1, <1>4, <1>6, <1>7, WrittenIsRead DEF KeysReadable
<1>9. PlainOf(order, s) = AllEnvelopes(order)
  BY <1>2 DEF PlainOf
<1>10. Owned(Parse(g).value, r)
  BY DEF Owned, ToSet
<1> QED
  BY <1>5, <1>7, <1>8, <1>9, <1>10 DEF SectionBytes

LEMMA EnvelopesAsWritten ==
    ASSUME NEW order, OrderOk(order), CanLay(order), NEW g, LaidAs(order, g), Cells(g), Parse(g).ok,
           KeysReadable(order, g), AllEnvelopes(order) # <<>>
    PROVE  \E all : /\ Envelopes(g, Parse(g).value) = Ok(all) /\ List(all)
                    /\ ToSet(all) = ToSet(AllEnvelopes(order))
<1> DEFINE b == Parse(g).value
           K == {i \in DOMAIN b.secs : b.secs[i].kind = "keys"}
           keys == Picked(b.secs, K)
           results == [i \in DOMAIN keys |-> SectionBytes(g, b, keys[i])]
           lists == [i \in DOMAIN results |-> results[i].value]
<1>1. PICK e : e = AllEnvelopes(order)
  OBVIOUS
<1>2. List(e) /\ \A c \in ToSet(e) : c[1] = "env"
  BY <1>1, EnvelopeFacts DEF EnvelopeCell
<1>3. List(b.secs)
  BY SectionsList
<1>4. /\ List(keys) /\ \A k \in 1 .. Len(keys) : \E i \in K : keys[k] = b.secs[i]
      /\ \A i \in K : Len(keys) # 0
  <2>1. K \subseteq DOMAIN b.secs
    OBVIOUS
  <2> HIDE DEF b, K
  <2>2. PICK at \in Seq(K) :
         /\ Len(at) = Cardinality(K)
         /\ \A x \in K : \E k \in 1 .. Len(at) : at[k] = x
         /\ List(keys) /\ Len(keys) = Len(at)
         /\ \A k \in 1 .. Len(at) : keys[k] = b.secs[at[k]]
    BY <1>3, <2>1, PickedFacts
  <2>3. \A k \in 1 .. Len(at) : at[k] \in K
    OBVIOUS
  <2>4. \A i \in K : Len(at) # 0
    BY <2>2
  <2> HIDE DEF keys
  <2> QED
    BY <2>2, <2>3, <2>4
<1>5. PICK n \in Nat : DOMAIN keys = 1 .. n /\ Len(keys) = n
  <2> HIDE DEF keys
  <2> QED
    BY <1>4, ListMembers
<1>6. n # 0
  <2>1. PICK i \in DOMAIN order.specs : order.specs[i].from = "envelopes"
    BY DEF CanLay
  <2>2. i \in 1 .. Len(order.specs)
    BY <2>1 DEF OrderOk
  <2>3. /\ DOMAIN b.secs = 1 .. Len(order.specs)
        /\ order.specs[i] \in ToSet(order.specs)
        /\ Describes(order, order.specs[i], b.secs[i])
    BY <2>2, WrittenTable
  <2>4. b.secs[i].kind = "keys" /\ i \in DOMAIN b.secs
    BY <2>1, <2>2, <2>3 DEF Describes, KeysReadable
  <2>5. i \in K
    BY <2>4
  <2> QED
    BY <1>4, <1>5, <2>5
<1>7. \A k \in 1 .. n : SectionBytes(g, b, keys[k]) = Ok(e)
  <2> SUFFICES ASSUME NEW k \in 1 .. n PROVE SectionBytes(g, b, keys[k]) = Ok(e)
    OBVIOUS
  <2>1. PICK i \in K : keys[k] = b.secs[i]
    BY <1>4, <1>5
  <2>2. PICK r : r = b.secs[i]
    OBVIOUS
  <2>3. r \in ToSet(b.secs) /\ r.kind = "keys"
    BY <2>1, <2>2 DEF ToSet
  <2>4. SectionBytes(g, b, r) = Ok(AllEnvelopes(order))
    BY <2>3, KeysSectionIsRead
  <2> QED
    BY <1>1, <2>1, <2>2, <2>4
<1>8. DOMAIN results = 1 .. n /\ \A i \in 1 .. n : results[i] = Ok(e)
  <2> HIDE DEF keys
  <2> QED
    BY <1>5, <1>7
<1>9. Envelopes(g, b) = AndThen(Collect(results),
            LAMBDA ls : LET all == FlattenSeq(ls) IN
                        IF \A i \in DOMAIN all : all[i][1] = "env" THEN Ok(all) ELSE Failed)
  BY DEF Envelopes
<1> HIDE DEF results
<1>10. Collect(results) = Ok(lists)
  BY <1>8 DEF Collect, Ok
<1>11. /\ lists = [i \in 1 .. n |-> lists[i]] /\ \A i \in 1 .. n : lists[i] = e
  BY <1>8 DEF Ok
<1> HIDE DEF lists, keys
<1>12. PICK flat : flat = FlattenSeq(lists)
  OBVIOUS
<1>13. \A i \in 1 .. n : List(lists[i])
  BY <1>2, <1>11
<1>14. /\ List(flat) /\ ToSet(flat) \subseteq UNION {ToSet(lists[i]) : i \in 1 .. n}
  BY <1>11, <1>12, <1>13, FlattenLists
<1>15. 1 \in 1 .. n
  BY <1>6
<1>16. ToSet(lists[1]) \subseteq ToSet(flat)
  BY <1>11, <1>12, <1>13, <1>15, FlattenHolds
<1>17. ToSet(flat) = ToSet(e)
  BY <1>11, <1>14, <1>15, <1>16
<1>18. \A i \in DOMAIN flat : flat[i][1] = "env"
  <2>1. \A i \in DOMAIN flat : flat[i] \in ToSet(flat)
    BY DEF ToSet
  <2> QED
    BY <1>2, <1>17, <2>1
<1>19. Envelopes(g, b) = IF \A i \in DOMAIN flat : flat[i][1] = "env" THEN Ok(flat) ELSE Failed
  BY <1>9, <1>10, <1>12 DEF AndThen, Ok
<1>20. Envelopes(g, b) = Ok(flat)
  BY <1>18, <1>19
<1> QED
  BY <1>1, <1>14, <1>17, <1>20

\* No two sections of a written file were asked for under one name.
LEMMA OneSpecPerName ==
    ASSUME NEW order, OrderOk(order), CanLay(order), NEW g, LaidAs(order, g), Cells(g), Parse(g).ok,
           NEW s \in ToSet(order.specs), NEW t \in ToSet(order.specs), s.name = t.name
    PROVE  s = t
<1>1. DOMAIN order.specs = 1 .. Len(order.specs)
  BY DEF OrderOk
<1>2. PICK i \in 1 .. Len(order.specs) : s = order.specs[i]
  BY <1>1 DEF ToSet
<1>3. PICK j \in 1 .. Len(order.specs) : t = order.specs[j]
  BY <1>1 DEF ToSet
<1>4. PICK secs : secs = Parse(g).value.secs
  OBVIOUS
<1>5. DOMAIN secs = 1 .. Len(order.specs) /\ Describes(order, s, secs[i])
  BY <1>2, <1>4, WrittenTable
<1>6. Describes(order, t, secs[j])
  BY <1>3, <1>4, WrittenTable
<1>7. \A k, m \in DOMAIN secs : secs[k].name = secs[m].name => k = m
  BY <1>4, ParseFacts DEF LayoutOk
<1>8. secs[i].name = secs[j].name
  BY <1>5, <1>6 DEF Describes
<1>9. i = j
  BY <1>5, <1>7, <1>8
<1> QED
  BY <1>2, <1>3, <1>9

\* A recipient of a section unwraps the key it was sealed under.
LEMMA WrittenKey ==
    ASSUME NEW order, OrderOk(order), CanLay(order), NEW g, LaidAs(order, g), Cells(g), Parse(g).ok,
           KeysReadable(order, g), NEW r \in ToSet(Parse(g).value.secs),
           NEW s \in ToSet(order.specs), r.name = s.name, NEW holder, NEW ctx,
           To(ctx, holder) \in ToSet(s.to)
    PROVE  SectionContentKey(g, Parse(g).value, r, holder, ctx) = Ok(ContentKey(s))
<1> DEFINE b == Parse(g).value
<1>1. PICK c : c = EnvelopeCell(order.suite, s, To(ctx, holder))
  OBVIOUS
<1>2. /\ c \in ToSet(AllEnvelopes(order)) /\ c[2].name = r.name /\ c[2].ctx = ctx
      /\ c[2].to = holder /\ c[2].suite = order.suite
  BY <1>1, EnvelopeFacts DEF EnvelopeCell, To
<1>3. AllEnvelopes(order) # <<>>
  BY <1>2 DEF ToSet
<1>4. b.h.suite = order.suite
  BY ParseFacts DEF LaidAs
<1>5. PICK all : /\ Envelopes(g, b) = Ok(all) /\ List(all)
                 /\ ToSet(all) = ToSet(AllEnvelopes(order))
  BY <1>3, EnvelopesAsWritten
<1> DEFINE M == {i \in DOMAIN all : /\ all[i][2].name = r.name /\ all[i][2].ctx = ctx
                                    /\ all[i][2].to = holder /\ all[i][2].suite = b.h.suite}
           mine == Picked(all, M)
<1>6. SectionContentKey(g, b, r, holder, ctx) = IF mine # <<>> THEN Ok(mine[1][2].key) ELSE Failed
  BY <1>5 DEF SectionContentKey, AndThen, Ok
<1>7. PICK at : at \in DOMAIN all /\ all[at] = c
  BY <1>2, <1>5 DEF ToSet
<1>8. at \in M
  BY <1>2, <1>4, <1>7
<1>9. M \subseteq DOMAIN all /\ \A i \in M : all[i][2].name = r.name
  OBVIOUS
<1> HIDE DEF M, b
<1>10. PICK picks \in Seq(M) :
         /\ \A x \in M : \E k \in 1 .. Len(picks) : picks[k] = x
         /\ List(mine) /\ Len(mine) = Len(picks)
         /\ \A k \in 1 .. Len(picks) : mine[k] = all[picks[k]]
  BY <1>5, <1>9, PickedFacts
<1> HIDE DEF mine
<1>11. Len(picks) \in Nat /\ Len(picks) # 0
  BY <1>8, <1>10
<1>12. 1 \in 1 .. Len(picks)
  BY <1>11
<1>13. picks[1] \in M /\ mine[1] = all[picks[1]]
  BY <1>10, <1>12
<1>14. mine # <<>>
  <2>1. Len(mine) # 0
    BY <1>10, <1>11
  <2> QED
    BY <2>1
<1>15. PICK d : d = mine[1]
  OBVIOUS
<1>16. d \in ToSet(all) /\ d[2].name = r.name
  BY <1>9, <1>13, <1>15 DEF ToSet
<1>17. PICK t \in ToSet(order.specs) : \E to \in ToSet(t.to) : d = EnvelopeCell(order.suite, t, to)
  <2>1. d \in ToSet(AllEnvelopes(order))
    BY <1>5, <1>16
  <2> QED
    BY <2>1, EnvelopeFacts
<1>18. d[2].name = t.name /\ d[2].key = ContentKey(t)
  BY <1>17 DEF EnvelopeCell
<1>19. t = s
  BY <1>16, <1>18, OneSpecPerName
<1> QED
  BY <1>6, <1>14, <1>15, <1>18, <1>19 DEF b
=============================================================================
