------------------------------ MODULE Ordering ------------------------------
(***************************************************************************)
(* What `ORDER BY` and `sort` return: the members of a finite set in a     *)
(* strict total order of them, given by the members before each one.       *)
(* SetToSortSeq gives the same sequence by way of TLC's SortSeq, whose     *)
(* definition the provers do not know.                                     *)
(***************************************************************************)
EXTENDS Naturals, FiniteSets, SequencesExt

\* A sequence, of whatever it holds.
List(s) == s \in Seq(ToSet(s))

InOrder(S, before) ==
    [k \in 1 .. Cardinality(S) |-> CHOOSE x \in S : Cardinality(before[x]) = k - 1]

Ascending(S) == InOrder(S, [x \in S |-> {y \in S : y < x}])

Descending(S) == InOrder(S, [x \in S |-> {y \in S : y > x}])

\* What a filter leaves of s: the elements at some of its positions, in their order.
Picked(s, positions) ==
    LET at == Ascending(positions) IN [k \in 1 .. Len(at) |-> s[at[k]]]
=============================================================================
