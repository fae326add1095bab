----------------------------- MODULE MCTransfer -----------------------------
(***************************************************************************)
(* Small instances of Transfer.                                            *)
(***************************************************************************)
EXTENDS Transfer, TLC

CONSTANTS k1, k2, p1, p2, o1, o2

Symmetry == Permutations({p1, p2}) \cup Permutations({k1, k2}) \cup Permutations({o1, o2})
=============================================================================
