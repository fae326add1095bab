------------------------------ MODULE MCIngest ------------------------------
(***************************************************************************)
(* Small instances of Ingest.                                              *)
(***************************************************************************)
EXTENDS Ingest, TLC

CONSTANTS t1, t2, t3

Symmetry == Permutations({t1, t2, t3})
=============================================================================
