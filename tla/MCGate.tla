------------------------------- MODULE MCGate -------------------------------
(***************************************************************************)
(* Small instances of Gate.                                                *)
(***************************************************************************)
EXTENDS Gate

CONSTANTS right, wrong
=============================================================================
