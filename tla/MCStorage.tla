----------------------------- MODULE MCStorage -----------------------------
(***************************************************************************)
(* An instance of Storage for TLC.                                         *)
(***************************************************************************)
EXTENDS Storage, TLC

CONSTANTS f1, f2, f3, g1, g2
=============================================================================
