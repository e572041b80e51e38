------------------------------ MODULE MCBoard ------------------------------
(***************************************************************************)
(* An instance of Board for TLC.                                           *)
(***************************************************************************)
EXTENDS Board, TLC

CONSTANTS c1, c2, c3

Symmetry == Permutations(Columns)
=============================================================================
