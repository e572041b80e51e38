----------------------------- MODULE MCSessions -----------------------------
(***************************************************************************)
(* An instance of Sessions for TLC.                                        *)
(***************************************************************************)
EXTENDS Sessions, TLC

CONSTANTS k1, k2, r1, d1, d2

Symmetry == Permutations(Tokens) \cup Permutations(Devices)
=============================================================================
