---------------------------- MODULE MCGuestPass ----------------------------
(***************************************************************************)
(* An instance of GuestPass for TLC.                                       *)
(***************************************************************************)
EXTENDS GuestPass, TLC

CONSTANTS gil, emp, sam, e1, p1, p2, p3, d1, d2

Symmetry == Permutations(Passes)
=============================================================================
