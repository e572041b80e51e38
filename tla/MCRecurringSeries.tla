------------------------- MODULE MCRecurringSeries -------------------------
(***************************************************************************)
(* An instance of RecurringSeries for TLC.                                 *)
(***************************************************************************)
EXTENDS RecurringSeries, TLC

CONSTANTS s1, s2

Symmetric == Permutations(Series)
=============================================================================
