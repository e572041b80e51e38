---------------------------- MODULE MCMembership ----------------------------
(***************************************************************************)
(* An instance of Membership for TLC.                                      *)
(***************************************************************************)
EXTENDS Membership, TLC

CONSTANTS acme, full

\* acme has room for one member, full for none.
MCMax == [c \in Companies |-> IF c = acme THEN 1 ELSE 0]

Symmetry == Permutations(Emails)
=============================================================================
