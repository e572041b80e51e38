------------------------------ MODULE MCLeave ------------------------------
(***************************************************************************)
(* An instance of Leave for TLC.                                           *)
(***************************************************************************)
EXTENDS Leave, TLC

CONSTANTS ann, bob, cid, l1, l2

Ask(type, from, to, reviewer) == [type |-> type, from |-> from, to |-> to, reviewer |-> reviewer]

\* Two days: requests that are nested, that meet on a day, that share none, and one
\* that takes nothing from the balance.
MCForms == {Ask("annual", 1, 1, None), Ask("annual", 1, 2, bob), Ask("annual", 2, 2, bob),
            Ask("free", 2, 2, None)}

Symmetry == Permutations(Leaves)
=============================================================================
