--------------------------- MODULE MCReservations ---------------------------
(***************************************************************************)
(* Instances of Reservations for TLC.                                      *)
(***************************************************************************)
EXTENDS Reservations, TLC

CONSTANTS room, pod, ann, boss

S(a, b) == [start |-> a, end |-> b]

\* A meeting room and a capsule; ann of a basic company, boss an administrator of a
\* premium one.
MCKind     == [r \in Resources |-> IF r = room THEN "meeting_room" ELSE "capsule"]
MCTier     == [u \in Users |-> IF u = boss THEN 3 ELSE 1]
MCMayBook  == [u \in Users |-> Resources]
MCSlots    == [r \in Resources |-> {S(1, 2), S(1, 3)}]
MCSeries   == {{S(1, 2), S(2, 3)}}
MCBlocks   == {S(1, 2)}

\* Workers are interchangeable; only for runs without liveness.
Symmetry   == Permutations(Workers)
=============================================================================
