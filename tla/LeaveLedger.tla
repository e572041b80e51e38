---------------------------- MODULE LeaveLedger ----------------------------
(***************************************************************************)
(* What the leave module promises an employee, with no request, reviewer   *)
(* or transaction in sight: leaves that share no day, each paid for when   *)
(* it is granted and refunded in full when the reviewer takes it back.     *)
(* Leave.tla is shown to implement it, with taken = the approved requests  *)
(* and purse = the balances.                                               *)
(***************************************************************************)
EXTENDS Integers

VARIABLES
    taken,      \* leaves that stand: [id, user, type, from, to]
    purse       \* purse[u]: [total, used] days

lvars == <<taken, purse>>

Meet(g, h) == g.user = h.user /\ g.from <= h.to /\ h.from <= g.to

\* The days of the balance a leave costs.
Cost(g) == IF g.type = "annual" THEN g.to - g.from + 1 ELSE 0

Init == taken = {} /\ \A u \in DOMAIN purse : purse[u].used = 0

\* A leave is granted on days still free, if the balance has them, and charged.
Grant ==
    \E g \in taken' :
        /\ taken' = taken \cup {g}
        /\ \A h \in taken : h.id # g.id /\ ~Meet(g, h)
        /\ Cost(g) > 0 => purse[g.user].used + Cost(g) <= purse[g.user].total
        /\ purse' = [purse EXCEPT ![g.user].used = @ + Cost(g)]

\* The reviewer takes a leave back: what it cost is refunded, all of it.
Withdraw ==
    \E g \in taken :
        /\ taken' = taken \ {g}
        /\ Cost(g) <= purse[g.user].used
        /\ purse' = [purse EXCEPT ![g.user].used = @ - Cost(g)]

\* The author's edit or cancellation overtakes the approval: the leave is off and
\* nothing is refunded.
Forfeit ==
    \E g \in taken : taken' = taken \ {g} /\ purse' = purse

\* An administrator sets the totals.
SetTotal ==
    /\ taken' = taken
    /\ DOMAIN purse' = DOMAIN purse
    /\ \A u \in DOMAIN purse : purse'[u].used = purse[u].used

Next == Grant \/ Withdraw \/ Forfeit \/ SetTotal

Spec == Init /\ [][Next]_lvars

\* No two leaves of one person share a day.
Disjoint == \A g, h \in taken : g # h => ~Meet(g, h)
=============================================================================
