------------------------------- MODULE Leave -------------------------------
(***************************************************************************)
(* Leave requests, their review and the balance of leave days (apps/hr),   *)
(* for the employees of one company and one calendar year.                 *)
(*                                                                         *)
(* review() locks the request and, by select_related('user'), the row of   *)
(* its author, so the reviews of one author's requests are one step each.  *)
(* create, PATCH, cancel and the loss of a reviewer decide on rows they    *)
(* read without a lock: they leave their writes in `open` and commit       *)
(* later.                                                                  *)
(***************************************************************************)
EXTENDS Integers, FiniteSets

CONSTANTS
    Users,      \* employees and administrators of the company
    Authors,    \* bound: the users who file requests
    None,       \* NULL
    Leaves,     \* bound: primary keys of the requests
    LastDay,    \* bound: days 1..LastDay of the year, day 1 is today
    Forms,      \* bound: what authors send, within Form
    Totals,     \* bound: the values total_days is set to
    MaxOpen     \* bound: requests handled at the same time

VARIABLES
    leaves,     \* leaves[l]: the row of hr_leave_requests
    balance,    \* balance[u]: the row of hr_leave_balances; a missing row reads as its default
    admins,     \* users who are active company_admins
    open,       \* requests that have decided and not yet committed
    granted     \* history: the largest total_days each user has had

vars == <<leaves, balance, admins, open, granted>>

-----------------------------------------------------------------------------
(* Types *)

Day == 1..LastDay

\* "annual": vacation and day_off, taken from the balance; "free": sick_leave, remote.
LeaveTypes == {"annual", "free"}

\* What the author chooses.
Form == [type : LeaveTypes, from : Day, to : Day, reviewer : Users \cup {None}]

\* status "none": no row has this key.
LeaveRow == [user : Authors \cup {None}, form : Form,
             status : {"none", "pending", "approved", "rejected", "cancelled"}]
NoLeave  == [user |-> None, status |-> "none",
             form |-> [type |-> "free", from |-> 1, to |-> 1, reviewer |-> None]]

Insert  == [kind : {"insert"}, key : Leaves, user : Authors, form : Form]
Edit    == [kind : {"edit"}, key : Leaves, form : Form]
Cancelling == [kind : {"cancel"}, key : Leaves]
\* A reviewer about to lose the company, with the requests whose rows are locked.
Loss    == [kind : {"loss"}, user : Users, release : SUBSET Leaves, cancel : SUBSET Leaves]

TypeOK ==
    /\ leaves \in [Leaves -> LeaveRow]
    /\ balance \in [Authors -> [total : Nat, used : Nat]]
    /\ admins \subseteq Users
    /\ open \subseteq Insert \cup Edit \cup Cancelling \cup Loss
    /\ granted \in [Authors -> Nat]

ASSUME LeaveAssumption ==
    /\ LastDay \in Nat \ {0}
    /\ Totals \subseteq Nat
    /\ MaxOpen \in Nat
    /\ Forms \subseteq Form
    /\ Authors \subseteq Users /\ None \notin Users

-----------------------------------------------------------------------------
(* Reading *)

Exists(l)   == leaves[l].status # "none"
Approved(l) == leaves[l].status = "approved"
Days(form)  == form.from .. form.to
Duration(form) == form.to - form.from + 1

Overlap(f, g) == f.from <= g.to /\ g.from <= f.to

\* Mutant: requests that meet on a day do not clash.
ClashWithin(u, l, form) ==
    \E k \in Leaves \ {l} : /\ leaves[k].user = u /\ Approved(k)
                            /\ leaves[k].form.from < form.to /\ form.from < leaves[k].form.to

\* An approved request of `u`, other than `l`, on one of these days.
Clash(u, l, form) ==
    \E k \in Leaves \ {l} : leaves[k].user = u /\ Approved(k) /\ Overlap(leaves[k].form, form)

\* Mutant: the days already used are forgotten.
RemainingTotal(u) == balance[u].total

\* LeaveBalance.remaining_days
Remaining(u) ==
    IF balance[u].used >= balance[u].total THEN 0 ELSE balance[u].total - balance[u].used

\* LeaveRequestSerializer.validate, for a request `l` of `u`.
Valid(u, l, form) ==
    /\ u \in admins => /\ admins \ {u} # {}
                       /\ form.reviewer # None
    /\ form.reviewer # None => form.reviewer \in admins \ {u}
    /\ form.from <= form.to
    /\ ~Clash(u, l, form)
    /\ form.type = "annual" => Duration(form) <= Remaining(u)

\* Requests locked by SELECT ... FOR UPDATE of a loss under way.
Free(l) == \A t \in open : t.kind = "loss" => l \notin t.release \cup t.cancel

-----------------------------------------------------------------------------
(* Transactions *)

Begin(t) ==
    /\ Cardinality(open) < MaxOpen
    /\ t \notin open
    /\ open' = open \cup {t}
    /\ UNCHANGED <<leaves, balance, admins, granted>>

Abort(t) ==
    /\ open' = open \ {t}
    /\ UNCHANGED <<leaves, balance, admins, granted>>

CommitInsert(t) ==
    /\ t.kind = "insert"
    /\ leaves' = [leaves EXCEPT ![t.key] = [user |-> t.user, form |-> t.form,
                                            status |-> "pending"]]
    /\ open' = open \ {t}
    /\ UNCHANGED <<balance, admins, granted>>

\* Mutant: the PATCH saves only what the author chose.
CommitEditForm(t) ==
    /\ t.kind = "edit"
    /\ Free(t.key)
    /\ leaves' = [leaves EXCEPT ![t.key].form = t.form]
    /\ open' = open \ {t}
    /\ UNCHANGED <<balance, admins, granted>>

\* The serializer saves every column, the status read before included.
CommitEdit(t) ==
    /\ t.kind = "edit"
    /\ Free(t.key)
    /\ leaves' = [leaves EXCEPT ![t.key].form = t.form, ![t.key].status = "pending"]
    /\ open' = open \ {t}
    /\ UNCHANGED <<balance, admins, granted>>

CommitCancel(t) ==
    /\ t.kind = "cancel"
    /\ Free(t.key)
    /\ leaves' = [leaves EXCEPT ![t.key].status = "cancelled"]
    /\ open' = open \ {t}
    /\ UNCHANGED <<balance, admins, granted>>

Settled(row, status) == [row EXCEPT !.status = status, !.form.reviewer = None]

CommitLoss(t) ==
    /\ t.kind = "loss"
    /\ admins' = admins \ {t.user}
    /\ leaves' = [l \in Leaves |->
                     IF l \in t.cancel THEN Settled(leaves[l], "cancelled")
                     ELSE IF l \in t.release THEN Settled(leaves[l], "pending")
                     ELSE leaves[l]]
    /\ open' = open \ {t}
    /\ UNCHANGED <<balance, granted>>

-----------------------------------------------------------------------------
(* The author *)

\* The next key of the table.
Draw(l) == /\ ~Exists(l)
           /\ \A t \in open : t.kind = "insert" => t.key # l

Create(u, l, form) ==
    /\ Draw(l)
    /\ Valid(u, l, form)
    /\ Begin([kind |-> "insert", key |-> l, user |-> u, form |-> form])

\* partial_update
PatchLeave(u, l, form) ==
    /\ leaves[l].user = u
    /\ leaves[l].status = "pending"
    /\ Valid(u, l, form)
    /\ Begin([kind |-> "edit", key |-> l, form |-> form])

CancelLeave(u, l) ==
    /\ leaves[l].user = u
    /\ leaves[l].status = "pending"
    /\ Begin([kind |-> "cancel", key |-> l])

-----------------------------------------------------------------------------
(* The reviewer *)

\* Mutant: a request that was rejected before is approved without a charge.
UsedAfterPending(used, form, old, new) ==
    IF form.type = "free" THEN used
    ELSE IF old = "pending" /\ new = "approved" THEN used + Duration(form)
    ELSE IF old = "approved" /\ new # "approved"
         THEN IF used >= Duration(form) THEN used - Duration(form) ELSE 0
    ELSE used

\* The days a change of status takes from the balance, or returns to it.
UsedAfter(used, form, old, new) ==
    IF form.type = "free" THEN used
    ELSE IF old # "approved" /\ new = "approved" THEN used + Duration(form)
    ELSE IF old = "approved" /\ new # "approved"
         THEN IF used >= Duration(form) THEN used - Duration(form) ELSE 0
    ELSE used

\* review, by administrator `a`: whatever the status was.
Review(a, l, new) ==
    LET u    == leaves[l].user
        form == leaves[l].form
        old  == leaves[l].status
    IN  /\ Exists(l) /\ Free(l)
        /\ a \in admins /\ a # u
        /\ form.reviewer \in {None, a}
        /\ new = "approved" =>
              /\ ~Clash(u, l, form)
              /\ form.type = "annual" /\ old # "approved" => Duration(form) <= Remaining(u)
        /\ leaves' = [leaves EXCEPT ![l].status = new]
        /\ balance' = [balance EXCEPT ![u].used = UsedAfter(@, form, old, new)]
        /\ UNCHANGED <<admins, open, granted>>

-----------------------------------------------------------------------------
(* The company *)

\* set_balance for one user; a new vacation_days_per_year for all of them.
SetTotals(who, total) ==
    /\ balance' = [u \in Authors |-> IF u \in who THEN [balance[u] EXCEPT !.total = total]
                                                ELSE balance[u]]
    /\ granted' = [u \in Authors |-> IF u \in who /\ total > granted[u] THEN total ELSE granted[u]]
    /\ UNCHANGED <<leaves, admins, open>>

\* deactivate_member and remove_member: _settle_pending_leaves_on_reviewer_loss.  Another
\* administrator, not the author, steps in if there is one; otherwise the request ends.
LoseReviewer(u) ==
    LET theirs  == {l \in Leaves : leaves[l].status = "pending" /\ leaves[l].form.reviewer = u}
        standIn == {l \in theirs : admins \ {u, leaves[l].user} # {}}
    IN  /\ \A l \in theirs : Free(l)
        /\ Begin([kind |-> "loss", user |-> u, release |-> standIn, cancel |-> theirs \ standIn])

\* change_member_role, activate_member, block_user, unblock_user
SetAdmin(u, flag) ==
    /\ admins' = IF flag THEN admins \cup {u} ELSE admins \ {u}
    /\ UNCHANGED <<leaves, balance, open, granted>>

-----------------------------------------------------------------------------
(* Specification *)

Init ==
    /\ leaves = [l \in Leaves |-> NoLeave]
    /\ \E total \in Totals :
          /\ balance = [u \in Authors |-> [total |-> total, used |-> 0]]
          /\ granted = [u \in Authors |-> total]
    /\ admins \in SUBSET Users
    /\ open = {}

Commit(t) == CommitInsert(t) \/ CommitEdit(t) \/ CommitCancel(t) \/ CommitLoss(t)

Next ==
    \/ \E u \in Authors, l \in Leaves :
          \/ \E form \in Forms : Create(u, l, form) \/ PatchLeave(u, l, form)
          \/ CancelLeave(u, l)
    \/ \E a \in Users, l \in Leaves, new \in {"approved", "rejected"} : Review(a, l, new)
    \/ \E u \in Users : LoseReviewer(u) \/ \E flag \in BOOLEAN : SetAdmin(u, flag)
    \/ \E who \in {{u} : u \in Authors} \cup {Authors}, total \in Totals : SetTotals(who, total)
    \/ \E t \in open : Commit(t) \/ Abort(t)

Spec == Init /\ [][Next]_vars

-----------------------------------------------------------------------------
(* Properties *)

\* The days of the year a user's approved requests take from the balance.
PaidDays(u) ==
    {d \in Day : \E l \in Leaves : /\ leaves[l].user = u /\ Approved(l)
                                   /\ leaves[l].form.type = "annual"
                                   /\ d \in Days(leaves[l].form)}

\* Two approved requests of one employee never share a day, whatever was edited,
\* cancelled or withdrawn between a request's validation and its review.
NoOverlap ==
    \A l, k \in Leaves :
        l # k /\ Approved(l) /\ Approved(k) /\ leaves[l].user = leaves[k].user
            => ~Overlap(leaves[l].form, leaves[k].form)

\* An existing row has an author and its days are in order; so have those on their way.
WellFormed ==
    /\ \A l \in Leaves : Exists(l) => /\ leaves[l].user # None
                                      /\ leaves[l].form.from <= leaves[l].form.to
    /\ \A t \in open : t.kind = "insert" \/ t.kind = "edit" => t.form.from <= t.form.to
    /\ \A t \in open : t.kind = "edit" \/ t.kind = "cancel" => Exists(t.key)
    /\ \A t \in open : t.kind = "insert" => ~Exists(t.key)
    /\ \A t, q \in open : t.kind = "insert" /\ q.kind = "insert" /\ t # q => t.key # q.key
    /\ \A t \in open : t.kind = "loss" =>
          \A l \in t.release \cup t.cancel : leaves[l].status = "pending"
    /\ \A t, q \in open : t.kind = "loss" /\ q.kind = "loss" /\ t # q =>
          (t.release \cup t.cancel) \cap (q.release \cup q.cancel) = {}

\* Every day of approved leave has been paid for: the balance has never been credited
\* for a leave that still stands.  (It may have been charged for more: an edit or a
\* cancellation that overtakes an approval keeps the days.)
DaysArePaid == \A u \in Authors : Cardinality(PaidDays(u)) <= balance[u].used

\* Nobody takes more days than the largest balance they were ever given.
NeverOverdrawn == \A u \in Authors : balance[u].used <= granted[u]

\* The inductive invariant behind NoOverlap, DaysArePaid and NeverOverdrawn.
IInv == /\ TypeOK /\ WellFormed /\ NoOverlap /\ DaysArePaid /\ NeverOverdrawn
        /\ \A u \in Authors : balance[u].total <= granted[u]

\* The approved requests and the balances seen as a ledger: what LeaveLedger allows is
\* all that happens to them.  A leave is charged in full when it is approved, and a
\* reviewer who rejects it later refunds just that, never less because of the 0 at
\* which the code stops.
Taken == {[id |-> l, user |-> leaves[l].user, type |-> leaves[l].form.type,
           from |-> leaves[l].form.from, to |-> leaves[l].form.to] :
              l \in {k \in Leaves : Approved(k)}}
Ledger == INSTANCE LeaveLedger WITH taken <- Taken, purse <- balance
ImplementsLedger == Ledger!Spec

\* A request that stays approved keeps its days and its kind: what the reviewer agreed
\* to is what stands, although the author may be editing it at that moment.
ApprovedAsAgreed ==
    [][\A l \in Leaves : Approved(l) /\ Approved(l)' =>
          leaves'[l].user = leaves[l].user /\ leaves'[l].form = leaves[l].form]_vars
=============================================================================
