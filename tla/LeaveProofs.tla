---------------------------- MODULE LeaveProofs ----------------------------
(***************************************************************************)
(* Theorems about Leave, for any users, requests, number of days and       *)
(* number of requests handled at once.                                     *)
(***************************************************************************)
EXTENDS Leave, FiniteSetTheorems, TLAPS

-----------------------------------------------------------------------------
(* Days *)

\* The days of a request are as many as duration_days counts.
LEMMA DaysCounted ==
    ASSUME LeaveAssumption, NEW form \in Form, form.from <= form.to
    PROVE  /\ IsFiniteSet(Days(form)) /\ Cardinality(Days(form)) = Duration(form)
           /\ Duration(form) \in Nat /\ Days(form) \subseteq Day
<1>1. form.from \in Int /\ form.to \in Int /\ form.from >= 1 /\ form.to <= LastDay
  BY DEF Form, Day, LeaveAssumption
<1>2. ~(form.from > form.to)
  BY <1>1
<1>3. IsFiniteSet(form.from .. form.to)
      /\ Cardinality(form.from .. form.to) = form.to - form.from + 1
  BY <1>1, <1>2, FS_Interval, Zenon
<1> QED
  BY <1>1, <1>3 DEF Days, Duration, Day, LeaveAssumption

\* The paid days of a user are finitely many.
LEMMA PaidDaysFinite ==
    ASSUME LeaveAssumption, NEW u
    PROVE  IsFiniteSet(PaidDays(u)) /\ Cardinality(PaidDays(u)) \in Nat
<1>1. IsFiniteSet(Day)
  BY FS_Interval DEF Day, LeaveAssumption
<1>2. PaidDays(u) \in SUBSET Day
  BY DEF PaidDays
<1> QED
  BY <1>1, <1>2, FS_Subset, FS_CardinalityType

\* The part of the invariant that speaks of one author's balance.
Paid(u) == Cardinality(PaidDays(u)) <= balance[u].used

\* Nothing new to pay for, and no balance changed.
LEMMA FewerDaysStayPaid ==
    ASSUME LeaveAssumption, TypeOK, NEW u \in Authors, Paid(u),
           PaidDays(u)' \subseteq PaidDays(u), balance'[u].used = balance[u].used
    PROVE  Paid(u)'
<1>1. /\ Cardinality(PaidDays(u)') <= Cardinality(PaidDays(u))
      /\ Cardinality(PaidDays(u)') \in Nat /\ Cardinality(PaidDays(u)) \in Nat
  BY PaidDaysFinite, FS_Subset, FS_CardinalityType
<1>2. balance[u].used \in Nat
  BY DEF TypeOK
<1> QED
  BY <1>1, <1>2 DEF Paid

\* Taking the reviewer off a request keeps its author and its days.
LEMMA SettledRow ==
    ASSUME NEW row \in LeaveRow,
           NEW status \in {"none", "pending", "approved", "rejected", "cancelled"}
    PROVE  /\ Settled(row, status) \in LeaveRow /\ Settled(row, status).status = status
           /\ Settled(row, status).user = row.user
           /\ Settled(row, status).form.from = row.form.from
           /\ Settled(row, status).form.to = row.form.to
<1> DEFINE f == [row.form EXCEPT !.reviewer = None]
<1>1. row.form \in Form
  BY DEF LeaveRow
<1>2. f \in Form /\ f.from = row.form.from /\ f.to = row.form.to
  BY <1>1 DEF Form
<1>3. Settled(row, status) = [row EXCEPT !.status = status, !.form = f]
  BY DEF LeaveRow, Settled
<1> HIDE DEF f
<1> QED
  BY <1>2, <1>3 DEF LeaveRow

-----------------------------------------------------------------------------
(* Steps that approve nothing *)

\* What the invariant says of the balances, seen from a step that leaves the days used
\* alone and approves nothing.
LEMMA NothingApproved ==
    ASSUME LeaveAssumption, IInv,
           \A u \in Authors : balance'[u].used = balance[u].used,
           \A l \in Leaves : Approved(l)' => Approved(l) /\ leaves'[l] = leaves[l]
    PROVE  NoOverlap' /\ DaysArePaid'
<1>1. NoOverlap'
  BY DEF IInv, NoOverlap
<1>2. \A u \in Authors : PaidDays(u)' \subseteq PaidDays(u)
  BY DEF PaidDays
<1>3. \A u \in Authors : Paid(u)'
  BY <1>2, FewerDaysStayPaid DEF IInv, DaysArePaid, Paid
<1> QED
  BY <1>1, <1>3 DEF DaysArePaid, Paid

\* A request may begin if it is of one of the four kinds and fits the rows it is about.
MayBegin(t) ==
    \/ /\ t \in Insert
       /\ ~Exists(t.key) /\ t.form.from <= t.form.to
       /\ \A q \in open : q.kind = "insert" => q.key # t.key
    \/ t \in Edit /\ Exists(t.key) /\ t.form.from <= t.form.to
    \/ t \in Cancelling /\ Exists(t.key)
    \/ t \in Loss /\ \A l \in t.release \cup t.cancel : leaves[l].status = "pending" /\ Free(l)

\* Beginning a request preserves the invariant.
LEMMA BeginKeepsIInv ==
    ASSUME LeaveAssumption, IInv, NEW t, MayBegin(t), Begin(t)
    PROVE  IInv'
<1>0. open' = open \cup {t} /\ UNCHANGED <<leaves, balance, admins, granted>>
  BY DEF Begin
<1>1. TypeOK'
  BY <1>0 DEF IInv, TypeOK, MayBegin
<1>2. /\ \A q \in Insert : q.kind = "insert"
      /\ \A q \in Edit : q.kind = "edit"
      /\ \A q \in Cancelling : q.kind = "cancel"
      /\ \A q \in Loss : q.kind = "loss"
  BY DEF Insert, Edit, Cancelling, Loss
<1>3. WellFormed'
  <2>1. \A q \in open : q.kind = "loss" /\ t.kind = "loss" =>
           (t.release \cup t.cancel) \cap (q.release \cup q.cancel) = {}
    BY <1>2 DEF MayBegin, Free
  <2> QED
    BY <1>0, <1>2, <2>1 DEF IInv, WellFormed, MayBegin, Exists
<1>4. NoOverlap' /\ DaysArePaid'
  BY <1>0, NothingApproved DEF Approved
<1> QED
  BY <1>0, <1>1, <1>3, <1>4 DEF IInv, NeverOverdrawn

\* create and partial_update meet the conditions of MayBegin.
LEMMA HandlersBegin ==
    ASSUME LeaveAssumption, IInv, NEW u \in Authors, NEW l \in Leaves, NEW form \in Forms,
           Create(u, l, form) \/ PatchLeave(u, l, form)
    PROVE  \E t : MayBegin(t) /\ Begin(t)
<1>0. form \in Form
  BY DEF LeaveAssumption
<1>1. CASE Create(u, l, form)
  <2> DEFINE t == [kind |-> "insert", key |-> l, user |-> u, form |-> form]
  <2>1. t \in Insert
    BY <1>0, <1>1 DEF Insert
  <2> QED
    BY <1>1, <2>1 DEF Create, Draw, Valid, MayBegin
<1>2. CASE PatchLeave(u, l, form)
  <2> DEFINE t == [kind |-> "edit", key |-> l, form |-> form]
  <2>1. t \in Edit
    BY <1>0 DEF Edit
  <2> QED
    BY <1>2, <2>1 DEF PatchLeave, Valid, MayBegin, Exists
<1> QED
  BY <1>1, <1>2

\* So does the loss of a reviewer, which locks the requests it settles.
LEMMA LossBegins ==
    ASSUME LeaveAssumption, IInv, NEW u \in Users, LoseReviewer(u)
    PROVE  \E t : MayBegin(t) /\ Begin(t)
<1> DEFINE theirs  == {k \in Leaves : leaves[k].status = "pending" /\ leaves[k].form.reviewer = u}
           standIn == {k \in theirs : admins \ {u, leaves[k].user} # {}}
           t == [kind |-> "loss", user |-> u, release |-> standIn, cancel |-> theirs \ standIn]
<1>1. Begin(t)
  BY DEF LoseReviewer
<1>2. t \in Loss
  BY DEF Loss
<1>3. \A k \in t.release \cup t.cancel : leaves[k].status = "pending" /\ Free(k)
  BY DEF LoseReviewer
<1> QED
  BY <1>1, <1>2, <1>3 DEF MayBegin

\* A commit takes a request away and leaves its row pending or cancelled.
LEMMA CommitKeepsIInv ==
    ASSUME LeaveAssumption, IInv, NEW t \in open, Commit(t)
    PROVE  IInv'
<1>0. open' = open \ {t} /\ UNCHANGED <<balance, granted>>
  BY DEF Commit, CommitInsert, CommitEdit, CommitCancel, CommitLoss
<1>1. /\ t.kind = "insert" => t \in Insert
      /\ t.kind = "edit" => t \in Edit
      /\ t.kind = "cancel" => t \in Cancelling
      /\ t.kind = "loss" => t \in Loss
  BY DEF IInv, TypeOK, Insert, Edit, Cancelling, Loss
<1>2. leaves \in [Leaves -> LeaveRow]
  BY DEF IInv, TypeOK
<1>3. CASE CommitInsert(t)
  <2>1. t \in Insert /\ ~Exists(t.key) /\ t.form.from <= t.form.to
    BY <1>1, <1>3 DEF CommitInsert, IInv, WellFormed
  <2>2. /\ t.key \in Leaves /\ t.user \in Authors /\ t.form \in Form
        /\ leaves' = [leaves EXCEPT ![t.key] = [user |-> t.user, form |-> t.form,
                                                status |-> "pending"]]
        /\ UNCHANGED admins
    BY <1>3, <2>1 DEF CommitInsert, Insert
  <2>3. TypeOK'
    BY <1>0, <1>2, <2>2 DEF IInv, TypeOK, LeaveRow
  <2>4. \A q \in open' : q \in open /\ (q.kind = "insert" => q.key # t.key)
    BY <1>0, <1>3 DEF IInv, WellFormed, CommitInsert
  <2>5. \A k \in Leaves : Exists(k)' <=> Exists(k) \/ k = t.key
    BY <1>2, <2>2 DEF Exists
  <2>6. \A q \in open' : /\ q.kind \in {"edit", "cancel"} => q.key \in Leaves
                         /\ q.kind = "insert" => q.key \in Leaves
                         /\ q.kind = "loss" => q.release \cup q.cancel \subseteq Leaves
    BY <1>0 DEF IInv, TypeOK, Insert, Edit, Cancelling, Loss
  <2>7. WellFormed'
    BY <1>2, <2>1, <2>2, <2>4, <2>5, <2>6, LeaveAssumption
       DEF IInv, WellFormed, Exists, LeaveAssumption
  <2>8. NoOverlap' /\ DaysArePaid'
    BY <1>0, <1>2, <2>2, NothingApproved DEF Approved
  <2> QED
    BY <1>0, <2>3, <2>7, <2>8 DEF IInv, NeverOverdrawn
<1>4. CASE CommitEdit(t) \/ CommitCancel(t)
  <2>1. t.key \in Leaves /\ Exists(t.key) /\ Free(t.key) /\ UNCHANGED admins
    BY <1>1, <1>4 DEF CommitEdit, CommitCancel, IInv, WellFormed, Edit, Cancelling
  <2>2. PICK form \in Form, status \in {"pending", "cancelled"} :
          /\ leaves' = [leaves EXCEPT ![t.key].form = form, ![t.key].status = status]
          /\ form.from <= form.to
    <3>1. CASE CommitEdit(t)
      BY <1>1, <3>1 DEF CommitEdit, Edit, IInv, WellFormed
    <3>2. CASE CommitCancel(t)
      <4>1. leaves[t.key].form \in Form /\ leaves[t.key].form.from <= leaves[t.key].form.to
        BY <1>2, <2>1 DEF LeaveRow, IInv, WellFormed
      <4>2. leaves' = [leaves EXCEPT ![t.key].form = leaves[t.key].form,
                                     ![t.key].status = "cancelled"]
        BY <1>2, <2>1, <3>2 DEF CommitCancel, LeaveRow
      <4> QED
        BY <4>1, <4>2
    <3> QED
      BY <1>4, <3>1, <3>2
  <2>3. TypeOK'
    BY <1>0, <1>2, <2>1, <2>2 DEF IInv, TypeOK, LeaveRow
  <2>4. \A k \in Leaves : /\ Exists(k)' <=> Exists(k)
                          /\ k # t.key => leaves'[k] = leaves[k]
                          /\ leaves'[k].user = leaves[k].user
    BY <1>2, <2>1, <2>2 DEF Exists, LeaveRow
  <2>5. leaves'[t.key].form = form
    BY <1>2, <2>1, <2>2 DEF LeaveRow
  <2>6. \A q \in open' : /\ q \in open
                         /\ q.kind \in {"insert", "edit", "cancel"} => q.key \in Leaves
                         /\ q.kind = "loss" => /\ q.release \cup q.cancel \subseteq Leaves
                                               /\ t.key \notin q.release \cup q.cancel
    BY <1>0, <2>1 DEF IInv, TypeOK, Insert, Edit, Cancelling, Loss, Free
  <2>7. WellFormed'
    <3>1. \A k \in Leaves : Exists(k)' => /\ leaves'[k].user # None
                                          /\ leaves'[k].form.from <= leaves'[k].form.to
      BY <2>2, <2>4, <2>5 DEF IInv, WellFormed
    <3>2. \A q \in open' : q.kind = "loss" =>
             \A l \in q.release \cup q.cancel : leaves'[l].status = "pending"
      BY <2>4, <2>6 DEF IInv, WellFormed
    <3>3. \A q \in open' : /\ q.kind = "edit" \/ q.kind = "cancel" => Exists(q.key)'
                           /\ q.kind = "insert" => ~Exists(q.key)'
      BY <2>4, <2>6 DEF IInv, WellFormed
    <3> QED
      BY <2>6, <3>1, <3>2, <3>3 DEF IInv, WellFormed
  <2>8. NoOverlap' /\ DaysArePaid'
    BY <1>0, <1>2, <2>1, <2>2, NothingApproved DEF Approved, LeaveRow
  <2> QED
    BY <1>0, <2>1, <2>3, <2>7, <2>8 DEF IInv, NeverOverdrawn
<1>5. CASE CommitLoss(t)
  <2>1. /\ t \in Loss
        /\ \A l \in t.release \cup t.cancel : l \in Leaves /\ leaves[l].status = "pending"
    BY <1>1, <1>5 DEF CommitLoss, IInv, WellFormed, Loss
  <2>2. ASSUME NEW l \in Leaves
        PROVE  /\ leaves'[l] \in LeaveRow
               /\ Exists(l)' <=> Exists(l)
               /\ leaves'[l].user = leaves[l].user
               /\ leaves'[l].form.from = leaves[l].form.from
               /\ leaves'[l].form.to = leaves[l].form.to
               /\ Approved(l)' => Approved(l) /\ leaves'[l] = leaves[l]
               /\ l \notin t.release \cup t.cancel => leaves'[l] = leaves[l]
    <3>0. leaves[l] \in LeaveRow
      BY <1>2
    <3>1. CASE l \in t.cancel
      <4>1. leaves'[l] = Settled(leaves[l], "cancelled")
        BY <1>5, <3>1 DEF CommitLoss
      <4> QED
        BY <2>1, <3>0, <3>1, <4>1, SettledRow DEF Exists, Approved
    <3>2. CASE l \in t.release /\ l \notin t.cancel
      <4>1. leaves'[l] = Settled(leaves[l], "pending")
        BY <1>5, <3>2 DEF CommitLoss
      <4> QED
        BY <2>1, <3>0, <3>2, <4>1, SettledRow DEF Exists, Approved
    <3>3. CASE l \notin t.release \cup t.cancel
      BY <1>5, <3>0, <3>3 DEF CommitLoss, Exists, Approved
    <3> QED
      BY <3>1, <3>2, <3>3
  <2>3. TypeOK'
    <3>1. leaves' \in [Leaves -> LeaveRow]
      BY <1>5, <2>2 DEF CommitLoss
    <3> QED
      BY <1>0, <1>5, <3>1 DEF IInv, TypeOK, CommitLoss
  <2>5. WellFormed'
    <3>1. \A q \in open' : q.kind = "loss" =>
             \A l \in q.release \cup q.cancel : leaves'[l].status = "pending"
      <4>1. SUFFICES ASSUME NEW q \in open, q.kind = "loss", q # t,
                            NEW l \in q.release \cup q.cancel
                     PROVE  leaves'[l].status = "pending"
        BY <1>0
      <4>2. l \in Leaves /\ leaves[l].status = "pending"
        BY <4>1 DEF IInv, WellFormed, TypeOK, Insert, Edit, Cancelling, Loss
      <4>3. l \notin t.release \cup t.cancel
        BY <1>5, <4>1 DEF IInv, WellFormed, CommitLoss
      <4> QED
        BY <2>2, <4>2, <4>3
    <3>2. \A q \in open' : q.kind \in {"insert", "edit", "cancel"} => q.key \in Leaves
      BY <1>0 DEF IInv, TypeOK, Insert, Edit, Cancelling, Loss
    <3> QED
      BY <1>0, <2>2, <3>1, <3>2 DEF IInv, WellFormed
  <2>6. NoOverlap' /\ DaysArePaid'
    BY <1>0, <2>2, NothingApproved
  <2> QED
    BY <1>0, <2>3, <2>5, <2>6 DEF IInv, NeverOverdrawn
<1> QED
  BY <1>3, <1>4, <1>5 DEF Commit
-----------------------------------------------------------------------------
(* Reviews *)

\* An approval pays for the days it adds; a withdrawal returns those it takes away, and
\* as approved requests do not overlap, no other request stands on them.
LEMMA ReviewKeepsPaid ==
    ASSUME LeaveAssumption, IInv, NEW a \in Users, NEW l \in Leaves,
           NEW new \in {"approved", "rejected"}, Review(a, l, new), NEW w \in Authors
    PROVE  /\ Paid(w)'
           /\ balance'[w] \in [total : Nat, used : Nat]
           /\ balance'[w].total = balance[w].total
           /\ balance'[w].used <= granted[w]
<1>0. /\ leaves[l].user \in Authors /\ leaves[l].form \in Form /\ leaves[l] \in LeaveRow
      /\ leaves[l].form.from <= leaves[l].form.to
      /\ leaves \in [Leaves -> LeaveRow] /\ balance \in [Authors -> [total : Nat, used : Nat]]
  BY DEF Review, IInv, TypeOK, WellFormed, LeaveRow
<1>1. PICK form \in Form, d \in {Duration(leaves[l].form)}, old \in {leaves[l].status} :
      /\ leaves[l].form = form /\ leaves[l].status = old
      /\ d = Duration(form) /\ form.from <= form.to
      /\ leaves' = [leaves EXCEPT ![l].status = new]
      /\ balance' = [balance EXCEPT ![leaves[l].user].used = UsedAfter(@, form, old, new)]
      /\ new = "approved" /\ form.type = "annual" /\ old # "approved" => d <= Remaining(leaves[l].user)
  BY <1>0 DEF Review
<1>2. /\ IsFiniteSet(Days(form)) /\ Cardinality(Days(form)) = d /\ d \in Nat
      /\ Days(form) \subseteq Day
  BY <1>1, DaysCounted
<1>3. /\ balance[w] \in [total : Nat, used : Nat] /\ granted[w] \in Nat
      /\ Cardinality(PaidDays(w)) <= balance[w].used /\ balance[w].used <= granted[w]
      /\ balance[w].total <= granted[w]
      /\ IsFiniteSet(PaidDays(w)) /\ Cardinality(PaidDays(w)) \in Nat
  BY PaidDaysFinite DEF IInv, TypeOK, DaysArePaid, NeverOverdrawn
<1>4. /\ \A k \in Leaves : k # l => leaves'[k] = leaves[k]
      /\ leaves'[l].user = leaves[l].user /\ leaves'[l].form = form /\ leaves'[l].status = new
  BY <1>0, <1>1 DEF LeaveRow
<1>5. CASE leaves[l].user # w
  <2>1. PaidDays(w)' \subseteq PaidDays(w)
    BY <1>1, <1>4, <1>5 DEF PaidDays, Approved
  <2>2. balance'[w] = balance[w]
    BY <1>0, <1>1, <1>5
  <2>3. Paid(w)'
    BY <2>1, <2>2, FewerDaysStayPaid DEF IInv, DaysArePaid, Paid
  <2> QED
    BY <2>2, <2>3 DEF IInv, TypeOK, NeverOverdrawn
<1>6. CASE /\ leaves[l].user = w
           /\ \/ form.type = "free"
              \/ old = "approved" /\ new = "approved"
              \/ old # "approved" /\ new # "approved"
  <2>1. UsedAfter(balance[w].used, form, old, new) = balance[w].used
    BY <1>6 DEF UsedAfter
  <2>2. balance'[w] = balance[w]
    BY <1>0, <1>1, <1>3, <1>6, <2>1
  <2>3. PaidDays(w)' \subseteq PaidDays(w)
    BY <1>1, <1>4, <1>6 DEF PaidDays, Approved
  <2>4. Paid(w)'
    <3>1. TypeOK /\ Paid(w)
      BY DEF IInv, DaysArePaid, Paid
    <3> QED
      BY <2>2, <2>3, <3>1, FewerDaysStayPaid
  <2> QED
    BY <1>3, <1>6, <2>2, <2>4
<1>7. CASE leaves[l].user = w /\ form.type = "annual" /\ old # "approved" /\ new = "approved"
  <2>1. d <= Remaining(w)
    BY <1>1, <1>7
  <2>2. d <= balance[w].total - balance[w].used \/ d = 0
    BY <1>2, <1>3, <2>1 DEF Remaining
  <2>3. d >= 1
    BY <1>1 DEF Duration, Form, Day, LeaveAssumption
  <2>4. UsedAfter(balance[w].used, form, old, new) = balance[w].used + d
    BY <1>1, <1>7 DEF UsedAfter
  <2>5. /\ balance'[w].used = balance[w].used + d /\ balance'[w].total = balance[w].total
        /\ balance'[w] \in [total : Nat, used : Nat]
    BY <1>0, <1>1, <1>2, <1>3, <1>7, <2>4
  <2>6. PaidDays(w)' \subseteq PaidDays(w) \cup Days(form)
    BY <1>1, <1>4, <1>7 DEF PaidDays, Approved
  <2>7. /\ Cardinality(PaidDays(w)') <= Cardinality(PaidDays(w) \cup Days(form))
        /\ Cardinality(PaidDays(w) \cup Days(form)) = Cardinality(PaidDays(w)) + d - Cardinality(PaidDays(w) \cap Days(form))
        /\ Cardinality(PaidDays(w)') \in Nat /\ Cardinality(PaidDays(w) \cap Days(form)) \in Nat
        /\ Cardinality(PaidDays(w) \cup Days(form)) \in Nat
    <3>1. /\ IsFiniteSet(PaidDays(w) \cup Days(form))
          /\ Cardinality(PaidDays(w) \cup Days(form)) = Cardinality(PaidDays(w)) + d - Cardinality(PaidDays(w) \cap Days(form))
      BY <1>2, <1>3, FS_Union
    <3>2. PaidDays(w) \cap Days(form) \in SUBSET PaidDays(w)
      OBVIOUS
    <3> QED
      BY <1>2, <1>3, <2>6, <3>1, <3>2, FS_Subset, FS_CardinalityType
  <2> QED
    BY <1>2, <1>3, <1>7, <2>2, <2>3, <2>5, <2>7 DEF Paid
<1>8. CASE leaves[l].user = w /\ form.type = "annual" /\ old = "approved" /\ new = "rejected"
  <2>1. Days(form) \subseteq PaidDays(w)
    BY <1>1, <1>2, <1>8 DEF PaidDays, Approved
  <2>2. PaidDays(w)' \subseteq PaidDays(w) \ Days(form)
    <3>1. SUFFICES ASSUME NEW x \in Day, NEW k \in Leaves, leaves'[k].user = w,
                          leaves'[k].status = "approved", leaves'[k].form.type = "annual",
                          x \in Days(leaves'[k].form)
                   PROVE  x \in PaidDays(w) /\ x \notin Days(form)
      BY DEF PaidDays, Approved
    <3>2. k # l /\ leaves'[k] = leaves[k]
      BY <1>4, <1>8, <3>1
    <3>3. ~Overlap(leaves[k].form, form)
      BY <1>1, <1>8, <3>1, <3>2 DEF IInv, NoOverlap, Approved
    <3>4. /\ x \in Int /\ leaves[k].form.from \in Int /\ leaves[k].form.to \in Int
          /\ form.from \in Int /\ form.to \in Int
      BY <1>0, <3>2 DEF LeaveRow, Form, Day, LeaveAssumption
    <3>5. x \notin Days(form)
      BY <3>1, <3>2, <3>3, <3>4 DEF Overlap, Days
    <3> QED
      BY <3>1, <3>2, <3>5 DEF PaidDays, Approved
  <2>3. /\ Cardinality(PaidDays(w) \ Days(form)) = Cardinality(PaidDays(w)) - d
        /\ IsFiniteSet(PaidDays(w) \ Days(form)) /\ d <= Cardinality(PaidDays(w))
    <3>1. PaidDays(w) \cap Days(form) = Days(form)
      BY <2>1
    <3> QED
      BY <1>2, <1>3, <2>1, <3>1, FS_Difference, FS_Subset
  <2>4. Cardinality(PaidDays(w)') <= Cardinality(PaidDays(w)) - d /\ Cardinality(PaidDays(w)') \in Nat
    BY <2>2, <2>3, FS_Subset, FS_CardinalityType
  <2>5. balance[w].used >= d
    BY <1>2, <1>3, <2>3
  <2>6. UsedAfter(balance[w].used, form, old, new) = balance[w].used - d
    BY <1>1, <1>8, <2>5 DEF UsedAfter
  <2>7. /\ balance'[w].used = balance[w].used - d /\ balance'[w].total = balance[w].total
        /\ balance'[w] \in [total : Nat, used : Nat]
    BY <1>0, <1>1, <1>2, <1>3, <1>8, <2>5, <2>6
  <2> QED
    BY <1>2, <1>3, <1>8, <2>4, <2>7 DEF Paid
<1>9. form.type = "annual" \/ form.type = "free"
  BY DEF Form, LeaveTypes
<1> QED
  BY <1>5, <1>6, <1>7, <1>8, <1>9

\* A review preserves the invariant.
LEMMA ReviewKeepsIInv ==
    ASSUME LeaveAssumption, IInv, NEW a \in Users, NEW l \in Leaves,
           NEW new \in {"approved", "rejected"}, Review(a, l, new)
    PROVE  IInv'
<1>1. /\ leaves' = [leaves EXCEPT ![l].status = new] /\ UNCHANGED <<admins, open, granted>>
      /\ Exists(l) /\ Free(l) /\ leaves \in [Leaves -> LeaveRow]
      /\ leaves[l].user \in Authors
      /\ \E used : balance' = [balance EXCEPT ![leaves[l].user].used = used]
  BY DEF Review, IInv, TypeOK, WellFormed, LeaveRow
<1>2. \A w \in Authors : /\ Paid(w)' /\ balance'[w] \in [total : Nat, used : Nat]
                         /\ balance'[w].total = balance[w].total
                         /\ balance'[w].used <= granted[w]
  BY ReviewKeepsPaid
<1>3. TypeOK'
  <2>1. leaves' \in [Leaves -> LeaveRow]
    BY <1>1 DEF LeaveRow
  <2>2. balance' \in [Authors -> [total : Nat, used : Nat]]
    BY <1>1, <1>2 DEF IInv, TypeOK
  <2> QED
    BY <1>1, <2>1, <2>2 DEF IInv, TypeOK
<1>4. \A k \in Leaves : /\ k # l => leaves'[k] = leaves[k]
                        /\ leaves'[k].user = leaves[k].user /\ leaves'[k].form = leaves[k].form
                        /\ Exists(k)' <=> Exists(k)
                        /\ leaves'[l].status = new
  BY <1>1 DEF LeaveRow, Exists
<1>5. \A q \in open : /\ q.kind \in {"insert", "edit", "cancel"} => q.key \in Leaves
                      /\ q.kind = "loss" => /\ q.release \cup q.cancel \subseteq Leaves
                                            /\ l \notin q.release \cup q.cancel
  BY <1>1 DEF IInv, TypeOK, Insert, Edit, Cancelling, Loss, Free
<1>6. WellFormed'
  <2>1. \A k \in Leaves : Exists(k)' => /\ leaves'[k].user # None
                                        /\ leaves'[k].form.from <= leaves'[k].form.to
    BY <1>4 DEF IInv, WellFormed
  <2>2. \A q \in open : q.kind = "loss" =>
           \A k \in q.release \cup q.cancel : leaves'[k].status = "pending"
    BY <1>4, <1>5 DEF IInv, WellFormed
  <2>3. \A q \in open : /\ q.kind = "edit" \/ q.kind = "cancel" => Exists(q.key)'
                        /\ q.kind = "insert" => ~Exists(q.key)'
    BY <1>4, <1>5 DEF IInv, WellFormed
  <2> QED
    BY <1>1, <2>1, <2>2, <2>3 DEF IInv, WellFormed
<1>7. NoOverlap'
  <2>1. new = "approved" => ~Clash(leaves[l].user, l, leaves[l].form)
    BY DEF Review
  <2>2. \A k \in Leaves : leaves[k].form.from \in Int /\ leaves[k].form.to \in Int
    BY <1>1 DEF LeaveRow, Form, Day, LeaveAssumption
  <2> SUFFICES ASSUME NEW k \in Leaves, NEW m \in Leaves, k # m,
                      leaves'[k].status = "approved", leaves'[m].status = "approved",
                      leaves[k].user = leaves[m].user
               PROVE  ~Overlap(leaves[k].form, leaves[m].form)
    BY <1>4 DEF NoOverlap, Approved, Overlap
  <2>3. CASE k # l /\ m # l
    BY <1>4, <2>3 DEF IInv, NoOverlap, Approved
  <2>4. CASE k = l \/ m = l
    <3>1. new = "approved" /\ ~Clash(leaves[l].user, l, leaves[l].form)
      BY <1>4, <2>1, <2>4
    <3> QED
      BY <1>4, <2>2, <2>4, <3>1 DEF Clash, Approved, Overlap
  <2> QED
    BY <2>3, <2>4
<1> QED
  BY <1>1, <1>2, <1>3, <1>6, <1>7 DEF IInv, DaysArePaid, NeverOverdrawn, Paid

-----------------------------------------------------------------------------
(* Theorems *)

\* The invariant holds in every reachable state.
THEOREM LeaveInvariant == Spec => []IInv
<1>0. LeaveAssumption
  BY LeaveAssumption
<1>1. Init => IInv
  <2> SUFFICES ASSUME Init PROVE IInv
    OBVIOUS
  <2>1. NoLeave \in LeaveRow
    BY <1>0 DEF NoLeave, LeaveRow, Form, LeaveTypes, Day, LeaveAssumption
  <2>2. TypeOK
    BY <1>0, <2>1 DEF Init, TypeOK, LeaveAssumption
  <2>3. \A u \in Authors : PaidDays(u) = {}
    BY DEF Init, PaidDays, Approved, NoLeave
  <2>4. \A u \in Authors : balance[u].used = 0
    BY DEF Init
  <2>5. DaysArePaid
    BY <2>3, <2>4, FS_EmptySet DEF DaysArePaid
  <2> QED
    BY <1>0, <2>2, <2>5 DEF Init, IInv, WellFormed, NoOverlap, NeverOverdrawn, Exists, Approved,
                            NoLeave, LeaveAssumption
<1>2. IInv /\ [Next]_vars => IInv'
  <2> SUFFICES ASSUME IInv, [Next]_vars PROVE IInv'
    OBVIOUS
  <2>1. ASSUME NEW u \in Authors, NEW l \in Leaves, NEW form \in Forms,
               Create(u, l, form) \/ PatchLeave(u, l, form)
        PROVE  IInv'
    BY <1>0, <2>1, HandlersBegin, BeginKeepsIInv DEF LeaveAssumption
  <2>2. ASSUME NEW u \in Authors, NEW l \in Leaves, CancelLeave(u, l)
        PROVE  IInv'
    <3>1. /\ MayBegin([kind |-> "cancel", key |-> l]) /\ Begin([kind |-> "cancel", key |-> l])
      BY <2>2 DEF CancelLeave, MayBegin, Cancelling, Exists
    <3> QED
      BY <1>0, <3>1, BeginKeepsIInv
  <2>3. ASSUME NEW u \in Users, LoseReviewer(u)
        PROVE  IInv'
    BY <1>0, <2>3, LossBegins, BeginKeepsIInv
  <2>4. ASSUME NEW a \in Users, NEW l \in Leaves, NEW new \in {"approved", "rejected"},
               Review(a, l, new)
        PROVE  IInv'
    BY <1>0, <2>4, ReviewKeepsIInv
  <2>5. ASSUME NEW u \in Users, NEW flag \in BOOLEAN, SetAdmin(u, flag)
        PROVE  IInv'
    <3>1. NoOverlap' /\ DaysArePaid'
      BY <1>0, <2>5, NothingApproved DEF SetAdmin, Approved
    <3> QED
      BY <2>5, <3>1 DEF SetAdmin, IInv, TypeOK, WellFormed, Exists, NeverOverdrawn
  <2>6. ASSUME NEW who \in SUBSET Authors, NEW total \in Totals, SetTotals(who, total)
        PROVE  IInv'
    <3>1. \A u \in Authors : /\ balance[u] \in [total : Nat, used : Nat] /\ granted[u] \in Nat
                             /\ balance[u].used <= granted[u] /\ balance[u].total <= granted[u]
                             /\ total \in Nat
      BY <1>0 DEF IInv, TypeOK, NeverOverdrawn, LeaveAssumption
    <3>2. \A u \in Authors : /\ balance'[u].used = balance[u].used
                             /\ balance'[u] \in [total : Nat, used : Nat]
                             /\ granted'[u] \in Nat /\ granted'[u] >= granted[u]
                             /\ balance'[u].total <= granted'[u]
      BY <2>6, <3>1 DEF SetTotals
    <3>3. NoOverlap' /\ DaysArePaid'
      BY <1>0, <2>6, <3>2, NothingApproved DEF SetTotals, Approved
    <3>4. TypeOK'
      BY <2>6, <3>2 DEF SetTotals, IInv, TypeOK
    <3>5. NeverOverdrawn'
      BY <3>1, <3>2 DEF NeverOverdrawn
    <3> QED
      BY <2>6, <3>2, <3>3, <3>4, <3>5 DEF SetTotals, IInv, WellFormed, Exists
  <2>7. ASSUME NEW t \in open, Commit(t)
        PROVE  IInv'
    BY <1>0, <2>7, CommitKeepsIInv
  <2>8. ASSUME NEW t \in open, Abort(t)
        PROVE  IInv'
    <3>1. NoOverlap' /\ DaysArePaid'
      BY <1>0, <2>8, NothingApproved DEF Abort, Approved
    <3> QED
      BY <2>8, <3>1 DEF Abort, IInv, TypeOK, WellFormed, Exists, NeverOverdrawn
  <2>9. CASE UNCHANGED vars
    <3>1. NoOverlap' /\ DaysArePaid'
      BY <1>0, <2>9, NothingApproved DEF vars, Approved
    <3> QED
      BY <2>9, <3>1 DEF vars, IInv, TypeOK, WellFormed, Exists, NeverOverdrawn
  <2>10. \A who \in {{u} : u \in Authors} \cup {Authors} : who \in SUBSET Authors
    OBVIOUS
  <2> QED
    BY <2>1, <2>2, <2>3, <2>4, <2>5, <2>6, <2>7, <2>8, <2>9, <2>10 DEF Next
<1> QED
  BY <1>1, <1>2, PTL DEF Spec

\* Approved requests of one employee share no day (the overlap check of review).
THEOREM ApprovedLeavesAreDisjoint == Spec => []NoOverlap
<1>1. IInv => NoOverlap
  BY DEF IInv
<1> QED
  BY <1>1, LeaveInvariant, PTL

\* Every approved day was taken from the balance (the += and -= of review).
THEOREM ApprovedDaysArePaid == Spec => []DaysArePaid
<1>1. IInv => DaysArePaid
  BY DEF IInv
<1> QED
  BY <1>1, LeaveInvariant, PTL

\* The balance check of review keeps used_days within what was granted.
THEOREM BalanceNeverOverdrawn == Spec => []NeverOverdrawn
<1>1. IInv => NeverOverdrawn
  BY DEF IInv
<1> QED
  BY <1>1, LeaveInvariant, PTL

\* What the reviewer approved stands as it was: a request that stays approved was not
\* inserted, edited, cancelled or withdrawn by the step (a save of the author's makes it
\* pending again).
THEOREM ApprovalsStandAsAgreed == Spec => ApprovedAsAgreed
<1>1. IInv /\ [Next]_vars =>
        [\A l \in Leaves : Approved(l) /\ Approved(l)' =>
            leaves'[l].user = leaves[l].user /\ leaves'[l].form = leaves[l].form]_vars
  <2> SUFFICES ASSUME IInv, [Next]_vars, NEW l \in Leaves, Approved(l), Approved(l)'
               PROVE  leaves'[l].user = leaves[l].user /\ leaves'[l].form = leaves[l].form
    OBVIOUS
  <2>0. leaves \in [Leaves -> LeaveRow] /\ leaves[l] \in LeaveRow
    BY DEF IInv, TypeOK
  <2>1. ASSUME NEW t \in open, CommitInsert(t)
        PROVE  leaves'[l] = leaves[l]
    <3>1. t.key # l
      BY <2>1 DEF CommitInsert, IInv, WellFormed, Exists, Approved
    <3> QED
      BY <2>0, <2>1, <3>1 DEF CommitInsert
  <2>2. ASSUME NEW t \in open, CommitEdit(t)
        PROVE  leaves'[l] = leaves[l]
    BY <2>0, <2>2 DEF CommitEdit, Approved, LeaveRow
  <2>3. ASSUME NEW t \in open, CommitCancel(t)
        PROVE  leaves'[l] = leaves[l]
    BY <2>0, <2>3 DEF CommitCancel, Approved, LeaveRow
  <2>4. ASSUME NEW t \in open, CommitLoss(t)
        PROVE  leaves'[l] = leaves[l]
    <3>1. l \notin t.release \cup t.cancel
      BY <2>4 DEF CommitLoss, IInv, WellFormed, Approved
    <3> QED
      BY <2>4, <3>1 DEF CommitLoss
  <2>5. ASSUME NEW a \in Users, NEW k \in Leaves, NEW new, Review(a, k, new)
        PROVE  leaves'[l].user = leaves[l].user /\ leaves'[l].form = leaves[l].form
    BY <2>0, <2>5 DEF Review, LeaveRow
  <2>6. CASE leaves' = leaves
    BY <2>6
  <2> QED
    BY <2>1, <2>2, <2>3, <2>4, <2>5, <2>6
       DEF Next, Commit, Abort, Create, PatchLeave, CancelLeave, LoseReviewer, Begin, SetAdmin,
           SetTotals, vars
<1> QED
  BY <1>1, LeaveInvariant, PTL DEF Spec, ApprovedAsAgreed

-----------------------------------------------------------------------------
(* The ledger *)

\* A request as LeaveLedger sees it.
Entry(l) == [id |-> l, user |-> leaves[l].user, type |-> leaves[l].form.type,
             from |-> leaves[l].form.from, to |-> leaves[l].form.to]

\* A step that changes at most one request puts it on the ledger, takes it off, or
\* leaves the ledger alone.
LEMMA OneEntryChanges ==
    ASSUME NEW l \in Leaves,
           \A k \in Leaves \ {l} : /\ Approved(k)' = Approved(k)
                                   /\ Approved(k) => Entry(k)' = Entry(k)
    PROVE  /\ Approved(l)' /\ ~Approved(l) => Taken' = Taken \cup {Entry(l)'}
           /\ Approved(l) /\ ~Approved(l)' => Taken' = Taken \ {Entry(l)}
           /\ (Approved(l)' = Approved(l)) /\ (Approved(l) => Entry(l)' = Entry(l))
                  => Taken' = Taken
<1>1. /\ Taken = {Entry(k) : k \in {m \in Leaves : Approved(m)}}
      /\ Taken' = {Entry(k)' : k \in {m \in Leaves : Approved(m)'}}
  BY DEF Taken, Entry
<1>2. \A k, m \in Leaves : Entry(k) = Entry(m) => k = m
  BY DEF Entry
<1> HIDE DEF Entry, Approved
<1> QED
  BY <1>1, <1>2

\* An approved request that counts has been paid for, so that a refund is never cut at 0.
LEMMA ApprovedIsCovered ==
    ASSUME LeaveAssumption, IInv, NEW l \in Leaves, Approved(l),
           leaves[l].form.type = "annual"
    PROVE  Duration(leaves[l].form) <= balance[leaves[l].user].used
<1> DEFINE u == leaves[l].user
           form == leaves[l].form
<1>1. /\ u \in Authors /\ form \in Form /\ form.from <= form.to
      /\ balance[u].used \in Nat
  BY DEF IInv, TypeOK, WellFormed, LeaveRow, Exists, Approved
<1>2. /\ IsFiniteSet(Days(form)) /\ Cardinality(Days(form)) = Duration(form)
      /\ Duration(form) \in Nat /\ Days(form) \subseteq Day
  BY <1>1, DaysCounted
<1>3. Days(form) \in SUBSET PaidDays(u)
  BY <1>2 DEF PaidDays
<1>4. /\ IsFiniteSet(PaidDays(u)) /\ Cardinality(PaidDays(u)) \in Nat
      /\ Cardinality(PaidDays(u)) <= balance[u].used
  BY <1>1, PaidDaysFinite DEF IInv, DaysArePaid
<1>5. Cardinality(Days(form)) <= Cardinality(PaidDays(u))
  BY <1>3, <1>4, FS_Subset
<1> QED
  BY <1>1, <1>2, <1>4, <1>5

\* A review charges an approval, refunds a withdrawal, and otherwise changes nothing.
LEMMA ReviewFollowsLedger ==
    ASSUME LeaveAssumption, IInv, NEW a \in Users, NEW l \in Leaves,
           NEW new \in {"approved", "rejected"}, Review(a, l, new)
    PROVE  Ledger!Next \/ UNCHANGED Ledger!lvars
<1> DEFINE u == leaves[l].user
           form == leaves[l].form
           old == leaves[l].status
           d == Duration(form)
<1>0. /\ u \in Authors /\ form \in Form /\ leaves[l] \in LeaveRow /\ form.from <= form.to
      /\ leaves \in [Leaves -> LeaveRow] /\ balance \in [Authors -> [total : Nat, used : Nat]]
      /\ form.from \in Int /\ form.to \in Int
  BY DEF Review, IInv, TypeOK, WellFormed, LeaveRow, Form, Day, LeaveAssumption
<1>1. /\ leaves' = [leaves EXCEPT ![l].status = new]
      /\ balance' = [balance EXCEPT ![u].used = UsedAfter(@, form, old, new)]
      /\ new = "approved" => ~Clash(u, l, form)
      /\ new = "approved" /\ form.type = "annual" /\ old # "approved" => d <= Remaining(u)
  BY DEF Review
<1>2. d \in Nat /\ d = form.to - form.from + 1 /\ d > 0
  BY <1>0 DEF Duration
<1>3. /\ \A k \in Leaves \ {l} : leaves'[k] = leaves[k]
      /\ leaves'[l].user = u /\ leaves'[l].form = form /\ leaves'[l].status = new
      /\ Entry(l)' = Entry(l)
  BY <1>0, <1>1 DEF LeaveRow, Entry
<1>4. \A k \in Leaves \ {l} : Approved(k)' = Approved(k) /\ Entry(k)' = Entry(k)
  BY <1>3 DEF Approved, Entry
<1>5. Ledger!Cost(Entry(l)) = IF form.type = "annual" THEN d ELSE 0
  BY <1>2 DEF Ledger!Cost, Entry
<1>6. balance[u] \in [total : Nat, used : Nat] /\ balance[u].used \in Nat /\ balance[u].total \in Nat
  BY <1>0
<1>7. form.type = "annual" \/ form.type = "free"
  BY <1>0 DEF Form, LeaveTypes
<1>8. CASE old # "approved" /\ new = "approved"
  <2>1. Taken' = Taken \cup {Entry(l)}
    BY <1>3, <1>4, <1>8, OneEntryChanges DEF Approved
  <2>2. \A h \in Taken : h.id # l /\ ~Ledger!Meet(Entry(l), h)
    <3>1. SUFFICES ASSUME NEW k \in Leaves, Approved(k)
                   PROVE  k # l /\ ~Ledger!Meet(Entry(l), Entry(k))
      BY DEF Taken, Entry
    <3>2. k # l
      BY <1>8, <3>1 DEF Approved
    <3>3. leaves[k].form.from \in Int /\ leaves[k].form.to \in Int
      BY <1>0 DEF LeaveRow, Form, Day, LeaveAssumption
    <3>4. ~(leaves[k].user = u /\ Overlap(leaves[k].form, form))
      BY <1>1, <1>8, <3>1, <3>2 DEF Clash
    <3> QED
      BY <1>0, <3>2, <3>3, <3>4 DEF Ledger!Meet, Entry, Overlap
  <2>3. Ledger!Cost(Entry(l)) > 0 => balance[u].used + Ledger!Cost(Entry(l)) <= balance[u].total
    BY <1>1, <1>2, <1>5, <1>6, <1>8 DEF Remaining
  <2>4. balance' = [balance EXCEPT ![u].used = @ + Ledger!Cost(Entry(l))]
    <3>1. UsedAfter(balance[u].used, form, old, new) = balance[u].used + Ledger!Cost(Entry(l))
      BY <1>5, <1>6, <1>7, <1>8 DEF UsedAfter
    <3> QED
      BY <1>0, <1>1, <3>1
  <2>5. Entry(l).user = u /\ Entry(l).id = l
    BY DEF Entry
  <2>6. Ledger!Grant
    BY <2>1, <2>2, <2>3, <2>4, <2>5 DEF Ledger!Grant
  <2> QED
    BY <2>6 DEF Ledger!Next
<1>9. CASE old = "approved" /\ new = "rejected"
  <2>1. Taken' = Taken \ {Entry(l)} /\ Entry(l) \in Taken
    <3>1. Taken' = Taken \ {Entry(l)}
      BY <1>3, <1>4, <1>9, OneEntryChanges DEF Approved
    <3>2. Entry(l) \in Taken
      BY <1>9 DEF Approved, Taken, Entry
    <3> QED
      BY <3>1, <3>2
  <2>2. form.type = "annual" => d <= balance[u].used
    BY <1>9, ApprovedIsCovered DEF Approved
  <2>3. Ledger!Cost(Entry(l)) <= balance[u].used
    BY <1>5, <1>6, <2>2
  <2>4. balance' = [balance EXCEPT ![u].used = @ - Ledger!Cost(Entry(l))]
    <3>1. UsedAfter(balance[u].used, form, old, new) = balance[u].used - Ledger!Cost(Entry(l))
      BY <1>2, <1>5, <1>6, <1>7, <1>9, <2>2 DEF UsedAfter
    <3> QED
      BY <1>0, <1>1, <3>1
  <2>5. Entry(l).user = u
    BY DEF Entry
  <2>6. Ledger!Withdraw
    BY <2>1, <2>3, <2>4, <2>5 DEF Ledger!Withdraw
  <2> QED
    BY <2>6 DEF Ledger!Next
<1>10. CASE (old = "approved") = (new = "approved")
  <2>1. Taken' = Taken
    BY <1>3, <1>4, <1>10, OneEntryChanges DEF Approved
  <2>2. UsedAfter(balance[u].used, form, old, new) = balance[u].used
    BY <1>10 DEF UsedAfter
  <2>3. balance' = balance
    BY <1>0, <1>1, <2>2
  <2> QED
    BY <2>1, <2>3 DEF Ledger!lvars
<1> QED
  BY <1>8, <1>9, <1>10

\* A request that commits inserts a request that is not approved, or takes at most one
\* approval off the ledger without a refund.
LEMMA CommitFollowsLedger ==
    ASSUME LeaveAssumption, IInv, NEW t \in open, Commit(t)
    PROVE  Ledger!Next \/ UNCHANGED Ledger!lvars
<1>0. leaves \in [Leaves -> LeaveRow] /\ balance' = balance
  BY DEF IInv, TypeOK, Commit, CommitInsert, CommitEdit, CommitCancel, CommitLoss
<1>1. /\ t.kind \in {"insert", "edit", "cancel"} => t.key \in Leaves
      /\ t.kind = "loss" => t.release \cup t.cancel \subseteq Leaves
  BY DEF IInv, TypeOK, Insert, Edit, Cancelling, Loss
<1>2. CASE CommitInsert(t) \/ CommitEdit(t) \/ CommitCancel(t)
  <2>1. t.key \in Leaves
    BY <1>1, <1>2 DEF CommitInsert, CommitEdit, CommitCancel
  <2>2. /\ \A k \in Leaves \ {t.key} : leaves'[k] = leaves[k]
        /\ ~Approved(t.key)'
    BY <1>0, <1>2, <2>1 DEF CommitInsert, CommitEdit, CommitCancel, Approved, LeaveRow
  <2>3. \A k \in Leaves \ {t.key} : Approved(k)' = Approved(k) /\ Entry(k)' = Entry(k)
    BY <2>2 DEF Approved, Entry
  <2>4. CASE Approved(t.key)
    <3>1. Taken' = Taken \ {Entry(t.key)}
      BY <2>1, <2>2, <2>3, <2>4, OneEntryChanges
    <3>2. Entry(t.key) \in Taken
      BY <2>1, <2>4 DEF Taken, Entry
    <3> QED
      BY <1>0, <3>1, <3>2 DEF Ledger!Next, Ledger!Forfeit
  <2>5. CASE ~Approved(t.key)
    <3>1. Approved(t.key)' = Approved(t.key)
      BY <2>2, <2>5 DEF Approved
    <3>2. Taken' = Taken
      BY <2>1, <2>3, <2>5, <3>1, OneEntryChanges
    <3> QED
      BY <1>0, <3>2 DEF Ledger!lvars
  <2> QED
    BY <2>4, <2>5
<1>3. CASE CommitLoss(t)
  <2>1. \A k \in Leaves : leaves'[k] # leaves[k] => k \in t.release \cup t.cancel
    BY <1>3 DEF CommitLoss
  <2>2. \A k \in t.release \cup t.cancel : k \in Leaves /\ leaves[k].status = "pending"
    BY <1>1, <1>3 DEF CommitLoss, IInv, WellFormed
  <2>3. \A k \in t.release \cup t.cancel : leaves'[k].status \in {"pending", "cancelled"}
    BY <1>0, <1>3, <2>2, SettledRow DEF CommitLoss
  <2>4. \A k \in Leaves : Approved(k)' = Approved(k) /\ (Approved(k) => Entry(k)' = Entry(k))
    BY <2>1, <2>2, <2>3 DEF Approved, Entry
  <2>5. Taken' = Taken
    <3>1. /\ Taken = {Entry(k) : k \in {m \in Leaves : Approved(m)}}
          /\ Taken' = {Entry(k)' : k \in {m \in Leaves : Approved(m)'}}
      BY DEF Taken, Entry
    <3> HIDE DEF Entry, Approved
    <3> QED
      BY <2>4, <3>1
  <2> QED
    BY <1>0, <2>5 DEF Ledger!lvars
<1> QED
  BY <1>2, <1>3 DEF Commit

\* The approved requests and the balances implement the ledger: reviews grant and take
\* back, late edits and cancellations forfeit, set_balance sets totals, and nothing else
\* touches either.
THEOREM LeaveImplementsLedger == Spec => ImplementsLedger
<1>0. LeaveAssumption
  BY LeaveAssumption
<1>1. Init => Ledger!Init
  BY DEF Init, Ledger!Init, Taken, Approved, NoLeave
<1>2. IInv /\ [Next]_vars => [Ledger!Next]_(Ledger!lvars)
  <2> SUFFICES ASSUME IInv, [Next]_vars PROVE Ledger!Next \/ UNCHANGED Ledger!lvars
    OBVIOUS
  <2>1. ASSUME NEW a \in Users, NEW l \in Leaves, NEW new \in {"approved", "rejected"},
               Review(a, l, new)
        PROVE  Ledger!Next \/ UNCHANGED Ledger!lvars
    BY <1>0, <2>1, ReviewFollowsLedger
  <2>2. ASSUME NEW t \in open, Commit(t)
        PROVE  Ledger!Next \/ UNCHANGED Ledger!lvars
    BY <1>0, <2>2, CommitFollowsLedger
  <2>3. ASSUME NEW who, NEW total, SetTotals(who, total)
        PROVE  Ledger!Next \/ UNCHANGED Ledger!lvars
    <3>1. Taken' = Taken
      BY <2>3 DEF SetTotals, Taken, Approved
    <3>2. balance \in [Authors -> [total : Nat, used : Nat]]
      BY DEF IInv, TypeOK
    <3>3. /\ DOMAIN balance' = DOMAIN balance
          /\ \A u \in DOMAIN balance : balance'[u].used = balance[u].used
      BY <2>3, <3>2 DEF SetTotals
    <3> QED
      BY <3>1, <3>3 DEF Ledger!Next, Ledger!SetTotal
  <2>4. CASE leaves' = leaves /\ balance' = balance
    BY <2>4 DEF Ledger!lvars, Taken, Approved
  <2> QED
    BY <2>1, <2>2, <2>3, <2>4
       DEF Next, Abort, Create, PatchLeave, CancelLeave, LoseReviewer, Begin, SetAdmin, vars
<1> QED
  BY <1>1, <1>2, LeaveInvariant, PTL DEF Spec, ImplementsLedger, Ledger!Spec

\* No two leaves on the ledger share a day, which the ledger's own rules guarantee.
THEOREM LedgerStaysDisjoint == ImplementsLedger => []Ledger!Disjoint
<1>1. Ledger!Init => Ledger!Disjoint
  BY DEF Ledger!Init, Ledger!Disjoint
<1>2. Ledger!Disjoint /\ [Ledger!Next]_(Ledger!lvars) => Ledger!Disjoint'
  <2> SUFFICES ASSUME Ledger!Disjoint, [Ledger!Next]_(Ledger!lvars) PROVE Ledger!Disjoint'
    OBVIOUS
  <2>1. CASE Ledger!Grant
    <3>1. PICK g \in Taken' : Taken' = Taken \cup {g} /\ \A h \in Taken : ~Ledger!Meet(g, h)
      BY <2>1 DEF Ledger!Grant
    <3>2. \A h : Ledger!Meet(h, g) => Ledger!Meet(g, h)
      BY DEF Ledger!Meet
    <3> QED
      BY <3>1, <3>2 DEF Ledger!Disjoint
  <2>2. CASE Taken' \subseteq Taken
    BY <2>2 DEF Ledger!Disjoint
  <2> QED
    BY <2>1, <2>2 DEF Ledger!Next, Ledger!Withdraw, Ledger!Forfeit, Ledger!SetTotal, Ledger!lvars
<1> QED
  BY <1>1, <1>2, PTL DEF ImplementsLedger, Ledger!Spec
=============================================================================
