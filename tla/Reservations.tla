---------------------------- MODULE Reservations ----------------------------
(***************************************************************************)
(* The booking component (apps/bookings): reservations of resources,       *)
(* administrative blocks, cancellation audits and the periodic tasks.      *)
(*                                                                         *)
(* A request handled by a worker is ONE PostgreSQL transaction             *)
(* (ATOMIC_REQUESTS, READ COMMITTED).  It is two steps here: the handler,  *)
(* which takes its row locks, reads the committed rows and prepares its    *)
(* writes in tx[p], and Commit, which publishes them.  Between the two,    *)
(* other workers and the Celery tasks run.  A handler all of whose reads   *)
(* are protected by the rows it locks, or that is one SQL statement, is a  *)
(* single step.                                                            *)
(***************************************************************************)
EXTENDS Integers, FiniteSets

CONSTANTS
    Resources,      \* rows of the resources table
    Kind,           \* Kind[r]: resource_type
    Users,
    Tier,           \* Tier[u]: _booking_priority(u), 1..3
    MayBook,        \* MayBook[u]: the resources _validate_access lets u book
    Admins,         \* users whose role is superadmin or company_admin
    Ids,            \* bound: primary keys of bookings, an interval of naturals
    Workers,        \* bound: requests handled at the same time
    Horizon,        \* bound: the last instant of the clock
    OpenSlots,      \* OpenSlots[r]: slots within the hours and type rules of r
    FitSlots,       \* FitSlots[r]: slots within the min/max duration of r
    Series,         \* bound: sets of slots a recurring booking may generate
    BlockSlots,     \* bound: intervals administrators block
    PatchStatuses,  \* bound: statuses PATCH bodies carry
    Advance,        \* advance_booking_days
    OverrideLead,   \* PRIORITY_OVERRIDE_HOURS
    MinCancel,      \* min_cancel_minutes
    NoShowAfter,    \* NO_SHOW_MINUTES
    MaxActive       \* MAX_ACTIVE_BOOKINGS_PER_USER

VARIABLES
    now,        \* timezone.now()
    bookings,   \* committed rows of bookings
    audits,     \* bookings with a BookingCancellationAudit row
    blocks,     \* committed rows of resource_blocks
    tx,         \* tx[p]: the open transaction of worker p
    sweep,      \* auto_complete_bookings: ids read and not yet saved
    noShow      \* mark_no_show_bookings: ids its UPDATE has selected

vars == <<now, bookings, audits, blocks, tx, sweep, noShow>>

-----------------------------------------------------------------------------
(* Types *)

Slot == {s \in [start : Nat, end : Nat] : s.start < s.end}

\* "none": the key was never used; "deleted": the row was deleted.
Status  == {"none", "confirmed", "cancelled", "completed", "no_show", "deleted"}
Choices == {"confirmed", "cancelled", "completed", "no_show"}

Row == [res : Resources, user : Users, start : Nat, end : Nat,
        status : Status, prio : 1..3, checkedIn : BOOLEAN]

NoRow == [res |-> CHOOSE r \in Resources : TRUE, user |-> CHOOSE u \in Users : TRUE,
          start |-> 0, end |-> 0, status |-> "none", prio |-> 1,
          checkedIn |-> FALSE]

BlockRow == [res : Resources, start : Nat, end : Nat]

\* A transaction: the rows it has locked FOR UPDATE and the writes it has made,
\* visible to the others when it commits.
Tx == [open    : BOOLEAN,
       locks   : SUBSET Resources,    \* resource rows locked
       rows    : SUBSET Ids,          \* booking rows locked
       put     : [Ids -> Row],        \* inserts and full saves; NoRow: no write
       cancel  : SUBSET Ids,          \* rows saved with update_fields [status, ...]
       checkin : SUBSET Ids,          \* rows saved with update_fields [checked_in_at]
       audit   : SUBSET Ids,          \* audit rows created
       block   : SUBSET BlockRow,     \* resource_blocks rows created
       plain   : SUBSET Ids,          \* history: rows saved by a PATCH without times
       named   : SUBSET Ids]          \* history: rows whose status a PATCH body names

Idle == [open |-> FALSE, locks |-> {}, rows |-> {}, put |-> [b \in Ids |-> NoRow],
         cancel |-> {}, checkin |-> {}, audit |-> {}, block |-> {}, plain |-> {}, named |-> {}]

TypeOK ==
    /\ now \in 0 .. Horizon
    /\ bookings \in [Ids -> Row]
    /\ audits \in SUBSET Ids
    /\ blocks \in SUBSET BlockRow
    /\ tx \in [Workers -> Tx]
    /\ sweep \in SUBSET Ids
    /\ noShow \in SUBSET Ids

ASSUME ConstantsAssumption ==
    /\ Resources # {} /\ Users # {}
    /\ Ids \subseteq Nat
    /\ Horizon \in Nat /\ Advance \in Nat /\ OverrideLead \in Nat
    /\ MinCancel \in Nat /\ NoShowAfter \in Nat /\ MaxActive \in Nat
    /\ Admins \subseteq Users
    /\ Kind \in [Resources -> {"desk", "meeting_room", "parking", "capsule"}]
    /\ Tier \in [Users -> 1..3]
    /\ MayBook \in [Users -> SUBSET Resources]
    /\ OpenSlots \in [Resources -> SUBSET Slot]
    /\ FitSlots \in [Resources -> SUBSET Slot]
    /\ BlockSlots \subseteq Slot
    /\ PatchStatuses \subseteq Choices
    /\ Series \subseteq SUBSET Slot
    \* one occurrence per date, each within its date
    /\ \A S \in Series : \A s, t \in S : s = t \/ s.end <= t.start \/ t.end <= s.start

-----------------------------------------------------------------------------
(* Queries the handlers share *)

\* start_time__lt = end, end_time__gt = start
Overlaps(a, b) == a.start < b.end /\ a.end > b.start

Exists(b)    == bookings[b].status \notin {"none", "deleted"}
Confirmed(b) == bookings[b].status = "confirmed"

\* Mutant: only bookings within the slot conflict.
ConflictingWithin(r, slot, but) ==
    {b \in Ids \ but : /\ Confirmed(b) /\ bookings[b].res = r
                       /\ bookings[b].start >= slot.start /\ bookings[b].end <= slot.end}

\* booking_overlap_qs of _ensure_no_conflicts, `but` being exclude_booking_id.
Conflicting(r, slot, but) ==
    {b \in Ids \ but : Confirmed(b) /\ bookings[b].res = r /\ Overlaps(bookings[b], slot)}

Blocked(r, slot) == \E k \in blocks : k.res = r /\ Overlaps(k, slot)

\* Mutant: whoever books later displaces.
DisplaceableByAll(u, b) == bookings[b].start > now + OverrideLead

\* The filter displaceable: lower priority, and starting after the cutoff.
Displaceable(u, b) ==
    /\ bookings[b].prio < Tier[u]
    /\ bookings[b].start > now + OverrideLead

\* _ensure_no_user_desk_overlap raises.
DeskClash(u, r, slot, but) ==
    /\ Kind[r] = "desk"
    /\ \E b \in Ids \ but :
          /\ bookings[b].user = u /\ Kind[bookings[b].res] = "desk"
          /\ Confirmed(b) /\ Overlaps(bookings[b], slot)

\* _validate_user_active_limit counts these.
ActiveOf(u) == {b \in Ids : bookings[b].user = u /\ Confirmed(b) /\ bookings[b].end > now}

WithinAdvance(slot) == slot.start <= now + Advance

-----------------------------------------------------------------------------
(* Transactions *)

\* Mutant: the resource is read without FOR UPDATE.
ResourceUnlocked(r) == TRUE

\* A SELECT ... FOR UPDATE or an UPDATE of the row waits for these.
ResourceFree(r) == \A q \in Workers : r \notin tx[q].locks
RowFree(b)      == \A q \in Workers : b \notin tx[q].rows

\* Primary keys that no row has and no open transaction has drawn.
Fresh == {b \in Ids : /\ bookings[b].status = "none"
                      /\ \A q \in Workers : tx[q].put[b].status = "none"}

Least(b, S) == b \in S /\ \A c \in S : b <= c

Begin(p, t) ==
    /\ ~tx[p].open
    /\ tx' = [tx EXCEPT ![p] = t]
    /\ UNCHANGED <<now, bookings, audits, blocks, sweep, noShow>>

Writes(t) == {b \in Ids : t.put[b].status # "none"}

\* The row of b once the transaction t has committed.
After(t, b) ==
    IF b \in Writes(t) THEN t.put[b]
    ELSE IF b \in t.cancel THEN [bookings[b] EXCEPT !.status = "cancelled"]
    ELSE IF b \in t.checkin THEN [bookings[b] EXCEPT !.checkedIn = TRUE]
    ELSE bookings[b]

\* Foreign keys are checked when t commits (DEFERRABLE INITIALLY DEFERRED): the
\* resources t newly refers to are locked FOR KEY SHARE then.
Referred(t) == {k.res : k \in t.block} \cup
               {t.put[b].res : b \in {c \in Writes(t) : t.put[c].res # bookings[c].res}}

\* COMMIT.  The writes waited for the rows other transactions had locked; a save
\* with update_fields of a row that is gone raises, and the request aborts.
Commit(p) ==
    /\ tx[p].open
    /\ \A b \in Writes(tx[p]) \cup tx[p].cancel \cup tx[p].checkin :
          \A q \in Workers \ {p} : b \notin tx[q].rows
    /\ \A b \in tx[p].cancel \cup tx[p].checkin : Exists(b)
    /\ \A b \in tx[p].checkin : ResourceFree(bookings[b].res)
    /\ \A r \in Referred(tx[p]), q \in Workers \ {p} : r \notin tx[q].locks
    /\ bookings' = [b \in Ids |-> After(tx[p], b)]
    /\ audits' = audits \cup tx[p].audit
    /\ blocks' = blocks \cup tx[p].block
    /\ tx' = [tx EXCEPT ![p] = Idle]
    /\ UNCHANGED <<now, sweep, noShow>>

\* An exception after the reads (a notification, a vanished row), a lost
\* connection or PostgreSQL's choice of a deadlock victim: ROLLBACK.
Abort(p) ==
    /\ tx[p].open
    /\ tx' = [tx EXCEPT ![p] = Idle]
    /\ UNCHANGED <<now, bookings, audits, blocks, sweep, noShow>>

-----------------------------------------------------------------------------
(* Making and moving reservations: the resource row is locked first *)

\* BookingCreateSerializer.create, with the checks of validate() before it.
\* Clashing bookings of a lower tier are displaced: cancelled, without an audit row.
Create(p, u, r, slot) ==
    LET out == Conflicting(r, slot, {})
        row == [res |-> r, user |-> u, start |-> slot.start, end |-> slot.end,
                status |-> "confirmed", prio |-> Tier[u], checkedIn |-> FALSE]
    IN  /\ slot \in OpenSlots[r] \cap FitSlots[r]
        /\ slot.start > now /\ WithinAdvance(slot)
        /\ ResourceFree(r)
        /\ r \in MayBook[u]
        /\ \A b \in out : Displaceable(u, b)
        /\ ~Blocked(r, slot)
        /\ ~DeskClash(u, r, slot, {})
        /\ Cardinality(ActiveOf(u)) < MaxActive
        /\ \E b \in Fresh :
              /\ Least(b, Fresh)
              /\ Begin(p, [Idle EXCEPT !.open = TRUE, !.locks = {r}, !.put[b] = row,
                                       !.cancel = out])

\* create_bookings_for_recurring, run by the creation of a series and by the
\* weekly task: a booking of the default priority for every occurrence that is
\* not over and whose slot is free; the other dates are skipped.
MaterialiseSeries(p, u, r, slots) ==
    LET kept == {s \in slots : /\ s.end > now
                               /\ Conflicting(r, s, {}) = {}
                               /\ ~Blocked(r, s)}
        row(s) == [res |-> r, user |-> u, start |-> s.start, end |-> s.end,
                   status |-> "confirmed", prio |-> 1, checkedIn |-> FALSE]
    IN  /\ ResourceFree(r)
        /\ kept # {}
        /\ \E key \in [kept -> Fresh] :
              /\ \A s, t \in kept : s.start < t.start => key[s] < key[t]
              /\ \A b \in Fresh, s \in kept :
                    b < key[s] => \E t \in kept : key[t] = b
              /\ Begin(p, [Idle EXCEPT
                    !.open = TRUE, !.locks = {r},
                    !.put = [b \in Ids |-> IF \E s \in kept : key[s] = b
                                           THEN row(CHOOSE s \in kept : key[s] = b)
                                           ELSE NoRow]])

\* The writable fields of BookingSerializer other than the times, as a PATCH body
\* may carry them.
Unset == "unset"
Body == [status : PatchStatuses \cup {Unset}, res : Resources \cup {Unset}]
TimesOnly == [status |-> Unset, res |-> Unset]

\* The status is among them.
Named(b, body) == IF body.status = Unset THEN {} ELSE {b}

Edited(row, body) ==
    [row EXCEPT !.status = IF body.status = Unset THEN @ ELSE body.status,
                !.res    = IF body.res = Unset THEN @ ELSE body.res]

\* Mutant: the checks run, but on rows read without FOR UPDATE.
RescheduleUnlocked(p, u, b, slot, body) ==
    /\ Exists(b)
    /\ slot \in OpenSlots[bookings[b].res] /\ WithinAdvance(slot)
    /\ Conflicting(bookings[b].res, slot, {b}) = {} /\ ~Blocked(bookings[b].res, slot)
    /\ Begin(p, [Idle EXCEPT !.open = TRUE, !.named = Named(b, body),
          !.put[b] = Edited([bookings[b] EXCEPT !.start = slot.start, !.end = slot.end], body)])

\* partial_update with start_time and end_time: the booking (joined with its
\* resource) is locked and the create-time checks run again, except the duration
\* limits, the future-start check and the active limit.  No displacement.
Reschedule(p, u, b, slot, body) ==
    LET r == bookings[b].res
        moved == [bookings[b] EXCEPT !.start = slot.start, !.end = slot.end]
    IN  /\ Exists(b)
        /\ RowFree(b) /\ ResourceFree(r)
        /\ slot \in OpenSlots[r] /\ WithinAdvance(slot)
        /\ Conflicting(r, slot, {b}) = {} /\ ~Blocked(r, slot)
        /\ ~DeskClash(u, r, slot, {b})
        /\ Begin(p, [Idle EXCEPT !.open = TRUE, !.locks = {r}, !.rows = {b},
                                 !.put[b] = Edited(moved, body), !.named = Named(b, body)])

\* partial_update without times: UpdateModelMixin saves every column of the row it
\* read, no row locked and nothing checked.
PlainPatch(p, b, body) ==
    /\ Exists(b)
    /\ Begin(p, [Idle EXCEPT !.open = TRUE, !.put[b] = Edited(bookings[b], body),
                             !.plain = {b}, !.named = Named(b, body)])

-----------------------------------------------------------------------------
(* Ending reservations *)

\* cancel: reads without a lock, then saves every column.
Cancel(p, b) ==
    /\ Exists(b) /\ bookings[b].status # "cancelled"
    /\ bookings[b].start > now
    /\ bookings[b].start - now >= MinCancel
    /\ Begin(p, [Idle EXCEPT !.open = TRUE, !.audit = {b},
                    !.put[b] = [bookings[b] EXCEPT !.status = "cancelled"]])

\* admin_cancel: whatever the status and the time.  It uses nothing of the row it
\* read, so the request is one step.
AdminCancel(b) ==
    /\ Exists(b) /\ RowFree(b)
    /\ bookings' = [bookings EXCEPT ![b].status = "cancelled"]
    /\ audits' = audits \cup {b}
    /\ UNCHANGED <<now, blocks, tx, sweep, noShow>>

\* Mutant: the skipped ids are audited too.
BulkCancelAuditingAll(p, u, ids) ==
    LET taken == {b \in ids : /\ Exists(b) /\ bookings[b].status # "cancelled"
                              /\ bookings[b].start > now
                              /\ u \in Admins \/ bookings[b].user = u}
    IN  Begin(p, [Idle EXCEPT !.open = TRUE, !.cancel = taken,
                     !.audit = {b \in ids : Exists(b)}])

\* bulk_cancel: the ids it does not skip, from one read of them all.
BulkCancel(p, u, ids) ==
    LET taken == {b \in ids : /\ Exists(b) /\ bookings[b].status # "cancelled"
                              /\ bookings[b].start > now
                              /\ u \in Admins \/ bookings[b].user = u}
    IN  /\ taken # {}
        /\ Begin(p, [Idle EXCEPT !.open = TRUE, !.cancel = taken,
                                 !.audit = taken])

\* DELETE of a reservation; its audit rows go with it (CASCADE).
Delete(b) ==
    /\ Exists(b) /\ RowFree(b)
    /\ bookings' = [bookings EXCEPT ![b] = [NoRow EXCEPT !.status = "deleted"]]
    /\ audits' = audits \ {b}
    /\ UNCHANGED <<now, blocks, tx, sweep, noShow>>

\* check_in: every row it reads is locked.
CheckIn(b) ==
    /\ Exists(b) /\ RowFree(b) /\ ResourceFree(bookings[b].res)
    /\ now >= bookings[b].start
    /\ Confirmed(b) /\ ~bookings[b].checkedIn
    /\ bookings' = [bookings EXCEPT ![b].checkedIn = TRUE]
    /\ UNCHANGED <<now, audits, blocks, tx, sweep, noShow>>

\* validate_qr: the checks read an unlocked row; the row is locked only to save.
ScanQr(p, b) ==
    /\ Exists(b) /\ Kind[bookings[b].res] = "capsule"
    /\ Confirmed(b)
    /\ bookings[b].start <= now /\ now <= bookings[b].end
    /\ Begin(p, [Idle EXCEPT !.open = TRUE, !.checkin = {b}])

-----------------------------------------------------------------------------
(* Resources *)

\* deactivate: saving is_active locks the resource row, then each confirmed booking
\* that is not over is saved in full, without an audit row.  is_active itself is not
\* kept: no handler of a booking reads it, and activate sets it again at any time.
Deactivate(p, r) ==
    LET future == {b \in Ids : bookings[b].res = r /\ Confirmed(b) /\ bookings[b].end > now}
    IN  /\ ResourceFree(r)
        /\ Begin(p, [Idle EXCEPT !.open = TRUE, !.locks = {r},
              !.put = [b \in Ids |->
                 IF b \in future
                 THEN [bookings[b] EXCEPT !.status = "cancelled"]
                 ELSE NoRow]])

\* block: the block is inserted and the bookings it overlaps are cancelled; the
\* resource row is not locked.
Block(p, r, slot) ==
    LET hit == Conflicting(r, slot, {})
    IN  Begin(p, [Idle EXCEPT !.open = TRUE, !.cancel = hit, !.audit = hit,
                     !.block = {[res |-> r, start |-> slot.start, end |-> slot.end]}])

Unblock(k) ==
    /\ blocks' = blocks \ {k}
    /\ UNCHANGED <<now, bookings, audits, tx, sweep, noShow>>

-----------------------------------------------------------------------------
(* Periodic tasks (autocommit: each statement is its own transaction) *)

\* Mutant: bookings somebody checked in to are left out.
StartAutoCompleteAbsent ==
    LET over == {b \in Ids : Confirmed(b) /\ bookings[b].end < now /\ ~bookings[b].checkedIn}
    IN  /\ ~(over \subseteq sweep)
        /\ sweep' = sweep \cup over
        /\ UNCHANGED <<now, bookings, audits, blocks, tx, noShow>>

\* auto_complete_bookings evaluates its queryset once...
StartAutoComplete ==
    LET over == {b \in Ids : Confirmed(b) /\ bookings[b].end < now}
    IN  /\ ~(over \subseteq sweep)
        /\ sweep' = sweep \cup over
        /\ UNCHANGED <<now, bookings, audits, blocks, tx, noShow>>

\* ... and saves the status of one booking after the other, as it was not read
\* again.  A booking that is gone makes save() raise and ends the run.
CompleteOne(b) ==
    /\ b \in sweep
    /\ RowFree(b)
    /\ \/ /\ Exists(b)
          /\ bookings' = [bookings EXCEPT ![b].status = "completed"]
          /\ sweep' = sweep \ {b}
       \/ /\ ~Exists(b)
          /\ bookings' = bookings
          /\ sweep' = {}
    /\ UNCHANGED <<now, audits, blocks, tx, noShow>>

\* mark_no_show_bookings is UPDATE ... WHERE id IN (SELECT ...): the subquery is
\* evaluated on the rows committed when the statement starts...
StartNoShow ==
    /\ noShow = {}
    /\ noShow' = {b \in Ids : /\ Confirmed(b) /\ ~bookings[b].checkedIn
                              /\ Kind[bookings[b].res] = "meeting_room"
                              /\ bookings[b].start + NoShowAfter <= now
                              /\ bookings[b].end > now}
    /\ noShow' # {}
    /\ UNCHANGED <<now, bookings, audits, blocks, tx, sweep>>

\* ... and after waiting for a locked row PostgreSQL rechecks only id IN (...).
FinishNoShow ==
    /\ noShow # {}
    /\ \A b \in noShow : RowFree(b)
    /\ bookings' = [b \in Ids |-> IF b \in noShow /\ Exists(b)
                                  THEN [bookings[b] EXCEPT !.status = "no_show"]
                                  ELSE bookings[b]]
    /\ noShow' = {}
    /\ UNCHANGED <<now, audits, blocks, tx, sweep>>

\* The task worker is killed between two statements.
TaskCrash ==
    /\ sweep # {} \/ noShow # {}
    /\ sweep' = {} /\ noShow' = {}
    /\ UNCHANGED <<now, bookings, audits, blocks, tx>>

Tick ==
    /\ now < Horizon
    /\ now' = now + 1
    /\ UNCHANGED <<bookings, audits, blocks, tx, sweep, noShow>>

-----------------------------------------------------------------------------
(* Specification *)

Init ==
    /\ now = 0
    /\ bookings = [b \in Ids |-> NoRow]
    /\ audits = {}
    /\ blocks = {}
    /\ tx = [p \in Workers |-> Idle]
    /\ sweep = {}
    /\ noShow = {}

\* Requests whose PATCH bodies carry the times and nothing else.
Request(p) ==
    \/ \E u \in Users, r \in Resources :
          \/ \E slot \in OpenSlots[r] : Create(p, u, r, slot)
          \/ \E slots \in Series : MaterialiseSeries(p, u, r, slots)
    \/ \E u \in Users, b \in Ids : \E slot \in OpenSlots[bookings[b].res] :
          Reschedule(p, u, b, slot, TimesOnly)
    \/ \E b \in Ids : Cancel(p, b) \/ ScanQr(p, b)
    \/ \E u \in Users, ids \in SUBSET Ids : BulkCancel(p, u, ids)
    \/ \E r \in Resources : Deactivate(p, r) \/ \E slot \in BlockSlots : Block(p, r, slot)
    \/ Commit(p)
    \/ Abort(p)

\* Requests that are one step, the periodic tasks and the clock.
Single ==
    \/ \E b \in Ids : AdminCancel(b) \/ Delete(b) \/ CheckIn(b) \/ CompleteOne(b)
    \/ \E k \in blocks : Unblock(k)
    \/ StartAutoComplete \/ StartNoShow \/ FinishNoShow \/ TaskCrash
    \/ Tick

\* The calendar discipline: only handlers that lock the resource reserve time.  No PATCH
\* without times, and none that carries more than the times.
LockedNext == Single \/ \E p \in Workers : Request(p)

\* Every PATCH body the API accepts.
AnyPatch(p) ==
    \E b \in Ids, body \in Body :
        \/ PlainPatch(p, b, body)
        \/ \E u \in Users, slot \in OpenSlots[bookings[b].res] : Reschedule(p, u, b, slot, body)

Next == LockedNext \/ \E p \in Workers : AnyPatch(p)

\* Requests end, one way or the other; the beat runs auto_complete_bookings every
\* 5 minutes, a save waiting for a row gets its turn in the row's lock queue, and
\* the task worker is not killed for ever.
Fairness ==
    /\ \A p \in Workers : WF_vars(Commit(p) \/ Abort(p))
    /\ WF_vars(StartAutoComplete)
    /\ \A b \in Ids : SF_vars(CompleteOne(b))
    /\ <>[][~TaskCrash]_vars

LockedSpec == Init /\ [][LockedNext]_vars
Spec == Init /\ [][Next]_vars
FairSpec == Spec /\ Fairness

-----------------------------------------------------------------------------
(* Properties *)

\* "It is impossible to book a slot that is taken, even if two people clicked at
\* the same time" (NewLevelHub-MVP.md:488): two confirmed bookings of a resource
\* never overlap.
NoDoubleBooking ==
    \A b, c \in Ids :
        b # c /\ Confirmed(b) /\ Confirmed(c) /\ bookings[b].res = bookings[c].res
            => ~Overlaps(bookings[b], bookings[c])

\* SELECT ... FOR UPDATE: a row is locked by one transaction.
LocksExclusive ==
    \A p, q \in Workers :
        p # q => tx[p].locks \cap tx[q].locks = {} /\ tx[p].rows \cap tx[q].rows = {}

\* The time t reserves is on a resource t has locked and clashes with no reservation
\* there would be if t committed now.
ReservesClearTime(t) ==
    \A b \in Ids : t.put[b].status = "confirmed" =>
        /\ t.put[b].res \in t.locks
        /\ \A c \in Ids \ {b} :
              After(t, c).status = "confirmed" /\ After(t, c).res = t.put[b].res
                  => ~Overlaps(t.put[b], After(t, c))

\* The checks an open transaction made under its lock hold until it commits.
PendingIsClear == \A p \in Workers : ReservesClearTime(tx[p])

\* The inductive invariant behind NoDoubleBooking: the calendar is free of overlaps
\* because what is about to be written is, too.
IInv == TypeOK /\ LocksExclusive /\ PendingIsClear /\ NoDoubleBooking

\* A whole row about to be saved as confirmed is a row nobody else can have written
\* since it was read: a new key, or a booking that is locked.
SavesWhatItLocked ==
    \A p \in Workers, b \in Ids : tx[p].put[b].status = "confirmed" =>
        \/ /\ bookings[b].status = "none"
           /\ \A q \in Workers \ {p} : tx[q].put[b].status = "none"
        \/ /\ b \in tx[p].rows
           /\ Confirmed(b) /\ bookings[b].checkedIn = tx[p].put[b].checkedIn

\* The booking component seen as a calendar: what SlotCalendar allows is all that
\* happens to the confirmed bookings.  A booking loses its slot to a new one only
\* if the two clash and the new one has a higher tier.
Held == {[id |-> b, res |-> bookings[b].res, start |-> bookings[b].start,
          end |-> bookings[b].end, prio |-> bookings[b].prio] :
            b \in {c \in Ids : Confirmed(c)}}
Calendar == INSTANCE SlotCalendar WITH held <- Held
ImplementsCalendar == Calendar!Spec

\* Any PATCH without times, whatever it edits, writes back every column as it was read
\* without a lock (views.py:1617), status and checked_in_at included: it can confirm again a
\* booking cancelled since, and take back a check-in made since.  The next two properties say
\* that nothing else does, whatever requests and tasks run beside each other.

\* A booking that was cancelled, completed, marked no-show or deleted is confirmed again only
\* by the save of a PATCH without times, or of one whose body names the status.
NoRevival ==
    [][\A b \in Ids :
          bookings[b].status \notin {"none", "confirmed"} /\ bookings'[b].status = "confirmed"
              => \E p \in Workers : Commit(p) /\ b \in tx[p].plain \cup tx[p].named]_vars

\* While a reservation holds its slot, its check-in is lost only to the save of a PATCH
\* without times: the QR scan, the reschedule and the tasks keep it.
CheckInKept ==
    [][\A b \in Ids :
          Confirmed(b) /\ bookings[b].checkedIn /\ bookings'[b].status = "confirmed"
              => \/ bookings'[b].checkedIn
                 \/ \E p \in Workers : Commit(p) /\ b \in tx[p].plain]_vars

\* A cancellation audit row never stands beside a reservation that still holds its
\* slot: the audits are written with the cancellation or not at all.  (Under LockedSpec: a
\* PATCH without times may confirm a booking again, see NoRevival.)
AuditedIsReleased == \A b \in audits : ~Confirmed(b)

\* auto_complete_bookings settles every booking that has ended, however it is
\* rescheduled, locked or raced, and although the task may be killed.
EndedIsSettled ==
    \A b \in Ids : (Confirmed(b) /\ bookings[b].end < now)
                       ~> ~(Confirmed(b) /\ bookings[b].end < now)

\* "Overlapping bookings are cancelled automatically; conflict control takes
\* ResourceBlock into account" (tickets.md:506-507).
BlocksAreEmpty ==
    \A b \in Ids, k \in blocks :
        Confirmed(b) /\ bookings[b].res = k.res => ~Overlaps(bookings[b], k)

\* "auto-complete confirmed bookings whose end_time is in the past"
\* (src/apps/bookings/tasks.py:107): only those are completed.
CompletesOnlyConfirmed ==
    [][\A b \in Ids :
          bookings[b].status # "completed" /\ bookings'[b].status = "completed"
              => Confirmed(b) /\ bookings[b].end < now]_vars
=============================================================================
