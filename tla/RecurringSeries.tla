-------------------------- MODULE RecurringSeries --------------------------
(***************************************************************************)
(* The series of recurring bookings of one resource (apps/bookings): a     *)
(* series is created with the bookings up to its last date, and a task     *)
(* that runs on Mondays moves the last date on and creates the bookings    *)
(* up to there.                                                            *)
(*                                                                         *)
(* All bookings of the model take the same hours, so two on one date       *)
(* clash.  A request that reads without a lock and writes later is two     *)
(* steps, its record in `open`; the task commits one series at a time and  *)
(* may die anywhere.  Requests made during the hours of a booking are left *)
(* out, and so are a PATCH of a series that changes more than its end and  *)
(* its switch, and one of a booking that changes more than its times.      *)
(***************************************************************************)
EXTENDS Integers, FiniteSets

CONSTANTS
    Series,     \* bound: primary keys of series
    None,       \* NULL
    Week,       \* days of a week: 7
    Ahead,      \* bound: how many days ahead bookings are made
    Ends,       \* bound: how many days ahead a PATCH may set the end
    LastDay,    \* bound: the last day
    MaxOpen,    \* bound: requests handled at the same time
    MaxOthers   \* bound: bookings at the same time that no series made where they are

VARIABLES
    today,      \* the date
    over,       \* the hours of today's booking are over
    monday,     \* the last Monday
    started,    \* the task has been started this week
    series,     \* series[s]: the row of recurring_bookings
    rows,       \* the rows of bookings, from today on
    open,       \* requests that have read and not yet written
    run,        \* the task: what it has still to do; empty when it does not run
    seen,       \* history: seen[s], the dates a materialisation has looked at
    edited,     \* history: series a PATCH has saved
    promised,   \* history: weekly series that were to go on and were not edited
    faulty      \* history: a run of the task was missed or has died

vars == <<today, over, monday, started, series, rows, open, run, seen, edited, promised, faulty>>

ASSUME SeriesAssumption ==
    /\ None \notin Series
    /\ {Ahead, LastDay, MaxOthers} \cup Ends \subseteq Nat
    /\ {Week, MaxOpen} \subseteq Nat \ {0}

-----------------------------------------------------------------------------
(* Reading *)

Kind == {"weekly", "daily"}

\* "none" is a key without a row, "gone" the key of a deleted one.
Template == [status : {"none", "live", "gone"}, kind : Kind, day : Nat, active : BOOLEAN,
             from : Nat, until : Nat]
NoSeries == [status |-> "none", kind |-> "weekly", day |-> 0, active |-> FALSE,
             from |-> 0, until |-> 0]
Deleted  == [NoSeries EXCEPT !.status = "gone"]

\* Rows that agree in every column are one element; nothing counts them.
BookingRow == [series : Series \cup {None}, date : Nat,
               status : {"confirmed", "cancelled"},
               moved : BOOLEAN]     \* history: rescheduled

Live(s) == series[s].status = "live"

Ended(d) == d < today \/ (d = today /\ over)

\* _matching_dates
Matching(row, first, last) ==
    {d \in first .. last : row.kind = "daily" \/ d % Week = row.day}

\* Mutant: only bookings of series are in the way.
FreeOfSeries(d) == \A b \in rows : b.date = d /\ b.series # None => b.status # "confirmed"

\* _ensure_no_conflicts
Free(d) == \A b \in rows : b.date = d => b.status # "confirmed"

\* Mutant: only a confirmed booking is found again.
KnownConfirmed(s, d) ==
    \E b \in rows : b.series = s /\ b.date = d /\ b.status = "confirmed"

\* get_or_create looks for a booking of the series on that date, whatever became of it.
Known(s, d) == \E b \in rows : b.series = s /\ b.date = d

\* The dates on which create_bookings_for_recurring creates a booking.
Missing(s, dates) == {d \in dates : ~Ended(d) /\ Free(d) /\ ~Known(s, d)}

Confirmed(s, dates) ==
    {[series |-> s, date |-> d, status |-> "confirmed", moved |-> FALSE] : d \in dates}

\* get_or_create raises when it finds two: of the bookings that were on a date and
\* cancelled, one has been moved there.
Ambiguous(s, dates) ==
    \E a, b \in rows : /\ a # b /\ a.series = s /\ b.series = s /\ a.date = b.date
                       /\ a.date \in dates /\ Free(a.date)

-----------------------------------------------------------------------------
(* Requests about series *)

Clock == <<today, over, monday, started>>
Task  == <<run, faulty>>

\* The duplicate-series guard.
Duplicate(row) ==
    \E s \in Series :
        /\ Live(s) /\ series[s].active
        /\ series[s].kind = row.kind /\ (row.kind = "weekly" => series[s].day = row.day)
        /\ series[s].from <= row.until /\ today <= series[s].until

\* validate of a new series; valid_from is the first matching date.
CreateSeries(s, row) ==
    /\ Cardinality(open) < MaxOpen
    /\ series[s].status = "none" /\ \A t \in open : t.series # s
    /\ row.from \in Matching(row, today, row.until)
    /\ \A d \in Matching(row, today, row.until) : row.from <= d
    /\ ~Duplicate(row)
    /\ \E d \in Matching(row, row.from, row.until) : ~Ended(d)
    /\ open' = open \cup {[kind |-> "create", series |-> s, row |-> row]}
    /\ UNCHANGED <<Clock, series, rows, Task, seen, edited, promised>>

\* The rest of create, under the lock of the resource.
CommitCreate(t) ==
    LET dates == Matching(t.row, t.row.from, t.row.until) IN
    /\ t \in open /\ t.kind = "create"
    /\ series' = [series EXCEPT ![t.series] = t.row]
    /\ rows' = rows \cup Confirmed(t.series, Missing(t.series, dates))
    /\ seen' = [seen EXCEPT ![t.series] = dates]
    /\ promised' = IF t.row.kind = "weekly" /\ monday + Week <= t.row.until
                   THEN promised \cup {t.series} ELSE promised
    /\ open' = open \ {t}
    /\ UNCHANGED <<Clock, Task, edited>>

\* PATCH reads the row and saves it whole, with a new end or switched on or off.
PatchSeries(s, until, active) ==
    /\ Cardinality(open) < MaxOpen
    /\ Live(s)
    /\ open' = open \cup {[kind |-> "patch", series |-> s,
                           row |-> [series[s] EXCEPT !.until = until, !.active = active]]}
    /\ UNCHANGED <<Clock, series, rows, Task, seen, edited, promised>>

\* save() of a row that has been deleted meanwhile inserts it again.  No bookings are
\* made: the dates up to a later end, or of a row inserted again, are left out, and the
\* task goes on after that end.
CommitPatch(t) ==
    /\ t \in open /\ t.kind = "patch"
    /\ series' = [series EXCEPT ![t.series] = t.row]
    /\ edited' = edited \cup {t.series}
    /\ promised' = promised \ {t.series}
    /\ open' = open \ {t}
    /\ UNCHANGED <<Clock, rows, Task, seen>>

\* destroy, first statement: the bookings of the series that have not begun.
DestroySeries(s) ==
    /\ Cardinality(open) < MaxOpen
    /\ Live(s)
    /\ open' = open \cup {[kind |-> "destroy", series |-> s,
                           victims |-> {b \in rows : b.series = s}]}
    /\ UNCHANGED <<Clock, series, rows, Task, seen, edited, promised>>

\* The rest: the series is deleted, and bookings that came since are left without one.
CommitDestroy(t) ==
    /\ t \in open /\ t.kind = "destroy"
    /\ series' = [series EXCEPT ![t.series] = Deleted]
    /\ promised' = promised \ {t.series}
    /\ LET left == {b \in rows : b.series = t.series /\ b.status = "confirmed"} \ t.victims IN
       rows' = {b \in rows : b.series # t.series} \cup {[b EXCEPT !.series = None] : b \in left}
    /\ open' = open \ {t}
    /\ UNCHANGED <<Clock, Task, seen, edited>>

\* ATOMIC_REQUESTS: a request that fails leaves nothing.
Abort(t) ==
    /\ t \in open
    /\ open' = open \ {t}
    /\ UNCHANGED <<Clock, series, rows, Task, seen, edited, promised>>

-----------------------------------------------------------------------------
(* Requests about bookings *)

\* A cancelled booking outside a series is never read again and not kept.
Cancelled(B) == {[b EXCEPT !.status = "cancelled"] : b \in {b \in B : b.series # None}}

\* A row that a deletion under way has removed is locked.
Unlocked(b) == \A t \in open : t.kind = "destroy" => b \notin t.victims

Others == {b \in rows : b.series = None \/ b.moved}

\* A booking of its own, or a block, on a free date.  One that displaces another is Cancel
\* and Book.
Book(d) ==
    /\ ~Ended(d) /\ d <= today + Ahead
    /\ Free(d)
    /\ Cardinality(Others) < MaxOthers
    /\ rows' = rows \cup Confirmed(None, {d})
    /\ UNCHANGED <<Clock, series, open, Task, seen, edited, promised>>

Cancel(b) ==
    /\ b \in rows /\ b.status = "confirmed" /\ Unlocked(b)
    /\ rows' = (rows \ {b}) \cup Cancelled({b})
    /\ UNCHANGED <<Clock, series, open, Task, seen, edited, promised>>

\* partial_update with the times: whatever became of the booking, it goes to a date on which
\* no other is confirmed, and stays with its series.
Reschedule(b, d) ==
    /\ b \in rows /\ Unlocked(b) /\ ~Ended(d)
    /\ Cardinality(Others \ {b}) < MaxOthers
    /\ \A c \in rows \ {b} : c.date = d => c.status # "confirmed"
    /\ rows' = (rows \ {b}) \cup {[b EXCEPT !.date = d, !.moved = b.series # None]}
    /\ UNCHANGED <<Clock, series, open, Task, seen, edited, promised>>

\* destroy, or a move to other hours or into the past.
Delete(b) ==
    /\ b \in rows /\ Unlocked(b)
    /\ rows' = rows \ {b}
    /\ UNCHANGED <<Clock, series, open, Task, seen, edited, promised>>

\* deactivate of the company the series belong to: its bookings are cancelled, its series
\* are not looked at.
DeactivateCompany ==
    /\ \A b \in rows : b.series # None => Unlocked(b)
    /\ rows' = {b \in rows : b.series = None} \cup Cancelled(rows)
    /\ UNCHANGED <<Clock, series, open, Task, seen, edited, promised>>

-----------------------------------------------------------------------------
(* generate_recurring_bookings *)

\* Mutant: a series that ends today is not extended.
ExtendableLater(s) == Live(s) /\ series[s].active /\ today < series[s].until

Extendable(s) == Live(s) /\ series[s].active /\ today <= series[s].until

\* The rows are read at once, in the night to Monday; "made" says that the bookings of
\* the next period have been committed and the new end has not.
StartRun ==
    /\ today = monday /\ ~over /\ ~started /\ run = {}
    /\ started' = TRUE
    /\ run' = {[series |-> s, row |-> series[s], made |-> FALSE] :
                    s \in {s \in Series : Extendable(s)}}
    /\ UNCHANGED <<today, over, monday, series, rows, open, seen, edited, promised, faulty>>

\* advance_days
NextEnd(row) == row.until + (IF row.kind = "daily" THEN 1 ELSE Week)

\* From the day after the end to the next end.
Period(row) == Matching(row, row.until + 1, NextEnd(row))

\* Nothing is made while another series is half done: they are taken one by one.
Idle == \A x \in run : ~x.made

Materialise(x) ==
    LET dates == Period(x.row) IN
    /\ Idle /\ x \in run
    /\ Missing(x.series, dates) # {} => Live(x.series)
    /\ ~Ambiguous(x.series, dates)
    /\ rows' = rows \cup Confirmed(x.series, Missing(x.series, dates))
    /\ seen' = [seen EXCEPT ![x.series] = @ \cup dates]
    /\ run' = (run \ {x}) \cup {[x EXCEPT !.made = TRUE]}
    /\ UNCHANGED <<Clock, series, open, edited, promised, faulty>>

\* Mutant: the end is saved first.
ReadyAlways(x) == TRUE

Ready(x) == x.made

SaveEnd(x) ==
    /\ x \in run /\ Ready(x)
    /\ Live(x.series)
    /\ series' = [series EXCEPT ![x.series].until = NextEnd(x.row)]
    /\ run' = run \ {x}
    /\ UNCHANGED <<Clock, rows, open, seen, edited, promised, faulty>>

\* The worker is stopped, the series it was about to write has been deleted, or
\* get_or_create raises.
RunDies ==
    /\ run # {}
    /\ run' = {}
    /\ faulty' = TRUE
    /\ UNCHANGED <<Clock, series, rows, open, seen, edited, promised>>

-----------------------------------------------------------------------------
(* Time *)

\* The bookings of days gone by are never read again and not kept.
HoursPass ==
    /\ ~over
    /\ over' = TRUE
    /\ rows' = {b \in rows : b.date > today}
    /\ UNCHANGED <<today, monday, started, series, open, Task, seen, edited, promised>>

\* The task is done by midnight; beat may have been down on a Monday.
NextDay ==
    /\ over /\ run = {} /\ today < LastDay
    /\ today' = today + 1
    /\ over' = FALSE
    /\ IF today + 1 = monday + Week THEN monday' = today + 1 /\ started' = FALSE
                                    ELSE UNCHANGED <<monday, started>>
    /\ faulty' = (faulty \/ (today = monday /\ ~started))
    /\ UNCHANGED <<series, rows, open, run, seen, edited, promised>>

Init ==
    /\ today = 0 /\ over = FALSE /\ monday = 0 /\ started = FALSE
    /\ series = [s \in Series |-> NoSeries]
    /\ rows = {} /\ open = {} /\ run = {}
    /\ seen = [s \in Series |-> {}]
    /\ edited = {} /\ promised = {} /\ faulty = FALSE

\* What a client may ask for; a daily series has no day of the week.
Wanted == {row \in [status : {"live"}, kind : Kind, day : 0 .. Week - 1, active : {TRUE},
                    from : today .. today + Ahead, until : today .. today + Ahead] :
              row.kind = "daily" => row.day = 0}

OnSeries ==
    \/ \E s \in Series, row \in Wanted : CreateSeries(s, row)
    \/ \E s \in Series, days \in Ends, active \in BOOLEAN :
          PatchSeries(s, today + days, active)
    \/ \E s \in Series : DestroySeries(s)
    \/ \E t \in open : CommitCreate(t) \/ CommitPatch(t) \/ CommitDestroy(t) \/ Abort(t)

OnBooking ==
    \/ \E d \in today .. today + Ahead : Book(d)
    \/ \E b \in rows : Cancel(b) \/ Delete(b)
    \/ \E b \in rows, d \in today .. today + Ahead : Reschedule(b, d)
    \/ DeactivateCompany

Generate ==
    \/ StartRun \/ RunDies
    \/ \E x \in run : Materialise(x) \/ SaveEnd(x)

Next == OnSeries \/ OnBooking \/ Generate \/ HoursPass \/ NextDay

Spec == Init /\ [][Next]_vars

-----------------------------------------------------------------------------
(* Properties *)

TypeOK ==
    /\ today \in Nat /\ monday \in Nat /\ monday <= today /\ today < monday + Week
    /\ over \in BOOLEAN /\ started \in BOOLEAN /\ faulty \in BOOLEAN
    /\ series \in [Series -> Template]
    /\ rows \subseteq BookingRow
    /\ open \subseteq [kind : {"create", "patch"}, series : Series, row : Template]
                \cup [kind : {"destroy"}, series : Series, victims : SUBSET BookingRow]
    /\ run \subseteq [series : Series, row : Template, made : BOOLEAN]
    /\ seen \in [Series -> SUBSET Nat]
    /\ edited \subseteq Series /\ promised \subseteq Series

\* However series are created, extended, deleted and extended again after a crash, one
\* booking at most is confirmed on a date.
OnePerDate ==
    \A a, b \in rows : a.date = b.date /\ a.status = "confirmed" /\ b.status = "confirmed"
                       => a = b

\* A period that is made again, after a crash or an edit of the end, finds the bookings it
\* made before: an occurrence that was cancelled does not come back beside the old row.
\* Only a rescheduled booking may share its date with another of the series.
MadeOnce ==
    \A a, b \in rows : a.series # None /\ a.series = b.series /\ a.date = b.date
                       /\ ~a.moved /\ ~b.moved => a = b

\* The end of a series is never past a date nobody has looked at: a crash between the
\* bookings and the end repeats a period and skips none.  A PATCH of the end does skip
\* dates, so this says nothing of a series once it has been edited.
NoDateSkipped ==
    \A s \in Series \ edited : Live(s) =>
        Matching(series[s], series[s].from, series[s].until) \subseteq seen[s]

\* While no Monday is missed, a weekly series that reaches the first Monday goes on: its
\* end never falls behind the date, after which the task would not look at it again.
GoesOn == ~faulty => \A s \in promised : Live(s) => today <= series[s].until

\* A row of a series, and copies of it that were read earlier, differ in the end and the
\* switch at most.
Alike(row, copy) == copy.kind = row.kind /\ copy.day = row.day /\ copy.from = row.from

Patches == {t \in open : t.kind = "patch"}

CopiesAgree ==
    /\ \A t \in Patches : Live(t.series) => Alike(series[t.series], t.row)
    /\ \A x \in run : Live(x.series) => Alike(series[x.series], x.row)
    /\ \A t \in Patches, x \in run : t.series = x.series => Alike(t.row, x.row)
    /\ \A t, u \in Patches : t.series = u.series => Alike(t.row, u.row)
    /\ \A t \in Patches : t.row.status = "live"

\* A new series has a key of its own, which nobody else has read.
KeysAreNew ==
    /\ \A t \in open : t.kind = "create" =>
          /\ series[t.series].status = "none" /\ t.row.status = "live" /\ t.row.active
          /\ \A u \in open : u.series = t.series => u = t
    /\ \A t \in Patches : series[t.series].status # "none"
    /\ \A x \in run : series[x.series].status # "none"

\* What the task has read lies behind it, and what it has made as well.
RunLooked ==
    \A x \in run :
        /\ x.series \notin edited =>
              Matching(x.row, x.row.from, x.row.until) \subseteq seen[x.series]
        /\ x.made => Period(x.row) \subseteq seen[x.series]

\* A promised series has the next Monday before its end, or the task will see to it today.
Promise ==
    /\ \A x \in run : today = monday /\ started /\ monday <= x.row.until
    /\ \A s \in promised :
          /\ series[s].status # "none"
          /\ Live(s) => series[s].kind = "weekly" /\ series[s].active
    /\ ~faulty => \A s \in promised : Live(s) =>
          \/ monday + Week <= series[s].until
          \/ /\ today = monday /\ today <= series[s].until
             /\ ~started \/ \E x \in run : x.series = s

\* The inductive invariant behind the four properties.
IInv == /\ TypeOK /\ OnePerDate /\ MadeOnce /\ NoDateSkipped
        /\ CopiesAgree /\ KeysAreNew /\ RunLooked /\ Promise
=============================================================================
