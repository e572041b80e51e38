----------------------- MODULE RecurringSeriesProofs ------------------------
(***************************************************************************)
(* Theorems about RecurringSeries, for any number of series and of         *)
(* requests handled at once, weeks of any length and any last day.         *)
(***************************************************************************)
EXTENDS RecurringSeries, TLAPS

-----------------------------------------------------------------------------
(* Dates *)

\* The days on which a series takes place.
On(row, d) == row.kind = "daily" \/ d % Week = row.day

LEMMA MatchingDates ==
    ASSUME NEW row, NEW first, NEW last, NEW d
    PROVE  d \in Matching(row, first, last) <=> d \in first .. last /\ On(row, d)
  BY DEF Matching, On

LEMMA AlikeDates ==
    ASSUME NEW row, NEW copy, Alike(row, copy), NEW d
    PROVE  On(copy, d) <=> On(row, d)
  BY DEF Alike, On

\* The next end is later.
LEMMA NextEndIsLater ==
    ASSUME SeriesAssumption, NEW row \in Template
    PROVE  /\ NextEnd(row) \in Nat /\ row.until < NextEnd(row)
           /\ row.kind = "weekly" => NextEnd(row) = row.until + Week
  BY DEF SeriesAssumption, Template, Kind, NextEnd

\* Dates up to an end and those of the next period are the dates up to the next end.
LEMMA DatesExtended ==
    ASSUME NEW old, NEW new, Alike(old, new), old.until \in Nat, new.until \in Nat,
           new.from \in Nat, NEW S,
           Matching(old, old.from, old.until) \subseteq S,
           Matching(new, old.until + 1, new.until) \subseteq S
    PROVE  Matching(new, new.from, new.until) \subseteq S
<1> SUFFICES ASSUME NEW d \in Matching(new, new.from, new.until) PROVE d \in S
  OBVIOUS
<1>1. d \in new.from .. new.until /\ On(new, d)
  BY MatchingDates
<1>2. CASE d <= old.until
  <2>1. d \in old.from .. old.until
    BY <1>1, <1>2 DEF Alike
  <2>2. On(old, d)
    BY <1>1, AlikeDates
  <2> QED
    BY <2>1, <2>2, MatchingDates
<1>3. CASE d > old.until
  <2>1. d \in old.until + 1 .. new.until
    BY <1>1, <1>3
  <2> QED
    BY <1>1, <2>1, MatchingDates
<1> QED
  BY <1>1, <1>2, <1>3

-----------------------------------------------------------------------------
(* Bookings *)

\* The two properties of the bookings.
Tidy == OnePerDate /\ MadeOnce

\* New bookings.
LEMMA ConfirmedRows ==
    ASSUME NEW s, NEW dates, NEW b \in Confirmed(s, dates)
    PROVE  /\ b.series = s /\ b.date \in dates /\ b.status = "confirmed" /\ ~b.moved
           /\ s \in Series \cup {None} /\ b.date \in Nat => b \in BookingRow
<1>1. PICK d \in dates :
         b = [series |-> s, date |-> d, status |-> "confirmed", moved |-> FALSE]
  BY DEF Confirmed
<1>2. /\ b.series = s /\ b.date = d /\ b.status = "confirmed" /\ b.moved = FALSE
  BY <1>1
<1>3. s \in Series \cup {None} /\ d \in Nat => b \in BookingRow
  BY <1>1 DEF BookingRow
<1> QED
  BY <1>1, <1>2, <1>3

LEMMA OneNewPerDate ==
    ASSUME NEW s, NEW dates, NEW a \in Confirmed(s, dates), NEW b \in Confirmed(s, dates),
           a.date = b.date
    PROVE  a = b
<1>1. PICK d \in dates :
         a = [series |-> s, date |-> d, status |-> "confirmed", moved |-> FALSE]
  BY DEF Confirmed
<1>2. PICK e \in dates :
         b = [series |-> s, date |-> e, status |-> "confirmed", moved |-> FALSE]
  BY DEF Confirmed
<1>3. d = e
  BY <1>1, <1>2
<1> QED
  BY <1>1, <1>2, <1>3

\* What a materialisation creates is in nobody's way.
LEMMA MissingIsTidy ==
    ASSUME Tidy, NEW s, NEW dates, rows' = rows \cup Confirmed(s, Missing(s, dates))
    PROVE  Tidy'
<1> DEFINE New == Confirmed(s, Missing(s, dates))
<1>0. \A b \in New : b.series = s /\ b.date \in Missing(s, dates) /\ b.status = "confirmed"
  BY ConfirmedRows
<1>1. \A b \in New : /\ b.series = s /\ b.status = "confirmed"
                     /\ \A a \in rows : a.date = b.date =>
                           a.status # "confirmed" /\ a.series # s
  BY <1>0 DEF Missing, Free, Known
<1>2. \A a, b \in New : a.date = b.date => a = b
  BY OneNewPerDate
<1> HIDE DEF New
<1>3. rows' = rows \cup New
  BY DEF New
<1> QED
  BY <1>1, <1>2, <1>3 DEF Tidy, OnePerDate, MadeOnce

\* A single booking or a block on a free date.
LEMMA BookIsTidy ==
    ASSUME Tidy, NEW d, Book(d)
    PROVE  Tidy'
<1> DEFINE New == Confirmed(None, {d})
<1>0. \A b \in New : b.series = None /\ b.date = d
  BY ConfirmedRows
<1>1. \A b \in New : /\ b.series = None /\ b.date = d
                     /\ \A a \in rows : a.date = b.date => a.status # "confirmed"
  BY <1>0 DEF Free, Book
<1>2. \A a, b \in New : a = b
  BY DEF Confirmed
<1>3. rows' = rows \cup New
  BY DEF Book
<1> HIDE DEF New
<1> QED
  BY <1>1, <1>2, <1>3 DEF Tidy, OnePerDate, MadeOnce

\* Cancelled bookings of series keep their series and date.
LEMMA CancelledRows ==
    ASSUME NEW B \in SUBSET BookingRow, NEW c \in Cancelled(B)
    PROVE  /\ c \in BookingRow /\ c.status = "cancelled" /\ c.series # None
           /\ \E b \in B : /\ b.series = c.series /\ b.date = c.date /\ b.moved = c.moved
                           /\ c = [b EXCEPT !.status = "cancelled"]
<1>1. PICK b \in B : b.series # None /\ c = [b EXCEPT !.status = "cancelled"]
  BY DEF Cancelled
<1> QED
  BY <1>1 DEF BookingRow

LEMMA CancelIsTidy ==
    ASSUME Tidy, TypeOK, NEW b, Cancel(b)
    PROVE  Tidy'
<1>1. /\ b \in rows /\ {b} \in SUBSET BookingRow
      /\ rows' = (rows \ {b}) \cup Cancelled({b})
  BY DEF Cancel, TypeOK
<1>2. \A c \in Cancelled({b}) : /\ c.status = "cancelled" /\ b.series = c.series
                                /\ b.date = c.date /\ b.moved = c.moved
                                /\ c = [b EXCEPT !.status = "cancelled"]
  BY <1>1, CancelledRows
<1> QED
  BY <1>1, <1>2 DEF Tidy, OnePerDate, MadeOnce

\* A booking that is moved clashes with none where it goes.
LEMMA RescheduleIsTidy ==
    ASSUME Tidy, TypeOK, NEW b, NEW d, Reschedule(b, d)
    PROVE  Tidy'
<1> DEFINE new == [b EXCEPT !.date = d, !.moved = b.series # None]
<1>1. /\ b \in BookingRow /\ rows' = (rows \ {b}) \cup {new}
      /\ \A c \in rows \ {b} : c.date = d => c.status # "confirmed"
  BY DEF Reschedule, TypeOK
<1>2. new.date = d /\ new.series = b.series /\ (new.series # None => new.moved)
  BY <1>1 DEF BookingRow
<1> HIDE DEF new
<1> QED
  BY <1>1, <1>2 DEF Tidy, OnePerDate, MadeOnce

\* Rows that go.
LEMMA FewerIsTidy ==
    ASSUME Tidy, rows' \subseteq rows
    PROVE  Tidy'
  BY DEF Tidy, OnePerDate, MadeOnce

LEMMA DeactivateIsTidy ==
    ASSUME Tidy, TypeOK, DeactivateCompany
    PROVE  Tidy'
<1>1. /\ rows \in SUBSET BookingRow
      /\ rows' = {b \in rows : b.series = None} \cup Cancelled(rows)
  BY DEF DeactivateCompany, TypeOK
<1>2. \A c \in Cancelled(rows) :
         /\ c.status = "cancelled" /\ c.series # None
         /\ \E b \in rows : /\ b.series = c.series /\ b.date = c.date /\ b.moved = c.moved
                            /\ c = [b EXCEPT !.status = "cancelled"]
  BY <1>1, CancelledRows
<1>3. OnePerDate'
  BY <1>1, <1>2 DEF Tidy, OnePerDate
<1>4. \A a, c \in Cancelled(rows) :
         a.series = c.series /\ a.date = c.date /\ ~a.moved /\ ~c.moved => a = c
  BY <1>2 DEF Tidy, MadeOnce
<1>5. MadeOnce'
  BY <1>1, <1>2, <1>4 DEF MadeOnce
<1> QED
  BY <1>3, <1>5 DEF Tidy

\* Of the bookings of a deleted series those stay that the deletion has not seen.
LEMMA DestroyIsTidy ==
    ASSUME Tidy, TypeOK, SeriesAssumption, NEW t, CommitDestroy(t)
    PROVE  Tidy'
<1> DEFINE left == {b \in rows : b.series = t.series /\ b.status = "confirmed"} \ t.victims
           Left == {[b EXCEPT !.series = None] : b \in left}
<1>1. rows \subseteq BookingRow /\ rows' = {b \in rows : b.series # t.series} \cup Left
  BY DEF CommitDestroy, TypeOK
<1>2. \A c \in Left : /\ c.series = None
                      /\ \E b \in rows : /\ b.series = t.series /\ b.status = "confirmed"
                                         /\ b.date = c.date
                                         /\ c = [b EXCEPT !.series = None]
  BY <1>1 DEF BookingRow
<1> HIDE DEF Left
<1>3. \A a, c \in Left : a.date = c.date => a = c
  BY <1>2 DEF Tidy, OnePerDate
<1>4. \A a \in rows, c \in Left :
         a.series # t.series /\ a.status = "confirmed" => a.date # c.date
  BY <1>2 DEF Tidy, OnePerDate
<1>5. OnePerDate'
  BY <1>1, <1>3, <1>4 DEF Tidy, OnePerDate
<1>6. MadeOnce'
  BY <1>1, <1>2 DEF Tidy, MadeOnce
<1> QED
  BY <1>5, <1>6 DEF Tidy

-----------------------------------------------------------------------------
(* What each action leaves alone *)


\* The actions of Next, one by one.
LEMMA Actions ==
    ASSUME Next
    PROVE  \/ \E s \in Series, row \in Wanted : CreateSeries(s, row)
           \/ \E s \in Series, days \in Ends, active \in BOOLEAN :
                 PatchSeries(s, today + days, active)
           \/ \E s \in Series : DestroySeries(s)
           \/ \E t \in open : CommitCreate(t) \/ CommitPatch(t) \/ CommitDestroy(t) \/ Abort(t)
           \/ \E d \in today .. today + Ahead : Book(d)
           \/ \E b \in rows : Cancel(b) \/ Delete(b)
           \/ \E b \in rows, d \in today .. today + Ahead : Reschedule(b, d)
           \/ DeactivateCompany
           \/ StartRun \/ RunDies
           \/ \E x \in run : Materialise(x) \/ SaveEnd(x)
           \/ HoursPass \/ NextDay
  BY DEF Next, OnSeries, OnBooking, Generate

\* What a client may ask for is a row of a series.
LEMMA WantedRows ==
    ASSUME SeriesAssumption, TypeOK, NEW row \in Wanted
    PROVE  row \in Template /\ row.status = "live" /\ row.active
<1>1. today \in Nat /\ Ahead \in Nat /\ Week \in Nat
  BY DEF SeriesAssumption, TypeOK
<1>2. 0 .. Week - 1 \subseteq Nat /\ today .. today + Ahead \subseteq Nat
  BY <1>1
<1>3. row \in [status : {"live"}, kind : Kind, day : 0 .. Week - 1, active : {TRUE},
               from : today .. today + Ahead, until : today .. today + Ahead]
  BY DEF Wanted
<1>4. /\ row.status = "live" /\ row.kind \in Kind /\ row.day \in Nat /\ row.active = TRUE
      /\ row.from \in Nat /\ row.until \in Nat
      /\ row = [status |-> row.status, kind |-> row.kind, day |-> row.day,
               active |-> row.active, from |-> row.from, until |-> row.until]
  BY <1>2, <1>3
<1>5. row \in Template
  BY <1>4 DEF Template
<1> QED
  BY <1>4, <1>5

\* The requests under way, by kind.
LEMMA OpenKinds ==
    ASSUME TypeOK, NEW t \in open
    PROVE  /\ t.series \in Series
           /\ t.kind \in {"create", "patch"} => t.row \in Template
           /\ t.kind = "destroy" => t.victims \subseteq BookingRow
           /\ t.kind \in {"create", "patch", "destroy"}
  BY DEF TypeOK

LEMMA RunTypes ==
    ASSUME TypeOK, NEW x \in run
    PROVE  x \in [series : Series, row : Template, made : BOOLEAN]
  BY DEF TypeOK

LEMMA MatchingNat ==
    ASSUME NEW row \in Template, NEW first \in Nat, NEW last \in Nat
    PROVE  Matching(row, first, last) \subseteq Nat
  BY DEF Matching

-----------------------------------------------------------------------------
(* Types *)

LEMMA TypesKept ==
    ASSUME SeriesAssumption, IInv, [Next]_vars
    PROVE  TypeOK'
<1>0. TypeOK /\ CopiesAgree /\ KeysAreNew
  BY DEF IInv
<1>1. CASE UNCHANGED vars
  BY <1>0, <1>1 DEF TypeOK, vars
<1>2. ASSUME NEW s \in Series, NEW row \in Wanted, CreateSeries(s, row)
      PROVE  TypeOK'
  <2>1. [kind |-> "create", series |-> s, row |-> row]
           \in [kind : {"create", "patch"}, series : Series, row : Template]
    BY <1>0, WantedRows
  <2> QED
    BY <1>0, <1>2, <2>1 DEF CreateSeries, TypeOK, Clock, Task
<1>3. ASSUME NEW s \in Series, NEW days \in Ends, NEW active \in BOOLEAN,
             PatchSeries(s, today + days, active)
      PROVE  TypeOK'
  <2>1. today + days \in Nat /\ series[s] \in Template
    BY <1>0 DEF SeriesAssumption, TypeOK
  <2>2. [series[s] EXCEPT !.until = today + days, !.active = active] \in Template
    BY <2>1 DEF Template
  <2>3. [kind |-> "patch", series |-> s,
         row |-> [series[s] EXCEPT !.until = today + days, !.active = active]]
           \in [kind : {"create", "patch"}, series : Series, row : Template]
    BY <2>2
  <2> QED
    BY <1>0, <1>3, <2>3 DEF PatchSeries, TypeOK, Clock, Task
<1>4. ASSUME NEW s \in Series, DestroySeries(s)
      PROVE  TypeOK'
  <2> DEFINE gone == {b \in rows : b.series = s}
  <2>1. [kind |-> "destroy", series |-> s, victims |-> gone]
           \in [kind : {"destroy"}, series : Series, victims : SUBSET BookingRow]
    BY <1>0 DEF TypeOK
  <2> QED
    BY <1>0, <1>4, <2>1 DEF DestroySeries, TypeOK, Clock, Task
<1>5. ASSUME NEW s \in Series, NEW dates, dates \subseteq Nat,
             rows' = rows \cup Confirmed(s, Missing(s, dates))
      PROVE  rows' \subseteq BookingRow
  <2>1. Missing(s, dates) \subseteq Nat /\ s \in Series \cup {None}
    BY <1>5 DEF Missing
  <2>2. \A b \in Confirmed(s, Missing(s, dates)) : b \in BookingRow
    BY <2>1, ConfirmedRows
  <2> QED
    BY <1>0, <1>5, <2>2 DEF TypeOK
<1>6. ASSUME NEW t \in open, CommitCreate(t)
      PROVE  TypeOK'
  <2>1. t.series \in Series /\ t.row \in Template
    BY <1>0, <1>6, OpenKinds DEF CommitCreate
  <2>2. Matching(t.row, t.row.from, t.row.until) \subseteq Nat
    BY <2>1, MatchingNat DEF Template
  <2>3. rows' \subseteq BookingRow
    BY <1>5, <1>6, <2>1, <2>2 DEF CommitCreate
  <2> QED
    BY <1>0, <1>6, <2>1, <2>2, <2>3 DEF CommitCreate, TypeOK, Clock, Task
<1>7. ASSUME NEW t \in open, CommitPatch(t)
      PROVE  TypeOK'
  <2>1. t.series \in Series /\ t.row \in Template
    BY <1>0, <1>7, OpenKinds DEF CommitPatch
  <2> QED
    BY <1>0, <1>7, <2>1 DEF CommitPatch, TypeOK, Clock, Task
<1>8. ASSUME NEW t \in open, CommitDestroy(t)
      PROVE  TypeOK'
  <2>1. t.series \in Series /\ Deleted \in Template
    BY <1>0, OpenKinds DEF Deleted, NoSeries, Template, Kind
  <2>2. \A b \in BookingRow : [b EXCEPT !.series = None] \in BookingRow
    BY DEF BookingRow
  <2>3. rows' \subseteq BookingRow
    BY <1>0, <1>8, <2>2 DEF CommitDestroy, TypeOK
  <2> QED
    BY <1>0, <1>8, <2>1, <2>3 DEF CommitDestroy, TypeOK, Clock, Task
<1>9. ASSUME NEW t \in open, Abort(t)
      PROVE  TypeOK'
  BY <1>0, <1>9 DEF Abort, TypeOK, Clock, Task
<1>10. ASSUME NEW d \in today .. today + Ahead, Book(d)
       PROVE  TypeOK'
  <2>1. d \in Nat
    BY <1>0 DEF TypeOK, SeriesAssumption
  <2>2. rows' \subseteq BookingRow
    BY <1>0, <1>10, <2>1, ConfirmedRows DEF Book, TypeOK
  <2> QED
    BY <1>0, <1>10, <2>2 DEF Book, TypeOK, Clock, Task
<1>11. ASSUME NEW b \in rows, Cancel(b)
       PROVE  TypeOK'
  <2>1. {b} \in SUBSET BookingRow /\ Cancelled({b}) \subseteq BookingRow
    BY <1>0, CancelledRows DEF TypeOK
  <2> QED
    BY <1>0, <1>11, <2>1 DEF Cancel, TypeOK, Clock, Task
<1>a. ASSUME NEW b \in rows, Delete(b)
      PROVE  TypeOK'
  BY <1>0, <1>a DEF Delete, TypeOK, Clock, Task
<1>b. ASSUME NEW b \in rows, NEW d \in today .. today + Ahead, Reschedule(b, d)
      PROVE  TypeOK'
  <2>1. d \in Nat /\ b \in BookingRow /\ (b.series # None) \in BOOLEAN
    BY <1>0 DEF TypeOK, SeriesAssumption
  <2>2. [b EXCEPT !.date = d, !.moved = b.series # None] \in BookingRow
    BY <2>1 DEF BookingRow
  <2> QED
    BY <1>0, <1>b, <2>2 DEF Reschedule, TypeOK, Clock, Task
<1>12. CASE DeactivateCompany
  <2>1. Cancelled(rows) \subseteq BookingRow
    BY <1>0, CancelledRows DEF TypeOK
  <2> QED
    BY <1>0, <1>12, <2>1 DEF DeactivateCompany, TypeOK, Clock, Task
<1>13. CASE StartRun
  <2>1. \A s \in Series : [series |-> s, row |-> series[s], made |-> FALSE]
           \in [series : Series, row : Template, made : BOOLEAN]
    BY <1>0 DEF TypeOK
  <2> QED
    BY <1>0, <1>13, <2>1 DEF StartRun, TypeOK
<1>14. CASE RunDies
  BY <1>0, <1>14 DEF RunDies, TypeOK, Clock
<1>15. ASSUME NEW x \in run, Materialise(x)
       PROVE  TypeOK'
  <2>1. x \in [series : Series, row : Template, made : BOOLEAN]
    BY <1>0, RunTypes
  <2>2. Period(x.row) \subseteq Nat
    BY <2>1, NextEndIsLater, MatchingNat DEF Period, Template
  <2>3. rows' \subseteq BookingRow
    BY <1>5, <1>15, <2>1, <2>2 DEF Materialise
  <2>4. [x EXCEPT !.made = TRUE] \in [series : Series, row : Template, made : BOOLEAN]
    BY <2>1
  <2> QED
    BY <1>0, <1>15, <2>1, <2>2, <2>3, <2>4 DEF Materialise, TypeOK, Clock
<1>16. ASSUME NEW x \in run, SaveEnd(x)
       PROVE  TypeOK'
  <2>1. x \in [series : Series, row : Template, made : BOOLEAN]
    BY <1>0, RunTypes
  <2>2. series[x.series] \in Template /\ NextEnd(x.row) \in Nat
    BY <1>0, <2>1, NextEndIsLater DEF TypeOK
  <2>3. [series[x.series] EXCEPT !.until = NextEnd(x.row)] \in Template
    BY <2>2 DEF Template
  <2> QED
    BY <1>0, <1>16, <2>1, <2>3 DEF SaveEnd, TypeOK, Clock
<1>17. CASE HoursPass
  BY <1>0, <1>17 DEF HoursPass, TypeOK, Task
<1>18. CASE NextDay
  <2>1. /\ today' \in Nat /\ monday' \in Nat /\ monday' <= today' /\ today' < monday' + Week
    BY <1>0, <1>18 DEF NextDay, TypeOK, SeriesAssumption
  <2>2. started' \in BOOLEAN
    BY <1>0, <1>18 DEF NextDay, TypeOK
  <2>3. faulty' \in BOOLEAN
    BY <1>0, <1>18, Zenon DEF NextDay, TypeOK
  <2> QED
    BY <1>0, <1>18, <2>1, <2>2, <2>3 DEF NextDay, TypeOK
<1> QED
  BY <1>1, <1>2, <1>3, <1>4, <1>6, <1>7, <1>8, <1>9, <1>10, <1>11, <1>a, <1>b, <1>12, <1>13, <1>14,
     <1>15, <1>16, <1>17, <1>18, Actions

-----------------------------------------------------------------------------
(* Bookings *)

LEMMA TidyKept ==
    ASSUME SeriesAssumption, IInv, [Next]_vars
    PROVE  Tidy'
<1>0. Tidy /\ TypeOK
  BY DEF IInv, Tidy
<1>1. CASE UNCHANGED rows
  BY <1>0, <1>1 DEF Tidy, OnePerDate, MadeOnce
<1>2. ASSUME NEW t \in open, CommitCreate(t) PROVE Tidy'
  BY <1>0, <1>2, MissingIsTidy DEF CommitCreate
<1>3. ASSUME NEW t \in open, CommitDestroy(t) PROVE Tidy'
  BY <1>0, <1>3, DestroyIsTidy
<1>4. ASSUME NEW x \in run, Materialise(x) PROVE Tidy'
  BY <1>0, <1>4, MissingIsTidy DEF Materialise
<1>5. (\E s \in Series, row \in Wanted : CreateSeries(s, row)) => UNCHANGED rows
  BY DEF CreateSeries
<1>6. (\E s \in Series, days \in Ends, active \in BOOLEAN :
          PatchSeries(s, today + days, active)) => UNCHANGED rows
  BY DEF PatchSeries
<1>7. (\E s \in Series : DestroySeries(s)) => UNCHANGED rows
  BY DEF DestroySeries
<1>8. (\E t \in open : CommitPatch(t) \/ Abort(t)) => UNCHANGED rows
  BY DEF CommitPatch, Abort
<1>9. StartRun \/ RunDies \/ NextDay => UNCHANGED rows
  BY DEF StartRun, RunDies, NextDay
<1>12. HoursPass => rows' \subseteq rows
  BY DEF HoursPass
<1>13. (\E b \in rows : Delete(b)) => rows' \subseteq rows
  BY DEF Delete
<1>10. (\E x \in run : SaveEnd(x)) => UNCHANGED rows
  BY DEF SaveEnd
<1>11. UNCHANGED vars => UNCHANGED rows
  BY DEF vars
<1> QED
  BY <1>0, <1>1, <1>2, <1>3, <1>4, <1>5, <1>6, <1>7, <1>8, <1>9, <1>10, <1>11, <1>12,
     <1>13, Actions, BookIsTidy, CancelIsTidy, RescheduleIsTidy, FewerIsTidy, DeactivateIsTidy

-----------------------------------------------------------------------------
(* Series, what was read of them, and the task *)

\* The parts of the invariant that bookings do not matter to.
InStep == NoDateSkipped /\ CopiesAgree /\ KeysAreNew /\ RunLooked /\ Promise

\* A step that touches neither series nor anything read of them preserves these parts.
LEMMA QuietKeepsInStep ==
    ASSUME InStep,
           UNCHANGED <<today, monday, started, series, open, run, seen, edited, promised, faulty>>
    PROVE  InStep'
<1>1. Patches' = Patches
  BY DEF Patches
<1>2. NoDateSkipped' /\ RunLooked'
  BY <1>1 DEF InStep, NoDateSkipped, RunLooked, Live
<1>3. CopiesAgree' /\ KeysAreNew'
  BY <1>1 DEF InStep, CopiesAgree, KeysAreNew, Live
<1>4. Promise'
  BY <1>1 DEF InStep, Promise, Live
<1> QED
  BY <1>2, <1>3, <1>4 DEF InStep

\* A request that begins with a copy of what it has read, or ends without a trace.
LEMMA OpenKeepsInStep ==
    ASSUME InStep,
           UNCHANGED <<today, monday, started, series, run, seen, edited, promised, faulty>>,
           CopiesAgree', KeysAreNew'
    PROVE  InStep'
<1>1. NoDateSkipped' /\ RunLooked'
  BY DEF InStep, NoDateSkipped, RunLooked, Live
<1>2. Promise'
  BY DEF InStep, Promise, Live
<1> QED
  BY <1>1, <1>2 DEF InStep

LEMMA CreateKeepsInStep ==
    ASSUME SeriesAssumption, TypeOK, InStep, NEW s \in Series, NEW row \in Wanted,
           CreateSeries(s, row)
    PROVE  InStep'
<1> DEFINE new == [kind |-> "create", series |-> s, row |-> row]
<1>1. /\ UNCHANGED <<today, monday, started, series, run, seen, edited, promised, faulty>>
      /\ open' = open \cup {new}
      /\ series[s].status = "none" /\ \A t \in open : t.series # s
  BY DEF CreateSeries, Clock, Task
<1>2. Patches' = Patches
  BY <1>1 DEF Patches
<1>3. CopiesAgree'
  BY <1>1, <1>2 DEF InStep, CopiesAgree, Live
<1>4. KeysAreNew'
  <2>1. new.row.status = "live" /\ new.row.active
    BY WantedRows
  <2> QED
    BY <1>1, <1>2, <2>1 DEF InStep, KeysAreNew
<1> QED
  BY <1>1, <1>3, <1>4, OpenKeepsInStep

LEMMA PatchKeepsInStep ==
    ASSUME SeriesAssumption, TypeOK, InStep, NEW s \in Series, NEW until, NEW active,
           PatchSeries(s, until, active)
    PROVE  InStep'
<1> DEFINE new == [kind |-> "patch", series |-> s,
                   row |-> [series[s] EXCEPT !.until = until, !.active = active]]
<1>1. /\ UNCHANGED <<today, monday, started, series, run, seen, edited, promised, faulty>>
      /\ open' = open \cup {new}
      /\ Live(s)
  BY DEF PatchSeries, Clock, Task
<1>2. new.kind = "patch" /\ new.series = s /\ Alike(series[s], new.row)
      /\ new.row.status = "live"
  BY <1>1 DEF Alike, TypeOK, Template, Live
<1> HIDE DEF new
<1>3. Patches' = Patches \cup {new}
  BY <1>1, <1>2 DEF Patches
<1>4. /\ \A t \in Patches : t.series = s => Alike(t.row, new.row) /\ Alike(new.row, t.row)
      /\ \A x \in run : x.series = s => Alike(new.row, x.row)
  BY <1>1, <1>2 DEF InStep, CopiesAgree, Alike
<1>5. CopiesAgree'
  <2>1. \A t \in Patches' : Live(t.series) => Alike(series[t.series], t.row)
    BY <1>2, <1>3 DEF InStep, CopiesAgree
  <2>2. \A x \in run' : Live(x.series) => Alike(series[x.series], x.row)
    BY <1>1, <1>3 DEF InStep, CopiesAgree
  <2>3. \A t \in Patches', x \in run' : t.series = x.series => Alike(t.row, x.row)
    BY <1>1, <1>2, <1>3, <1>4 DEF InStep, CopiesAgree
  <2>4. \A t, u \in Patches' : t.series = u.series => Alike(t.row, u.row)
    <3>1. Alike(new.row, new.row)
      BY DEF Alike
    <3> QED
      BY <1>2, <1>3, <1>4, <3>1 DEF InStep, CopiesAgree
  <2>5. \A t \in Patches' : t.row.status = "live"
    BY <1>2, <1>3 DEF InStep, CopiesAgree
  <2> QED
    BY <1>1, <2>1, <2>2, <2>3, <2>4, <2>5 DEF CopiesAgree, Live
<1>6. KeysAreNew'
  <2>1. \A u \in open : u.kind = "create" => u.series # s
    BY <1>1 DEF InStep, KeysAreNew, Live
  <2> QED
    BY <1>1, <1>2, <1>3, <2>1 DEF InStep, KeysAreNew, Live
<1> QED
  BY <1>1, <1>5, <1>6, OpenKeepsInStep

LEMMA DestroyKeepsInStep ==
    ASSUME InStep, NEW s, DestroySeries(s)
    PROVE  InStep'
<1> DEFINE new == [kind |-> "destroy", series |-> s,
                   victims |-> {b \in rows : b.series = s}]
<1>1. /\ UNCHANGED <<today, monday, started, series, run, seen, edited, promised, faulty>>
      /\ open' = open \cup {new} /\ Live(s)
  BY DEF DestroySeries, Clock, Task
<1>2. new.kind = "destroy" /\ new.series = s
  OBVIOUS
<1> HIDE DEF new
<1>3. Patches' = Patches
  BY <1>1, <1>2 DEF Patches
<1>4. CopiesAgree'
  BY <1>1, <1>3 DEF InStep, CopiesAgree, Live
<1>5. KeysAreNew'
  <2>1. \A u \in open : u.kind = "create" => u.series # s
    BY <1>1 DEF InStep, KeysAreNew, Live
  <2> QED
    BY <1>1, <1>2, <1>3, <2>1 DEF InStep, KeysAreNew
<1> QED
  BY <1>1, <1>4, <1>5, OpenKeepsInStep

LEMMA AbortKeepsInStep ==
    ASSUME InStep, NEW t, Abort(t)
    PROVE  InStep'
<1>1. /\ UNCHANGED <<today, monday, started, series, run, seen, edited, promised, faulty>>
      /\ open' \subseteq open
  BY DEF Abort, Clock, Task
<1>2. Patches' \subseteq Patches
  BY <1>1 DEF Patches
<1>3. CopiesAgree' /\ KeysAreNew'
  BY <1>1, <1>2 DEF InStep, CopiesAgree, KeysAreNew, Live
<1> QED
  BY <1>1, <1>3, OpenKeepsInStep

LEMMA CommitCreateKeepsInStep ==
    ASSUME SeriesAssumption, TypeOK, InStep, NEW t \in open, CommitCreate(t)
    PROVE  InStep'
<1> DEFINE s == t.series
           row == t.row
           dates == Matching(row, row.from, row.until)
<1>1. /\ t.kind = "create" /\ s \in Series /\ row \in Template
      /\ series[s].status = "none" /\ row.status = "live" /\ row.active
      /\ \A u \in open : u.kind = "create" /\ u.series = s => u = t
      /\ \A u \in Patches : u.series # s
      /\ \A x \in run : x.series # s
      /\ s \notin promised
  BY OpenKinds DEF CommitCreate, InStep, KeysAreNew, Promise
<1>2. /\ UNCHANGED <<today, monday, started, run, faulty>>
      /\ open' = open \ {t}
      /\ series' = [series EXCEPT ![s] = row]
      /\ seen' = [seen EXCEPT ![s] = dates] /\ edited' = edited
      /\ promised' = IF row.kind = "weekly" /\ monday + Week <= row.until
                     THEN promised \cup {s} ELSE promised
  BY DEF CommitCreate, Clock, Task
<1>3. Patches' = Patches
  BY <1>1, <1>2 DEF Patches
<1>4. /\ series'[s] = row /\ seen'[s] = dates
      /\ \A r \in Series \ {s} : series'[r] = series[r] /\ seen'[r] = seen[r]
  BY <1>1, <1>2 DEF TypeOK
<1>5. /\ \A u \in Patches : u.series \in Series \ {s}
      /\ \A x \in run : x.series \in Series \ {s}
      /\ promised \subseteq Series \ {s}
  BY <1>1, OpenKinds, RunTypes DEF Patches, TypeOK
<1> HIDE DEF s, row, dates
<1>6. NoDateSkipped'
  <2>1. ASSUME NEW r \in Series \ edited, Live(r)'
        PROVE  Matching(series'[r], series'[r].from, series'[r].until) \subseteq seen'[r]
    <3>1. CASE r = s
      BY <1>4, <3>1 DEF dates
    <3>2. CASE r # s
      BY <1>4, <2>1, <3>2 DEF InStep, NoDateSkipped, Live
    <3> QED
      BY <3>1, <3>2
  <2> QED
    BY <1>2, <2>1 DEF NoDateSkipped
<1>7. CopiesAgree'
  BY <1>2, <1>3, <1>4, <1>5 DEF InStep, CopiesAgree, Live
<1>8. KeysAreNew'
  <2>1. \A u \in open' : u \in open /\ u.series \in Series
                         /\ (u.kind = "create" => u.series \in Series \ {s})
    BY <1>1, <1>2, OpenKinds
  <2> QED
    BY <1>2, <1>3, <1>4, <1>5, <2>1 DEF InStep, KeysAreNew
<1>9. RunLooked'
  BY <1>2, <1>3, <1>4, <1>5 DEF InStep, RunLooked
<1>10. Promise'
  <2>1. \A x \in run' : today' = monday' /\ started' /\ monday' <= x.row.until
    BY <1>2, <1>3 DEF InStep, Promise
  <2>2. ASSUME NEW r \in promised'
        PROVE  /\ series'[r].status # "none"
               /\ Live(r)' => series'[r].kind = "weekly" /\ series'[r].active
               /\ ~faulty' /\ Live(r)' =>
                    \/ monday' + Week <= series'[r].until
                    \/ /\ today' = monday' /\ today' <= series'[r].until
                       /\ ~started' \/ \E x \in run' : x.series = r
    <3>1. CASE r = s
      BY <1>1, <1>2, <1>4, <1>5, <2>2, <3>1 DEF row
    <3>2. CASE r # s
      BY <1>2, <1>3, <1>4, <1>5, <2>2, <3>2 DEF InStep, Promise, Live
    <3> QED
      BY <3>1, <3>2
  <2> QED
    BY <2>1, <2>2 DEF Promise
<1> QED
  BY <1>6, <1>7, <1>8, <1>9, <1>10 DEF InStep

LEMMA CommitPatchKeepsInStep ==
    ASSUME SeriesAssumption, TypeOK, InStep, NEW t \in open, CommitPatch(t)
    PROVE  InStep'
<1> DEFINE s == t.series
           row == t.row
<1>1. /\ t.kind = "patch" /\ t \in Patches /\ s \in Series /\ row \in Template
      /\ row.status = "live" /\ series[s].status # "none"
      /\ Live(s) => Alike(series[s], row)
      /\ \A u \in Patches : u.series = s => Alike(row, u.row)
      /\ \A x \in run : x.series = s => Alike(row, x.row)
      /\ \A u \in open : u.kind = "create" => u.series # s
  BY OpenKinds DEF CommitPatch, InStep, CopiesAgree, KeysAreNew, Patches
<1>2. /\ UNCHANGED <<today, monday, started, run, faulty, seen>>
      /\ open' = open \ {t}
      /\ series' = [series EXCEPT ![s] = row]
      /\ edited' = edited \cup {s}
      /\ promised' = promised \ {s}
  BY DEF CommitPatch, Clock, Task
<1>3. Patches' \subseteq Patches
  BY <1>2 DEF Patches
<1>4. /\ series'[s] = row
      /\ \A r \in Series \ {s} : series'[r] = series[r]
  BY <1>1, <1>2 DEF TypeOK
<1>5. /\ \A u \in open : u.series \in Series
      /\ \A u \in Patches : u \in open
      /\ \A x \in run : x.series \in Series
  BY OpenKinds, RunTypes DEF Patches
<1> HIDE DEF s, row
<1>6. NoDateSkipped'
  BY <1>2, <1>4 DEF InStep, NoDateSkipped, Live
<1>7. CopiesAgree'
  <2>1. ASSUME NEW u \in Patches', Live(u.series)'
        PROVE  Alike(series'[u.series], u.row)
    BY <1>1, <1>3, <1>4, <1>5, <2>1 DEF InStep, CopiesAgree, Live
  <2>2. ASSUME NEW x \in run', Live(x.series)'
        PROVE  Alike(series'[x.series], x.row)
    BY <1>2, <1>1, <1>3, <1>4, <1>5, <2>2 DEF InStep, CopiesAgree, Live
  <2> QED
    BY <1>2, <1>3, <2>1, <2>2 DEF InStep, CopiesAgree, Live
<1>8. KeysAreNew'
  <2>1. series'[s].status # "none"
    BY <1>1, <1>4
  <2> QED
    BY <1>1, <1>2, <1>3, <1>4, <1>5, <2>1 DEF InStep, KeysAreNew
<1>9. RunLooked'
  BY <1>2 DEF InStep, RunLooked
<1>10. Promise'
  <2>1. \A r \in promised' : r \in promised /\ r \in Series \ {s}
    BY <1>2 DEF TypeOK
  <2> QED
    BY <1>2, <1>3, <1>4, <2>1 DEF InStep, Promise, Live
<1> QED
  BY <1>6, <1>7, <1>8, <1>9, <1>10 DEF InStep

LEMMA CommitDestroyKeepsInStep ==
    ASSUME TypeOK, InStep, NEW t \in open, CommitDestroy(t)
    PROVE  InStep'
<1> DEFINE s == t.series
<1>1. s \in Series /\ Deleted.status = "gone"
  BY OpenKinds DEF Deleted, NoSeries
<1>2. /\ UNCHANGED <<today, monday, started, run, faulty, seen, edited>>
      /\ open' = open \ {t}
      /\ series' = [series EXCEPT ![s] = Deleted]
      /\ promised' = promised \ {s}
      /\ t.kind = "destroy"
  BY DEF CommitDestroy, Clock, Task
<1>3. Patches' = Patches
  BY <1>2 DEF Patches
<1>4. /\ series'[s].status = "gone"
      /\ \A r \in Series \ {s} : series'[r] = series[r]
  BY <1>1, <1>2 DEF TypeOK
<1>5. /\ \A u \in open : u.series \in Series
      /\ \A u \in Patches : u \in open
      /\ \A x \in run : x.series \in Series
  BY OpenKinds, RunTypes DEF Patches
<1> HIDE DEF s
<1>6. NoDateSkipped' /\ RunLooked'
  BY <1>2, <1>3, <1>4 DEF InStep, NoDateSkipped, RunLooked, Live
<1>7. CopiesAgree'
  BY <1>2, <1>3, <1>4, <1>5 DEF InStep, CopiesAgree, Live
<1>8. KeysAreNew'
  <2>1. \A u \in open : u.kind = "create" => u.series # s
    BY <1>2 DEF InStep, KeysAreNew, s
  <2> QED
    BY <1>2, <1>3, <1>4, <1>5, <2>1 DEF InStep, KeysAreNew
<1>9. Promise'
  <2>1. \A r \in promised' : r \in promised /\ r \in Series \ {s}
    BY <1>2 DEF TypeOK
  <2> QED
    BY <1>2, <1>3, <1>4, <2>1 DEF InStep, Promise, Live
<1> QED
  BY <1>6, <1>7, <1>8, <1>9 DEF InStep

LEMMA StartRunKeepsInStep ==
    ASSUME TypeOK, InStep, StartRun
    PROVE  InStep'
<1>1. /\ UNCHANGED <<today, monday, series, open, seen, edited, promised, faulty>>
      /\ today = monday /\ run = {} /\ started' = TRUE
      /\ run' = {[series |-> s, row |-> series[s], made |-> FALSE] :
                      s \in {s \in Series : Extendable(s)}}
  BY DEF StartRun
<1>2. Patches' = Patches
  BY <1>1 DEF Patches
<1> DEFINE item(s) == [series |-> s, row |-> series[s], made |-> FALSE]
<1>a. \A s : item(s).series = s /\ item(s).row = series[s] /\ ~item(s).made
  OBVIOUS
<1>b. \A x : x \in run' <=> \E s \in Series : Extendable(s) /\ x = item(s)
  BY <1>1
<1> HIDE DEF item
<1>3. /\ \A x \in run' : /\ x.series \in Series /\ Extendable(x.series)
                         /\ x.row = series[x.series] /\ ~x.made
      /\ \A s \in Series : Extendable(s) => \E x \in run' : x.series = s
  BY <1>a, <1>b
<1>4. NoDateSkipped'
  BY <1>1 DEF InStep, NoDateSkipped, Live
<1>5. CopiesAgree'
  BY <1>1, <1>2, <1>3 DEF InStep, CopiesAgree, Live, Extendable, Alike
<1>6. KeysAreNew'
  BY <1>1, <1>2, <1>3 DEF InStep, KeysAreNew, Live, Extendable
<1>7. RunLooked'
  BY <1>1, <1>3 DEF InStep, RunLooked, NoDateSkipped, Extendable
<1>8. Promise'
  <2>1. \A x \in run' : monday <= x.row.until
    BY <1>1, <1>3 DEF Extendable
  <2>2. ASSUME NEW s \in promised, Live(s), ~faulty
        PROVE  \/ monday + Week <= series[s].until
               \/ today <= series[s].until /\ \E x \in run' : x.series = s
    <3>1. s \in Series
      BY DEF TypeOK
    <3> QED
      BY <1>1, <1>2, <1>3, <2>2, <3>1 DEF InStep, Promise, Extendable
  <2> QED
    BY <1>1, <2>1, <2>2 DEF InStep, Promise, Live
<1> QED
  BY <1>4, <1>5, <1>6, <1>7, <1>8 DEF InStep

LEMMA RunDiesKeepsInStep ==
    ASSUME InStep, RunDies
    PROVE  InStep'
<1>1. /\ UNCHANGED <<today, monday, started, series, open, seen, edited, promised>>
      /\ run' = {} /\ faulty' = TRUE /\ Patches' = Patches
  BY DEF RunDies, Clock, Patches
<1>2. NoDateSkipped' /\ RunLooked'
  BY <1>1 DEF InStep, NoDateSkipped, RunLooked, Live
<1>3. CopiesAgree' /\ KeysAreNew'
  BY <1>1 DEF InStep, CopiesAgree, KeysAreNew, Live
<1>4. Promise'
  BY <1>1 DEF InStep, Promise, Live
<1> QED
  BY <1>2, <1>3, <1>4 DEF InStep

LEMMA MaterialiseKeepsInStep ==
    ASSUME TypeOK, InStep, NEW x \in run, Materialise(x)
    PROVE  InStep'
<1> DEFINE s == x.series
           done == [x EXCEPT !.made = TRUE]
<1>1. /\ UNCHANGED <<today, monday, started, series, open, edited, promised, faulty>>
      /\ seen' = [seen EXCEPT ![s] = @ \cup Period(x.row)]
      /\ run' = (run \ {x}) \cup {done}
  BY DEF Materialise, Clock
<1>2. s \in Series /\ done.series = s /\ done.row = x.row
  BY RunTypes
<1>3. Patches' = Patches
  BY <1>1 DEF Patches
<1>4. seen'[s] = seen[s] \cup Period(x.row) /\ \A r \in Series : seen[r] \subseteq seen'[r]
  BY <1>1, <1>2 DEF TypeOK
<1> HIDE DEF done
<1>5. NoDateSkipped'
  BY <1>1, <1>4 DEF InStep, NoDateSkipped, Live
<1>6. CopiesAgree'
  <2>1. \A y \in run' : \E z \in run : y.series = z.series /\ y.row = z.row
    BY <1>1, <1>2
  <2> QED
    BY <1>1, <1>3, <2>1 DEF InStep, CopiesAgree, Live
<1>7. KeysAreNew'
  BY <1>1, <1>2, <1>3 DEF InStep, KeysAreNew
<1>8. RunLooked'
  <2>1. ASSUME NEW y \in run'
        PROVE  /\ y.series \notin edited =>
                     Matching(y.row, y.row.from, y.row.until) \subseteq seen'[y.series]
               /\ y.made => Period(y.row) \subseteq seen'[y.series]
    <3>1. CASE y = done
      BY <1>2, <1>4, <3>1 DEF InStep, RunLooked
    <3>2. CASE y # done
      <4>1. y \in run /\ y.series \in Series
        BY <1>1, <2>1, <3>2, RunTypes
      <4> QED
        BY <1>4, <4>1 DEF InStep, RunLooked
    <3> QED
      BY <3>1, <3>2
  <2> QED
    BY <1>1, <2>1 DEF RunLooked
<1>9. Promise'
  <2>1. \A r : (\E y \in run : y.series = r) => (\E y \in run' : y.series = r)
    BY <1>1, <1>2
  <2>2. \A y \in run' : \E z \in run : y.row = z.row
    BY <1>1, <1>2
  <2> QED
    BY <1>1, <2>1, <2>2 DEF InStep, Promise, Live
<1> QED
  BY <1>5, <1>6, <1>7, <1>8, <1>9 DEF InStep

LEMMA SaveEndKeepsInStep ==
    ASSUME SeriesAssumption, TypeOK, InStep, NEW x \in run, SaveEnd(x)
    PROVE  InStep'
<1> DEFINE s == x.series
           new == [series[s] EXCEPT !.until = NextEnd(x.row)]
<1>1. /\ UNCHANGED <<today, monday, started, open, seen, edited, promised, faulty>>
      /\ x.made /\ Live(s)
      /\ series' = [series EXCEPT ![s] = new]
      /\ run' = run \ {x}
  BY DEF SaveEnd, Clock, Ready
<1>2. /\ s \in Series /\ x.row \in Template /\ series[s] \in Template
      /\ NextEnd(x.row) \in Nat /\ x.row.until \in Nat
  BY RunTypes, NextEndIsLater DEF TypeOK, Template
<1>3. Patches' = Patches
  BY <1>1 DEF Patches
<1>4. /\ series'[s] = new /\ \A r \in Series \ {s} : series'[r] = series[r]
      /\ new.until = NextEnd(x.row) /\ new.status = "live" /\ new.active = series[s].active
      /\ new.kind = series[s].kind /\ new.day = series[s].day /\ new.from = series[s].from
  BY <1>1, <1>2 DEF TypeOK, Template, Live
<1>5. Alike(series[s], x.row)
  BY <1>1 DEF InStep, CopiesAgree
<1> HIDE DEF new
<1>6. NoDateSkipped'
  <2>1. ASSUME s \notin edited
        PROVE  Matching(new, new.from, new.until) \subseteq seen[s]
    <3>1. /\ Matching(x.row, x.row.from, x.row.until) \subseteq seen[s]
          /\ Period(x.row) \subseteq seen[s]
      BY <1>1, <2>1 DEF InStep, RunLooked
    <3>2. Alike(x.row, new) /\ Alike(new, x.row) /\ new.from \in Nat
      BY <1>2, <1>4, <1>5 DEF Alike, Template
    <3>3. Matching(new, x.row.until + 1, new.until) \subseteq seen[s]
      BY <1>4, <3>1, <3>2, MatchingDates, AlikeDates DEF Period
    <3> HIDE DEF s
    <3> QED
      BY <1>2, <1>4, <3>1, <3>2, <3>3, DatesExtended
  <2>2. ASSUME NEW r \in Series \ edited, Live(r)'
        PROVE  Matching(series'[r], series'[r].from, series'[r].until) \subseteq seen'[r]
    <3>1. CASE r = s
      BY <1>1, <1>4, <2>1, <3>1
    <3>2. CASE r # s
      BY <1>1, <1>4, <2>2, <3>2 DEF InStep, NoDateSkipped, Live
    <3> QED
      BY <3>1, <3>2
  <2> QED
    BY <1>1, <2>2 DEF NoDateSkipped
<1>7. CopiesAgree'
  <2>1. \A r \in Series : /\ Live(r)' => Live(r)
                          /\ \A copy : Alike(series[r], copy) => Alike(series'[r], copy)
    BY <1>1, <1>4 DEF Alike, Live
  <2>2. /\ \A u \in Patches : u.series \in Series
        /\ \A y \in run' : y \in run /\ y.series \in Series
    BY <1>1, OpenKinds, RunTypes DEF Patches
  <2> QED
    BY <1>1, <1>3, <2>1, <2>2 DEF InStep, CopiesAgree
<1>8. KeysAreNew'
  <2>1. /\ \A r \in Series : series'[r].status = series[r].status
        /\ \A u \in open : u.series \in Series
        /\ \A y \in run' : y \in run /\ y.series \in Series
    BY <1>1, <1>4, OpenKinds, RunTypes DEF Live
  <2> QED
    BY <1>1, <1>3, <2>1 DEF InStep, KeysAreNew, Patches
<1>9. RunLooked'
  BY <1>1 DEF InStep, RunLooked
<1>10. Promise'
  <2>1. \A y \in run' : today' = monday' /\ started' /\ monday' <= y.row.until
    BY <1>1 DEF InStep, Promise
  <2>2. ASSUME NEW r \in promised
        PROVE  /\ series'[r].status # "none"
               /\ Live(r)' => series'[r].kind = "weekly" /\ series'[r].active
               /\ ~faulty /\ Live(r)' =>
                    \/ monday + Week <= series'[r].until
                    \/ /\ today = monday /\ today <= series'[r].until
                       /\ ~started \/ \E y \in run' : y.series = r
    <3>1. CASE r = s
      <4>1. series[s].kind = "weekly" /\ series[s].active
        BY <1>1, <2>2, <3>1 DEF InStep, Promise
      <4>2. NextEnd(x.row) = x.row.until + Week
        BY <1>2, <1>5, <4>1, NextEndIsLater DEF Alike
      <4>3. monday <= x.row.until
        BY DEF InStep, Promise
      <4>4. monday + Week <= NextEnd(x.row)
        BY <1>2, <4>2, <4>3 DEF TypeOK, SeriesAssumption
      <4> QED
        BY <1>4, <3>1, <4>1, <4>4
    <3>2. CASE r # s
      <4>1. r \in Series /\ series'[r] = series[r]
        BY <1>4, <2>2, <3>2 DEF TypeOK
      <4>2. (\E y \in run : y.series = r) => (\E y \in run' : y.series = r)
        BY <1>1, <3>2
      <4> QED
        BY <2>2, <4>1, <4>2 DEF InStep, Promise, Live
    <3> QED
      BY <3>1, <3>2
  <2> QED
    BY <1>1, <2>1, <2>2 DEF Promise
<1> QED
  BY <1>6, <1>7, <1>8, <1>9, <1>10 DEF InStep

\* A day begins when the task is done: who was promised a Monday has got it.
LEMMA NextDayKeepsInStep ==
    ASSUME SeriesAssumption, TypeOK, InStep, NextDay
    PROVE  InStep'
<1>1. /\ UNCHANGED <<series, open, run, seen, edited, promised>>
      /\ run = {} /\ today' = today + 1 /\ Patches' = Patches
      /\ IF today + 1 = monday + Week THEN monday' = today + 1 /\ started' = FALSE
                                      ELSE UNCHANGED <<monday, started>>
      /\ ~faulty' => ~faulty /\ ~(today = monday /\ ~started)
  BY DEF NextDay, Patches
<1>2. NoDateSkipped' /\ RunLooked'
  BY <1>1 DEF InStep, NoDateSkipped, RunLooked, Live
<1>3. CopiesAgree' /\ KeysAreNew'
  BY <1>1 DEF InStep, CopiesAgree, KeysAreNew, Live
<1>4. Promise'
  <2>1. ASSUME NEW s \in promised, Live(s), ~faulty'
        PROVE  \/ monday' + Week <= series[s].until
               \/ today' = monday' /\ today' <= series[s].until /\ ~started'
    <3>1. monday + Week <= series[s].until
      BY <1>1, <2>1 DEF InStep, Promise
    <3> QED
      BY <1>1, <3>1
  <2> QED
    BY <1>1, <2>1 DEF InStep, Promise, Live
<1> QED
  BY <1>2, <1>3, <1>4 DEF InStep

LEMMA InStepKept ==
    ASSUME SeriesAssumption, IInv, [Next]_vars
    PROVE  InStep'
<1>0. TypeOK /\ InStep
  BY DEF IInv, InStep
<1> DEFINE quiet == <<today, monday, started, series, open, run, seen, edited, promised, faulty>>
<1>1. (\E d \in today .. today + Ahead : Book(d)) => UNCHANGED quiet
  BY DEF Book, Clock, Task
<1>2. (\E b \in rows : Cancel(b) \/ Delete(b)) \/ DeactivateCompany => UNCHANGED quiet
  BY DEF Cancel, Delete, DeactivateCompany, Clock, Task
<1>11. (\E b \in rows, d \in today .. today + Ahead : Reschedule(b, d)) => UNCHANGED quiet
  BY DEF Reschedule, Clock, Task
<1>3. HoursPass \/ UNCHANGED vars => UNCHANGED quiet
  BY DEF HoursPass, vars, Task
<1>4. UNCHANGED quiet => InStep'
  BY <1>0, QuietKeepsInStep
<1>5. ASSUME NEW t \in open, CommitCreate(t) \/ CommitPatch(t) \/ CommitDestroy(t) \/ Abort(t)
      PROVE  InStep'
  BY <1>0, <1>5, CommitCreateKeepsInStep, CommitPatchKeepsInStep, CommitDestroyKeepsInStep,
     AbortKeepsInStep
<1>6. ASSUME NEW x \in run, Materialise(x) \/ SaveEnd(x)
      PROVE  InStep'
  BY <1>0, <1>6, MaterialiseKeepsInStep, SaveEndKeepsInStep
<1>7. ASSUME NEW s \in Series, NEW row \in Wanted, CreateSeries(s, row)
      PROVE  InStep'
  BY <1>0, <1>7, CreateKeepsInStep
<1>8. ASSUME NEW s \in Series, NEW days \in Ends, NEW active \in BOOLEAN,
             PatchSeries(s, today + days, active)
      PROVE  InStep'
  BY <1>0, <1>8, PatchKeepsInStep
<1>9. ASSUME NEW s \in Series, DestroySeries(s)
      PROVE  InStep'
  BY <1>0, <1>9, DestroyKeepsInStep
<1>10. CASE StartRun \/ RunDies \/ NextDay
  BY <1>0, <1>10, StartRunKeepsInStep, RunDiesKeepsInStep, NextDayKeepsInStep
<1> QED
  BY <1>1, <1>2, <1>3, <1>4, <1>5, <1>6, <1>7, <1>8, <1>9, <1>10, <1>11, Actions

-----------------------------------------------------------------------------
(* Theorems *)

LEMMA InitIInv ==
    ASSUME SeriesAssumption, Init
    PROVE  IInv
<1>1. NoSeries \in Template /\ NoSeries.status = "none"
  BY DEF NoSeries, Template, Kind
<1>2. TypeOK
  <2>1. /\ today \in Nat /\ monday \in Nat /\ monday <= today /\ today < monday + Week
        /\ seen \in [Series -> SUBSET Nat]
    BY DEF Init, SeriesAssumption
  <2>2. series \in [Series -> Template]
    BY <1>1 DEF Init
  <2>3. /\ over \in BOOLEAN /\ started \in BOOLEAN /\ faulty \in BOOLEAN
        /\ rows = {} /\ open = {} /\ run = {} /\ edited = {} /\ promised = {}
    BY DEF Init
  <2> QED
    BY <2>1, <2>2, <2>3 DEF TypeOK
<1>3. OnePerDate /\ MadeOnce
  BY DEF Init, OnePerDate, MadeOnce
<1>4. NoDateSkipped
  BY <1>1 DEF Init, NoDateSkipped, Live
<1>5. CopiesAgree /\ KeysAreNew /\ RunLooked /\ Promise
  BY DEF Init, CopiesAgree, KeysAreNew, RunLooked, Promise, Patches
<1> QED
  BY <1>2, <1>3, <1>4, <1>5 DEF IInv

\* The inductive invariant: bookings, series, the copies of them that requests and the task
\* have read, and what the task still owes agree in every reachable state.
THEOREM SeriesInvariant == Spec => []IInv
<1>1. Init => IInv
  BY SeriesAssumption, InitIInv
<1>2. IInv /\ [Next]_vars => IInv'
  BY SeriesAssumption, TypesKept, TidyKept, InStepKept DEF IInv, Tidy, InStep
<1> QED
  BY <1>1, <1>2, PTL DEF Spec

\* Creation, extension, deletion and repetition after a crash never confirm two bookings on
\* one date (create_bookings_for_recurring and its callers).
THEOREM SeriesNeverClash == Spec => []OnePerDate
<1>1. IInv => OnePerDate
  BY DEF IInv
<1> QED
  BY <1>1, SeriesInvariant, PTL

\* get_or_create behind the check for conflicts: a series has one booking on a date, however
\* often the task repeats a period.
THEOREM SeriesMadeOnce == Spec => []MadeOnce
<1>1. IInv => MadeOnce
  BY DEF IInv
<1> QED
  BY <1>1, SeriesInvariant, PTL

\* generate_recurring_bookings saves the end after the bookings: no date up to the end of a
\* series has been left out, whatever run died, unless somebody has edited the series.
THEOREM SeriesSkipNoDate == Spec => []NoDateSkipped
<1>1. IInv => NoDateSkipped
  BY DEF IInv
<1> QED
  BY <1>1, SeriesInvariant, PTL

\* As long as the task has done its work every Monday, no weekly series that reached its
\* first Monday and was not edited has come to an end.
THEOREM WeeklySeriesGoOn == Spec => []GoesOn
<1>1. IInv => GoesOn
  <2> SUFFICES ASSUME IInv, ~faulty, NEW s \in promised, Live(s)
               PROVE  today <= series[s].until
    BY DEF GoesOn
  <2>1. /\ today \in Nat /\ monday \in Nat /\ today < monday + Week
        /\ series[s].until \in Nat
    BY DEF IInv, TypeOK, Template
  <2>2. monday + Week <= series[s].until \/ today <= series[s].until
    BY DEF IInv, Promise
  <2> QED
    BY <2>1, <2>2, SeriesAssumption DEF SeriesAssumption
<1> QED
  BY <1>1, SeriesInvariant, PTL
=============================================================================
