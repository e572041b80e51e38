------------------------- MODULE ReservationsProofs -------------------------
(***************************************************************************)
(* Theorems about Reservations, for any number of bookings, workers,       *)
(* resources and users and any configuration of the rules: its invariants, *)
(* and that it implements SlotCalendar.                                    *)
(***************************************************************************)
EXTENDS Reservations, TLAPS

-----------------------------------------------------------------------------
(* Types *)

\* The row that stands for an unused key is a row, and the closed transaction a
\* transaction.
LEMMA RowTypes ==
    /\ NoRow \in Row /\ NoRow.status = "none"
    /\ Idle \in Tx /\ Idle.locks = {} /\ Idle.rows = {}
    /\ \A b \in Ids : Idle.put[b] = NoRow
<1>1. NoRow \in Row /\ NoRow.status = "none"
  BY ConstantsAssumption DEF NoRow, Row, Status
<1>2. [b \in Ids |-> NoRow] \in [Ids -> Row]
  BY <1>1
<1> QED
  BY <1>1, <1>2 DEF Idle, Tx

\* A committed transaction leaves rows behind.
LEMMA AfterType ==
    ASSUME TypeOK, NEW t \in Tx, NEW b \in Ids
    PROVE  After(t, b) \in Row
<1>1. bookings[b] \in Row /\ t.put[b] \in Row
  BY DEF TypeOK, Tx
<1>2. [bookings[b] EXCEPT !.status = "cancelled"] \in Row
  BY <1>1 DEF Row, Status
<1>3. [bookings[b] EXCEPT !.checkedIn = TRUE] \in Row
  BY <1>1 DEF Row
<1> QED
  BY <1>1, <1>2, <1>3 DEF After

\* A handler that begins a well-typed transaction preserves the types.
LEMMA BeginType ==
    ASSUME TypeOK, NEW p \in Workers, NEW t \in Tx, Begin(p, t)
    PROVE  TypeOK'
  BY DEF TypeOK, Begin

-----------------------------------------------------------------------------
(* What the handlers prepare *)

\* The rows t writes are new, or rows that existed when it began; those it writes as
\* confirmed it has locked.
WritesKnownRows(t) ==
    \A b \in Ids : t.put[b].status # "none" =>
        \/ b \in Fresh
        \/ /\ Exists(b)
           /\ t.put[b].status = "confirmed" =>
                /\ b \in t.rows /\ Confirmed(b)
                /\ bookings[b].checkedIn = t.put[b].checkedIn

\* A transaction that saves one whole row reserves clear time if that row does.
LEMMA OneWriteIsClear ==
    ASSUME NEW t, NEW b \in Ids, NEW row,
           t.put[b] = row, row.res \in t.locks,
           \A c \in Ids \ {b} : t.put[c].status = "none",
           \A c \in Ids \ {b} : After(t, c).status = "confirmed" /\ After(t, c).res = row.res
                                 => ~Overlaps(row, After(t, c))
    PROVE  ReservesClearTime(t)
<1> SUFFICES ASSUME NEW d \in Ids, t.put[d].status = "confirmed"
             PROVE  /\ t.put[d].res \in t.locks
                    /\ \A c \in Ids \ {d} :
                          After(t, c).status = "confirmed" /\ After(t, c).res = t.put[d].res
                              => ~Overlaps(t.put[d], After(t, c))
  BY DEF ReservesClearTime
<1>1. d = b
  OBVIOUS
<1> QED
  BY <1>1

\* Displacement, checked under the resource's lock, leaves the new booking's time
\* clear (BookingCreateSerializer.create).
LEMMA CreateBegins ==
    ASSUME TypeOK, NEW p \in Workers, NEW u \in Users, NEW r \in Resources,
           NEW slot \in OpenSlots[r], Create(p, u, r, slot)
    PROVE  \E t \in Tx : /\ Begin(p, t)
                         /\ t.locks \subseteq {r} /\ t.rows = {} /\ ResourceFree(r)
                         /\ ReservesClearTime(t) /\ WritesKnownRows(t)
<1> DEFINE out == Conflicting(r, slot, {})
           row == [res |-> r, user |-> u, start |-> slot.start, end |-> slot.end,
                   status |-> "confirmed", prio |-> Tier[u], checkedIn |-> FALSE]
           t(b) == [Idle EXCEPT !.open = TRUE, !.locks = {r}, !.put[b] = row, !.cancel = out]
<1>1. PICK b \in Fresh : Begin(p, t(b))
  BY DEF Create
<1>0. b \in Ids
  BY DEF Fresh
<1>2. slot \in [start : Nat, end : Nat]
  BY ConstantsAssumption DEF Slot
<1>3. row \in Row /\ out \in SUBSET Ids
  BY <1>2, ConstantsAssumption DEF Row, Status, Conflicting
<1>4. /\ t(b) \in Tx /\ t(b).locks = {r} /\ t(b).rows = {} /\ t(b).cancel = out
      /\ t(b).put[b] = row /\ \A c \in Ids \ {b} : t(b).put[c] = NoRow
  BY <1>0, <1>3, RowTypes DEF Tx, Idle
<1> QED
  <2>1. ASSUME NEW c \in Ids \ {b}, After(t(b), c).status = "confirmed",
               After(t(b), c).res = r
        PROVE  ~Overlaps(row, After(t(b), c))
    <3>1. c \notin Writes(t(b)) /\ t(b).checkin = {}
      BY <1>4, RowTypes DEF Writes, Idle
    <3>2. c \notin out
      BY <1>4, <2>1, <3>1 DEF After, TypeOK, Row
    <3>3. After(t(b), c) = bookings[c]
      BY <1>4, <3>1, <3>2 DEF After
    <3> QED
      BY <1>2, <2>1, <3>2, <3>3 DEF Conflicting, Confirmed, Overlaps, TypeOK, Row
  <2>2. ReservesClearTime(t(b))
    BY <1>0, <1>4, <2>1, RowTypes, OneWriteIsClear
  <2>3. WritesKnownRows(t(b))
    BY <1>4, RowTypes DEF WritesKnownRows
  <2> QED
    BY <1>1, <1>4, <2>2, <2>3 DEF Create

\* The occurrences of a series are disjoint, so the bookings made of the ones that
\* are free reserve clear time together (create_bookings_for_recurring).
LEMMA SeriesBegins ==
    ASSUME TypeOK, NEW p \in Workers, NEW u \in Users, NEW r \in Resources,
           NEW slots \in Series, MaterialiseSeries(p, u, r, slots)
    PROVE  \E t \in Tx : /\ Begin(p, t)
                         /\ t.locks \subseteq {r} /\ t.rows = {} /\ ResourceFree(r)
                         /\ ReservesClearTime(t) /\ WritesKnownRows(t)
<1> DEFINE kept == {s \in slots : /\ s.end > now
                                  /\ Conflicting(r, s, {}) = {}
                                  /\ ~Blocked(r, s)}
           row(s) == [res |-> r, user |-> u, start |-> s.start, end |-> s.end,
                      status |-> "confirmed", prio |-> 1, checkedIn |-> FALSE]
           put(key) == [b \in Ids |-> IF \E s \in kept : key[s] = b
                                     THEN row(CHOOSE s \in kept : key[s] = b)
                                     ELSE NoRow]
           t(key) == [Idle EXCEPT !.open = TRUE, !.locks = {r}, !.put = put(key)]
<1>1. PICK key \in [kept -> Fresh] : Begin(p, t(key))
  BY DEF MaterialiseSeries
<1>2. \A s \in kept : s \in [start : Nat, end : Nat] /\ row(s) \in Row
  BY ConstantsAssumption DEF Slot, Row, Status
<1>3. \A b \in Ids : put(key)[b] # NoRow =>
          \E s \in kept : key[s] = b /\ put(key)[b] = row(s)
  OBVIOUS
<1>4. put(key) \in [Ids -> Row]
  <2>1. \A b \in Ids : put(key)[b] \in Row
    BY <1>2, <1>3, RowTypes
  <2> QED
    BY <2>1
<1>5. /\ t(key) \in Tx /\ t(key).locks = {r} /\ t(key).rows = {}
      /\ t(key).cancel = {} /\ t(key).checkin = {} /\ t(key).put = put(key)
  BY <1>4, RowTypes DEF Tx, Idle
<1>6. ASSUME NEW b \in Ids, NEW c \in Ids \ {b}, NEW s \in kept, key[s] = b,
             After(t(key), c).status = "confirmed", After(t(key), c).res = r
      PROVE  ~Overlaps(row(s), After(t(key), c))
  <2>1. CASE c \in Writes(t(key))
    <3>0. put(key)[c] # NoRow
      BY <1>5, <2>1, RowTypes DEF Writes
    <3>1. PICK d \in kept : key[d] = c /\ put(key)[c] = row(d)
      BY <1>3, <3>0
    <3>2. s # d /\ s \in slots /\ d \in slots
      BY <1>6, <3>1
    <3>3. s.end <= d.start \/ d.end <= s.start
      BY <3>2, ConstantsAssumption
    <3>4. After(t(key), c) = row(d)
      BY <1>5, <2>1, <3>1 DEF After
    <3>5. ~Overlaps(row(s), row(d))
      <4>1. s.start \in Nat /\ s.end \in Nat /\ d.start \in Nat /\ d.end \in Nat
        BY <1>2
      <4> QED
        BY <3>3, <4>1 DEF Overlaps
    <3> QED
      BY <3>4, <3>5
  <2>2. CASE c \notin Writes(t(key))
    <3>1. After(t(key), c) = bookings[c] /\ bookings[c] \in Row
      BY <1>5, <2>2 DEF After, TypeOK
    <3>2. c \notin Conflicting(r, s, {})
      OBVIOUS
    <3>3. ~Overlaps(bookings[c], s)
      BY <1>6, <3>1, <3>2 DEF Conflicting, Confirmed
    <3>4. ~Overlaps(row(s), bookings[c])
      <4> HIDE DEF kept
      <4> QED
        BY <1>2, <3>1, <3>3 DEF Overlaps, Row
    <3> QED
      BY <3>1, <3>4
  <2> QED
    BY <2>1, <2>2
<1>7. ASSUME NEW b \in Ids, put(key)[b].status = "confirmed"
      PROVE  \E s \in kept : key[s] = b /\ put(key)[b] = row(s) /\ row(s).res = r
  <2>1. put(key)[b] # NoRow
    BY <1>7, RowTypes
  <2> QED
    BY <1>3, <2>1
<1>8. ReservesClearTime(t(key))
  <2> HIDE DEF kept, row, put, t
  <2> QED
    BY <1>5, <1>6, <1>7 DEF ReservesClearTime
<1>9. WritesKnownRows(t(key))
  <2>1. \A b \in Ids : put(key)[b].status # "none" => b \in Fresh
    BY <1>3, RowTypes
  <2> QED
    BY <1>5, <2>1 DEF WritesKnownRows
<1> QED
  BY <1>1, <1>5, <1>8, <1>9 DEF MaterialiseSeries

\* A booking moves only to time that is clear, checked under the lock of its own row
\* and of its resource (BookingViewSet.partial_update with times).
LEMMA RescheduleBegins ==
    ASSUME TypeOK, NEW p \in Workers, NEW u \in Users, NEW b \in Ids,
           NEW slot \in OpenSlots[bookings[b].res], Reschedule(p, u, b, slot, TimesOnly)
    PROVE  \E t \in Tx : /\ Begin(p, t)
                         /\ t.locks = {bookings[b].res} /\ ResourceFree(bookings[b].res)
                         /\ t.rows = {b} /\ RowFree(b)
                         /\ ReservesClearTime(t) /\ WritesKnownRows(t)
<1> DEFINE r == bookings[b].res
           moved == [bookings[b] EXCEPT !.start = slot.start, !.end = slot.end]
           row == Edited(moved, TimesOnly)
           t == [Idle EXCEPT !.open = TRUE, !.locks = {r}, !.rows = {b}, !.put[b] = row,
                             !.named = {}]
<1>0. Named(b, TimesOnly) = {}
  BY DEF Named, TimesOnly
<1>1. Begin(p, t)
  BY <1>0 DEF Reschedule
<1>2. slot \in [start : Nat, end : Nat] /\ r \in Resources
  BY ConstantsAssumption DEF Slot, TypeOK, Row
<1>3. row \in Row /\ row = moved
  BY <1>2 DEF Row, TypeOK, Edited, TimesOnly, Unset
<1>4. /\ t \in Tx /\ t.locks = {r} /\ t.rows = {b} /\ t.cancel = {} /\ t.checkin = {}
      /\ t.put[b] = row /\ \A c \in Ids \ {b} : t.put[c] = NoRow
  BY <1>2, <1>3, RowTypes DEF Tx, Idle
<1>5. ReservesClearTime(t)
  <2>1. ASSUME NEW c \in Ids \ {b}, After(t, c).status = "confirmed", After(t, c).res = r
        PROVE  ~Overlaps(row, After(t, c))
    <3>1. After(t, c) = bookings[c]
      BY <1>4, RowTypes DEF After, Writes
    <3>2. c \notin Conflicting(r, slot, {b})
      BY DEF Reschedule
    <3> QED
      BY <1>2, <1>3, <2>1, <3>1, <3>2 DEF Conflicting, Confirmed, Overlaps, TypeOK, Row
  <2>2. row.res = r
    BY <1>3 DEF TypeOK, Row
  <2> QED
    BY <1>4, <2>1, <2>2, RowTypes, OneWriteIsClear
<1>6. WritesKnownRows(t)
  <2>1. row.status = bookings[b].status /\ row.checkedIn = bookings[b].checkedIn
    BY <1>3 DEF TypeOK, Row
  <2> QED
    BY <1>4, <2>1, RowTypes DEF WritesKnownRows, Reschedule, Confirmed
<1> QED
  BY <1>1, <1>4, <1>5, <1>6 DEF Reschedule

\* The handlers that end or check in bookings, or block time, write no confirmed row
\* and lock resources that are free.
LEMMA OthersBegin ==
    ASSUME TypeOK, NEW p \in Workers,
           \/ \E b \in Ids : Cancel(p, b) \/ ScanQr(p, b)
           \/ \E u \in Users, ids \in SUBSET Ids : BulkCancel(p, u, ids)
           \/ \E r \in Resources :
                 Deactivate(p, r) \/ \E slot \in BlockSlots : Block(p, r, slot)
    PROVE  \E t \in Tx : /\ Begin(p, t) /\ t.rows = {}
                         /\ \A r \in t.locks : ResourceFree(r)
                         /\ \A b \in Ids : t.put[b].status # "confirmed"
                         /\ WritesKnownRows(t)
<1>1. ASSUME NEW b \in Ids, Cancel(p, b)
      PROVE  \E t \in Tx : /\ Begin(p, t) /\ t.rows = {}
                           /\ \A r \in t.locks : ResourceFree(r)
                           /\ \A c \in Ids : t.put[c].status # "confirmed"
                           /\ WritesKnownRows(t)
  <2> DEFINE row == [bookings[b] EXCEPT !.status = "cancelled"]
             t == [Idle EXCEPT !.open = TRUE, !.audit = {b}, !.put[b] = row]
  <2>1. row \in Row /\ row.status = "cancelled"
    BY DEF TypeOK, Row, Status
  <2>2. /\ t \in Tx /\ t.rows = {} /\ t.locks = {}
        /\ t.put[b] = row /\ \A c \in Ids \ {b} : t.put[c] = NoRow
    BY <2>1, RowTypes DEF Tx, Idle
  <2>3. WritesKnownRows(t) /\ \A c \in Ids : t.put[c].status # "confirmed"
    BY <1>1, <2>1, <2>2, RowTypes DEF WritesKnownRows, Cancel
  <2> QED
    BY <1>1, <2>2, <2>3 DEF Cancel
<1>2. ASSUME NEW b \in Ids, ScanQr(p, b)
      PROVE  \E t \in Tx : /\ Begin(p, t) /\ t.rows = {}
                           /\ \A r \in t.locks : ResourceFree(r)
                           /\ \A c \in Ids : t.put[c].status # "confirmed"
                           /\ WritesKnownRows(t)
  <2> DEFINE t == [Idle EXCEPT !.open = TRUE, !.checkin = {b}]
  <2>1. t \in Tx /\ t.rows = {} /\ t.locks = {} /\ t.put = Idle.put
    BY RowTypes DEF Tx, Idle
  <2> QED
    BY <1>2, <2>1, RowTypes DEF ScanQr, WritesKnownRows
<1>3. ASSUME NEW u \in Users, NEW ids \in SUBSET Ids, BulkCancel(p, u, ids)
      PROVE  \E t \in Tx : /\ Begin(p, t) /\ t.rows = {}
                           /\ \A r \in t.locks : ResourceFree(r)
                           /\ \A c \in Ids : t.put[c].status # "confirmed"
                           /\ WritesKnownRows(t)
  <2> DEFINE t(taken) == [Idle EXCEPT !.open = TRUE, !.cancel = taken, !.audit = taken]
  <2>1. PICK taken \in SUBSET Ids : Begin(p, t(taken))
    BY <1>3 DEF BulkCancel
  <2>2. /\ t(taken) \in Tx /\ t(taken).rows = {} /\ t(taken).locks = {}
        /\ t(taken).put = Idle.put
    BY RowTypes DEF Tx, Idle
  <2> QED
    BY <2>1, <2>2, RowTypes DEF WritesKnownRows
<1>4. ASSUME NEW r \in Resources, Deactivate(p, r)
      PROVE  \E t \in Tx : /\ Begin(p, t) /\ t.rows = {}
                           /\ \A d \in t.locks : ResourceFree(d)
                           /\ \A c \in Ids : t.put[c].status # "confirmed"
                           /\ WritesKnownRows(t)
  <2> DEFINE cancelled(b) == [bookings[b] EXCEPT !.status = "cancelled"]
             put(future) == [b \in Ids |-> IF b \in future THEN cancelled(b) ELSE NoRow]
             t(future) == [Idle EXCEPT !.open = TRUE, !.locks = {r}, !.put = put(future)]
  <2>1. PICK future \in SUBSET {b \in Ids : Confirmed(b)} : Begin(p, t(future))
    BY <1>4 DEF Deactivate
  <2>2. \A b \in Ids : cancelled(b) \in Row /\ cancelled(b).status = "cancelled"
    BY DEF TypeOK, Row, Status
  <2>3. put(future) \in [Ids -> Row] /\ \A c \in Ids : put(future)[c].status # "confirmed"
    BY <2>2, RowTypes
  <2>4. /\ t(future) \in Tx /\ t(future).rows = {} /\ t(future).locks = {r}
        /\ t(future).put = put(future)
    BY <2>3, RowTypes DEF Tx, Idle
  <2>5. WritesKnownRows(t(future))
    <3>1. \A b \in Ids : put(future)[b].status # "none" => Exists(b)
      BY RowTypes DEF Exists, Confirmed
    <3> QED
      BY <2>3, <2>4, <3>1 DEF WritesKnownRows
  <2> QED
    BY <1>4, <2>1, <2>3, <2>4, <2>5 DEF Deactivate
<1>5. ASSUME NEW r \in Resources, NEW slot \in BlockSlots, Block(p, r, slot)
      PROVE  \E t \in Tx : /\ Begin(p, t) /\ t.rows = {}
                           /\ \A d \in t.locks : ResourceFree(d)
                           /\ \A c \in Ids : t.put[c].status # "confirmed"
                           /\ WritesKnownRows(t)
  <2> DEFINE new == [res |-> r, start |-> slot.start, end |-> slot.end]
             t(hit) == [Idle EXCEPT !.open = TRUE, !.cancel = hit, !.audit = hit,
                                    !.block = {new}]
  <2>1. PICK hit \in SUBSET Ids : Begin(p, t(hit))
    BY <1>5 DEF Block, Conflicting
  <2>2. new \in BlockRow
    BY ConstantsAssumption DEF Slot, BlockRow
  <2>3. t(hit) \in Tx /\ t(hit).rows = {} /\ t(hit).locks = {} /\ t(hit).put = Idle.put
    BY <2>2, RowTypes DEF Tx, Idle
  <2> QED
    BY <2>1, <2>3, RowTypes DEF WritesKnownRows
<1> QED
  BY <1>1, <1>2, <1>3, <1>4, <1>5

-----------------------------------------------------------------------------
(* The inductive invariant of the calendar *)

\* Beginning a transaction whose locks were free and that reserves clear time.
LEMMA BeginKeepsIInv ==
    ASSUME IInv, NEW p \in Workers, NEW t \in Tx, Begin(p, t),
           \A r \in t.locks : ResourceFree(r),
           \A b \in t.rows : RowFree(b),
           ReservesClearTime(t)
    PROVE  IInv'
<1>1. TypeOK'
  BY BeginType DEF IInv
<1>2. tx' = [tx EXCEPT ![p] = t] /\ bookings' = bookings /\ tx \in [Workers -> Tx]
  BY DEF Begin, IInv, TypeOK
<1>3. LocksExclusive'
  BY <1>2 DEF LocksExclusive, IInv, ResourceFree, RowFree
<1>4. PendingIsClear'
  <2>1. \A q \in Workers : ReservesClearTime(tx'[q])
    BY <1>2 DEF IInv, PendingIsClear
  <2>2. \A q \in Workers : ReservesClearTime(tx'[q]) => ReservesClearTime(tx[q])'
    BY <1>2 DEF ReservesClearTime, After, Writes
  <2> QED
    BY <2>1, <2>2 DEF PendingIsClear
<1>5. NoDoubleBooking'
  BY <1>2 DEF IInv, NoDoubleBooking, Confirmed
<1> QED
  BY <1>1, <1>3, <1>4, <1>5 DEF IInv

\* A step that opens no transaction and only takes bookings out of the calendar
\* (or checks them in).
LEMMA ReleaseKeepsIInv ==
    ASSUME IInv, TypeOK', tx' = tx,
           \A b \in Ids : bookings'[b].status = "confirmed" =>
               /\ Confirmed(b)
               /\ bookings'[b].res = bookings[b].res
               /\ bookings'[b].start = bookings[b].start
               /\ bookings'[b].end = bookings[b].end
    PROVE  IInv'
<1>1. LocksExclusive'
  BY DEF IInv, LocksExclusive
<1>2. NoDoubleBooking'
  BY DEF IInv, NoDoubleBooking, Confirmed, Overlaps
<1>3. ASSUME NEW p \in Workers, NEW b \in Ids, tx[p].put[b].status = "confirmed",
             NEW c \in Ids \ {b}, After(tx[p], c)'.status = "confirmed",
             After(tx[p], c)'.res = tx[p].put[b].res
      PROVE  ~Overlaps(tx[p].put[b], After(tx[p], c)')
  <2>1. bookings[c] \in Row /\ bookings'[c] \in Row
    BY DEF IInv, TypeOK
  <2>2. /\ After(tx[p], c).status = "confirmed"
        /\ After(tx[p], c).res = After(tx[p], c)'.res
        /\ After(tx[p], c).start = After(tx[p], c)'.start
        /\ After(tx[p], c).end = After(tx[p], c)'.end
    <3>1. CASE c \in Writes(tx[p])
      BY <1>3, <3>1 DEF After, Writes
    <3>2. CASE c \notin Writes(tx[p])
      <4>1. c \notin tx[p].cancel
        BY <1>3, <2>1, <3>2 DEF After, Writes, Row
      <4>2. bookings'[c].status = "confirmed"
        BY <1>3, <2>1, <3>2, <4>1 DEF After, Writes, Row
      <4> QED
        BY <2>1, <3>2, <4>1, <4>2 DEF After, Writes, Row, Confirmed
    <3> QED
      BY <3>1, <3>2
  <2>3. ~Overlaps(tx[p].put[b], After(tx[p], c))
    BY <1>3, <2>2 DEF IInv, PendingIsClear, ReservesClearTime
  <2> QED
    BY <2>2, <2>3 DEF Overlaps
<1>4. PendingIsClear'
  BY <1>3 DEF IInv, PendingIsClear, ReservesClearTime
<1> QED
  BY <1>1, <1>2, <1>4 DEF IInv

\* Closing a transaction without writing.
LEMMA AbortKeepsIInv ==
    ASSUME IInv, NEW p \in Workers, Abort(p)
    PROVE  IInv'
<1>1. /\ tx' = [tx EXCEPT ![p] = Idle] /\ tx \in [Workers -> Tx]
      /\ bookings' = bookings
  BY DEF Abort, IInv, TypeOK
<1>2. TypeOK'
  BY <1>1, RowTypes DEF Abort, IInv, TypeOK
<1>3. LocksExclusive'
  BY <1>1, RowTypes DEF IInv, LocksExclusive
<1>4. NoDoubleBooking'
  BY <1>1 DEF IInv, NoDoubleBooking, Confirmed
<1>5. PendingIsClear'
  <2>1. \A q \in Workers : ReservesClearTime(tx'[q])
    BY <1>1, RowTypes DEF IInv, PendingIsClear, ReservesClearTime
  <2>2. \A q \in Workers : ReservesClearTime(tx'[q]) => ReservesClearTime(tx[q])'
    BY <1>1 DEF ReservesClearTime, After, Writes
  <2> QED
    BY <2>1, <2>2 DEF PendingIsClear
<1> QED
  BY <1>2, <1>3, <1>4, <1>5 DEF IInv

\* What a commit leaves of a row it does not write in full: the row, perhaps
\* cancelled, perhaps checked in.
LEMMA AfterUnwritten ==
    ASSUME TypeOK, NEW t \in Tx, NEW b \in Ids, b \notin Writes(t),
           After(t, b).status = "confirmed"
    PROVE  /\ b \notin t.cancel /\ Confirmed(b)
           /\ After(t, b).res = bookings[b].res
           /\ After(t, b).start = bookings[b].start
           /\ After(t, b).end = bookings[b].end
  BY DEF TypeOK, After, Row, Confirmed

\* A commit publishes rows.
LEMMA CommitType ==
    ASSUME TypeOK, NEW p \in Workers, Commit(p)
    PROVE  TypeOK'
<1>1. /\ tx' = [tx EXCEPT ![p] = Idle] /\ tx \in [Workers -> Tx] /\ tx[p] \in Tx
      /\ \A b \in Ids : After(tx[p], b) \in Row
  BY AfterType DEF Commit, TypeOK
<1>2. bookings' \in [Ids -> Row]
  BY <1>1 DEF Commit
<1> QED
  BY <1>1, <1>2, RowTypes DEF Commit, TypeOK, Tx

\* Committing: the resource lock keeps apart the transactions that reserve time on
\* the same resource.
LEMMA CommitKeepsIInv ==
    ASSUME IInv, NEW p \in Workers, Commit(p)
    PROVE  IInv'
<1> DEFINE t == tx[p]
<1>1. /\ tx' = [tx EXCEPT ![p] = Idle] /\ tx \in [Workers -> Tx] /\ t \in Tx
      /\ \A b \in Ids : bookings'[b] = After(t, b) /\ After(t, b) \in Row
      /\ TypeOK
  BY AfterType DEF Commit, IInv, TypeOK
<1>2. TypeOK'
  BY <1>1, CommitType
<1>3. LocksExclusive'
  BY <1>1, RowTypes DEF IInv, LocksExclusive
<1>4. \A b, c \in Ids :
        b # c /\ b \in Writes(t) /\ After(t, b).status = "confirmed"
        /\ After(t, c).status = "confirmed" /\ After(t, c).res = After(t, b).res
            => ~Overlaps(After(t, b), After(t, c))
  BY DEF IInv, PendingIsClear, ReservesClearTime, After, Writes
<1>5. NoDoubleBooking'
  <2> SUFFICES ASSUME NEW b \in Ids, NEW c \in Ids, b # c,
                      After(t, b).status = "confirmed", After(t, c).status = "confirmed",
                      After(t, b).res = After(t, c).res
               PROVE  ~Overlaps(After(t, b), After(t, c))
    BY <1>1 DEF NoDoubleBooking, Confirmed
  <2>1. CASE b \in Writes(t)
    BY <1>4, <2>1
  <2>2. CASE c \in Writes(t)
    <3>1. ~Overlaps(After(t, c), After(t, b))
      BY <1>4, <2>2
    <3> QED
      BY <1>1, <3>1 DEF Overlaps, Row
  <2>3. CASE b \notin Writes(t) /\ c \notin Writes(t)
    <3>1. ~Overlaps(bookings[b], bookings[c])
      BY <1>1, <2>3, AfterUnwritten DEF IInv, NoDoubleBooking
    <3> QED
      BY <1>1, <2>3, <3>1, AfterUnwritten DEF Overlaps
  <2> QED
    BY <2>1, <2>2, <2>3
<1>6. ASSUME NEW q \in Workers \ {p}, NEW b \in Ids, tx[q].put[b].status = "confirmed",
             NEW c \in Ids \ {b}, After(tx[q], c)'.status = "confirmed",
             After(tx[q], c)'.res = tx[q].put[b].res
      PROVE  ~Overlaps(tx[q].put[b], After(tx[q], c)')
  <2>0. tx'[q] = tx[q] /\ tx[q] \in Tx
    BY <1>1
  <2>1. /\ tx[q].put[b].res \in tx[q].locks
        /\ After(tx[q], c).status = "confirmed" /\ After(tx[q], c).res = tx[q].put[b].res
              => ~Overlaps(tx[q].put[b], After(tx[q], c))
    BY <1>6 DEF IInv, PendingIsClear, ReservesClearTime
  <2>2. CASE c \in Writes(tx[q])
    <3>1. After(tx[q], c)' = After(tx[q], c)
      BY <2>0, <2>2 DEF After, Writes
    <3> QED
      BY <1>6, <2>1, <3>1
  <2>3. CASE c \notin Writes(tx[q])
    <3>1. /\ bookings'[c].status = "confirmed" /\ c \notin tx[q].cancel
          /\ After(tx[q], c)'.res = bookings'[c].res
          /\ After(tx[q], c)'.start = bookings'[c].start
          /\ After(tx[q], c)'.end = bookings'[c].end
      <4>1. bookings'[c] \in Row
        BY <1>1
      <4> QED
        BY <1>6, <2>0, <2>3, <4>1 DEF After, Writes, Row
    <3>2. bookings'[c] = After(t, c)
      BY <1>1
    <3>3. CASE c \in Writes(t)
      <4>1. t.put[c].status = "confirmed" /\ t.put[c].res = tx[q].put[b].res
        BY <1>6, <3>1, <3>2, <3>3 DEF After
      <4>2. t.put[c].res \in t.locks
        BY <4>1 DEF IInv, PendingIsClear, ReservesClearTime
      <4> QED
        BY <2>1, <4>1, <4>2 DEF IInv, LocksExclusive
    <3>4. CASE c \notin Writes(t)
      <4>1. /\ Confirmed(c) /\ bookings'[c].res = bookings[c].res
            /\ bookings'[c].start = bookings[c].start /\ bookings'[c].end = bookings[c].end
        BY <1>1, <3>1, <3>2, <3>4, AfterUnwritten
      <4>2. /\ After(tx[q], c).status = "confirmed" /\ After(tx[q], c).res = bookings[c].res
            /\ After(tx[q], c).start = bookings[c].start
            /\ After(tx[q], c).end = bookings[c].end
        <5>1. bookings[c] \in Row
          BY <1>1 DEF TypeOK
        <5> QED
          BY <2>3, <3>1, <4>1, <5>1 DEF After, Confirmed, Row
      <4> QED
        BY <1>6, <2>1, <3>1, <4>1, <4>2 DEF Overlaps
    <3> QED
      BY <3>3, <3>4
  <2> QED
    BY <2>2, <2>3
<1>7. PendingIsClear'
  <2>1. \A q \in Workers \ {p} : ReservesClearTime(tx[q])'
    <3>1. \A q \in Workers \ {p} : tx'[q] = tx[q]
      BY <1>1
    <3>2. \A q \in Workers \ {p}, b \in Ids :
             tx[q].put[b].status = "confirmed" => tx[q].put[b].res \in tx[q].locks
      BY DEF IInv, PendingIsClear, ReservesClearTime
    <3> QED
      BY <1>6, <3>1, <3>2 DEF ReservesClearTime
  <2>2. ReservesClearTime(tx[p])'
    BY <1>1, RowTypes DEF ReservesClearTime
  <2> QED
    BY <2>1, <2>2 DEF PendingIsClear
<1> QED
  BY <1>2, <1>3, <1>5, <1>7 DEF IInv

\* A step outside the transactions keeps the types.
LEMMA SingleType ==
    ASSUME TypeOK, Single
    PROVE  TypeOK'
<1>1. ASSUME NEW b \in Ids, AdminCancel(b) PROVE TypeOK'
  <2>1. [bookings[b] EXCEPT !.status = "cancelled"] \in Row
    BY DEF TypeOK, Row, Status
  <2> QED
    BY <1>1, <2>1 DEF AdminCancel, TypeOK
<1>2. ASSUME NEW b \in Ids, Delete(b) PROVE TypeOK'
  <2>1. [NoRow EXCEPT !.status = "deleted"] \in Row
    BY RowTypes DEF Row, Status
  <2> QED
    BY <1>2, <2>1 DEF Delete, TypeOK
<1>3. ASSUME NEW b \in Ids, CheckIn(b) PROVE TypeOK'
  <2>1. /\ bookings[b] \in Row
        /\ bookings' = [bookings EXCEPT ![b] = [bookings[b] EXCEPT !.checkedIn = TRUE]]
    BY <1>3 DEF CheckIn, TypeOK
  <2>2. [bookings[b] EXCEPT !.checkedIn = TRUE] \in Row
    BY <2>1 DEF Row
  <2> QED
    BY <1>3, <2>1, <2>2 DEF CheckIn, TypeOK
<1>4. ASSUME NEW b \in Ids, CompleteOne(b) PROVE TypeOK'
  <2>1. [bookings[b] EXCEPT !.status = "completed"] \in Row
    BY DEF TypeOK, Row, Status
  <2> QED
    BY <1>4, <2>1 DEF CompleteOne, TypeOK
<1>5. ASSUME FinishNoShow PROVE TypeOK'
  <2> DEFINE new(c) == IF c \in noShow /\ Exists(c)
                       THEN [bookings[c] EXCEPT !.status = "no_show"]
                       ELSE bookings[c]
  <2>1. \A c \in Ids : new(c) \in Row
    BY DEF TypeOK, Row, Status
  <2>2. bookings' = [c \in Ids |-> new(c)]
    BY <1>5 DEF FinishNoShow
  <2> HIDE DEF new
  <2> QED
    BY <1>5, <2>1, <2>2 DEF FinishNoShow, TypeOK
<1>6. ASSUME \/ \E k \in blocks : Unblock(k)
             \/ StartAutoComplete \/ StartNoShow \/ TaskCrash
      PROVE  TypeOK'
  BY <1>6 DEF Unblock, StartAutoComplete, StartNoShow, TaskCrash, TypeOK
<1>7. ASSUME Tick PROVE TypeOK'
  <2>1. (now \in 0 .. Horizon)'
    BY <1>7, ConstantsAssumption DEF Tick, TypeOK
  <2> QED
    BY <1>7, <2>1 DEF Tick, TypeOK
<1> QED
  BY <1>1, <1>2, <1>3, <1>4, <1>5, <1>6, <1>7 DEF Single

\* A step outside the transactions touches only unlocked rows that exist, and leaves
\* such a row out of the calendar or checked in.
LEMMA SingleEffect ==
    ASSUME TypeOK, Single
    PROVE  /\ tx' = tx
           /\ \A b \in Ids :
                \/ bookings'[b] = bookings[b]
                \/ /\ Exists(b) /\ RowFree(b)
                   /\ \/ bookings'[b].status # "confirmed"
                      \/ bookings'[b] = [bookings[b] EXCEPT !.checkedIn = TRUE]
<1>1. ASSUME NEW b \in Ids, AdminCancel(b) \/ Delete(b) \/ CheckIn(b) \/ CompleteOne(b),
             NEW c \in Ids
      PROVE  \/ bookings'[c] = bookings[c]
             \/ /\ Exists(c) /\ RowFree(c)
                /\ \/ bookings'[c].status # "confirmed"
                   \/ bookings'[c] = [bookings[c] EXCEPT !.checkedIn = TRUE]
  <2>1. CASE AdminCancel(b)
    BY <2>1 DEF AdminCancel, TypeOK, Row
  <2>2. CASE Delete(b)
    BY <2>2, RowTypes DEF Delete, TypeOK, Row
  <2>3. CASE CheckIn(b)
    BY <2>3 DEF CheckIn, TypeOK, Row
  <2>4. CASE CompleteOne(b)
    BY <2>4 DEF CompleteOne, TypeOK, Row
  <2> QED
    BY <1>1, <2>1, <2>2, <2>3, <2>4
<1>2. ASSUME FinishNoShow, NEW c \in Ids
      PROVE  \/ bookings'[c] = bookings[c]
             \/ /\ Exists(c) /\ RowFree(c)
                /\ bookings'[c].status # "confirmed"
  BY <1>2 DEF FinishNoShow, TypeOK, Row
<1>3. tx' = tx
  BY DEF Single, AdminCancel, Delete, CheckIn, CompleteOne, Unblock, StartAutoComplete,
         StartNoShow, FinishNoShow, TaskCrash, Tick
<1>4. ASSUME \/ \E k \in blocks : Unblock(k)
             \/ StartAutoComplete \/ StartNoShow \/ TaskCrash \/ Tick
      PROVE  bookings' = bookings
  BY <1>4 DEF Unblock, StartAutoComplete, StartNoShow, TaskCrash, Tick
<1> QED
  BY <1>1, <1>2, <1>3, <1>4 DEF Single

\* The one-step requests, the periodic tasks and the clock only take bookings out of
\* the calendar.
LEMMA SingleKeepsIInv ==
    ASSUME IInv, Single
    PROVE  IInv'
<1>1. TypeOK /\ TypeOK' /\ tx' = tx
  BY SingleType, SingleEffect DEF IInv
<1>2. ASSUME NEW c \in Ids, bookings'[c].status = "confirmed"
      PROVE  /\ bookings[c].status = "confirmed" /\ bookings'[c].res = bookings[c].res
             /\ bookings'[c].start = bookings[c].start /\ bookings'[c].end = bookings[c].end
  <2>1. bookings[c] \in Row
    BY <1>1 DEF TypeOK
  <2>2. \/ bookings'[c] = bookings[c]
        \/ bookings'[c] = [bookings[c] EXCEPT !.checkedIn = TRUE]
    BY <1>1, <1>2, SingleEffect
  <2> QED
    BY <1>2, <2>1, <2>2 DEF Row
<1> QED
  BY <1>1, <1>2, ReleaseKeepsIInv DEF Confirmed

\* The calendar's inductive invariant holds of every reachable state of the bookings,
\* as long as no PATCH body carries more than the times.
THEOREM InductiveInvariant == LockedSpec => []IInv
<1>1. Init => IInv
  <2> SUFFICES ASSUME Init PROVE IInv
    OBVIOUS
  <2>1. TypeOK
    BY RowTypes, ConstantsAssumption DEF Init, TypeOK
  <2>2. LocksExclusive
    BY RowTypes DEF Init, LocksExclusive
  <2>3. PendingIsClear
    BY RowTypes DEF Init, PendingIsClear, ReservesClearTime
  <2>4. NoDoubleBooking
    BY RowTypes DEF Init, NoDoubleBooking, Confirmed
  <2> QED
    BY <2>1, <2>2, <2>3, <2>4 DEF IInv
<1>2. IInv /\ [LockedNext]_vars => IInv'
  <2> SUFFICES ASSUME IInv, [LockedNext]_vars PROVE IInv'
    OBVIOUS
  <2> USE DEF IInv
  <2>1. CASE Single
    BY <2>1, SingleKeepsIInv
  <2>2. ASSUME NEW p \in Workers, Request(p) PROVE IInv'
    <3>1. ASSUME NEW u \in Users, NEW r \in Resources, NEW slot \in OpenSlots[r],
                 Create(p, u, r, slot)
          PROVE  IInv'
      BY <3>1, CreateBegins, BeginKeepsIInv
    <3>2. ASSUME NEW u \in Users, NEW r \in Resources, NEW slots \in Series,
                 MaterialiseSeries(p, u, r, slots)
          PROVE  IInv'
      BY <3>2, SeriesBegins, BeginKeepsIInv
    <3>3. ASSUME NEW u \in Users, NEW b \in Ids, NEW slot \in OpenSlots[bookings[b].res],
                 Reschedule(p, u, b, slot, TimesOnly)
          PROVE  IInv'
      BY <3>3, RescheduleBegins, BeginKeepsIInv
    <3>4. ASSUME NEW t \in Tx, Begin(p, t), t.rows = {}, \A r \in t.locks : ResourceFree(r),
                 \A b \in Ids : t.put[b].status # "confirmed"
          PROVE  IInv'
      BY <3>4, BeginKeepsIInv DEF ReservesClearTime
    <3>5. CASE Commit(p)
      BY <3>5, CommitKeepsIInv
    <3>6. CASE Abort(p)
      BY <3>6, AbortKeepsIInv
    <3> QED
      BY <2>2, <3>1, <3>2, <3>3, <3>4, <3>5, <3>6, OthersBegin DEF Request
  <2>3. CASE UNCHANGED vars
    <3>1. /\ TypeOK' /\ tx' = tx /\ bookings' = bookings
      BY <2>3 DEF vars, TypeOK
    <3> QED
      BY <3>1, ReleaseKeepsIInv DEF Confirmed
  <2> QED
    BY <2>1, <2>2, <2>3 DEF LockedNext
<1> QED
  BY <1>1, <1>2, PTL DEF LockedSpec

\* Two confirmed bookings of a resource never overlap, however requests, tasks and
\* the clock interleave (NewLevelHub-MVP.md:488).
THEOREM CalendarIsSafe == LockedSpec => []NoDoubleBooking
<1>1. IInv => NoDoubleBooking
  BY DEF IInv
<1> QED
  BY <1>1, InductiveInvariant, PTL

-----------------------------------------------------------------------------
(* No lost update brings a booking back *)

\* A request commits, aborts, or begins a transaction that knows the rows it writes.
LEMMA RequestEffect ==
    ASSUME TypeOK, NEW p \in Workers, Request(p)
    PROVE  \/ Commit(p)
           \/ Abort(p)
           \/ \E t \in Tx : Begin(p, t) /\ WritesKnownRows(t)
  BY CreateBegins, SeriesBegins, RescheduleBegins, OthersBegin DEF Request

\* The second inductive invariant: nobody writes the rows that open transactions are
\* going to save as confirmed.
THEOREM SavesAreCurrent == LockedSpec => []SavesWhatItLocked
<1>1. Init => SavesWhatItLocked
  BY RowTypes DEF Init, SavesWhatItLocked
<1>2. IInv /\ SavesWhatItLocked /\ [LockedNext]_vars => SavesWhatItLocked'
  <2> SUFFICES ASSUME IInv, SavesWhatItLocked, [LockedNext]_vars
               PROVE  SavesWhatItLocked'
    OBVIOUS
  <2>0. TypeOK /\ tx \in [Workers -> Tx]
    BY DEF IInv, TypeOK
  <2>1. CASE Single
    <3>1. tx' = tx
      BY <2>0, <2>1, SingleEffect
    <3>2. ASSUME NEW p \in Workers, NEW b \in Ids, tx[p].put[b].status = "confirmed"
          PROVE  bookings'[b] = bookings[b]
      <4>1. ~(Exists(b) /\ RowFree(b))
        BY <3>2 DEF SavesWhatItLocked, Exists, RowFree
      <4> QED
        BY <2>0, <2>1, <4>1, SingleEffect
    <3> QED
      BY <3>1, <3>2 DEF SavesWhatItLocked, Confirmed
  <2>2. ASSUME NEW p \in Workers, NEW t \in Tx, Begin(p, t), WritesKnownRows(t)
        PROVE  SavesWhatItLocked'
    <3>1. bookings' = bookings /\ tx' = [tx EXCEPT ![p] = t]
      BY <2>2 DEF Begin
    <3>2. ASSUME NEW b \in Ids, t.put[b].status = "confirmed"
          PROVE  \/ /\ bookings[b].status = "none"
                    /\ \A q \in Workers : tx[q].put[b].status = "none"
                 \/ /\ b \in t.rows
                    /\ Confirmed(b) /\ bookings[b].checkedIn = t.put[b].checkedIn
      BY <2>2, <3>2 DEF WritesKnownRows, Fresh
    <3>3. ASSUME NEW q \in Workers, NEW b \in Ids, tx[q].put[b].status = "confirmed",
                 bookings[b].status = "none"
          PROVE  t.put[b].status = "none"
      BY <2>2, <3>3 DEF WritesKnownRows, Fresh, Exists
    <3>4. ASSUME NEW q \in Workers \ {p}, NEW b \in Ids, tx'[q].put[b].status = "confirmed"
          PROVE  \/ /\ bookings'[b].status = "none"
                    /\ \A o \in Workers \ {q} : tx'[o].put[b].status = "none"
                 \/ /\ b \in tx'[q].rows
                    /\ bookings'[b].status = "confirmed"
                    /\ bookings'[b].checkedIn = tx'[q].put[b].checkedIn
      BY <2>0, <3>1, <3>3, <3>4 DEF SavesWhatItLocked, Confirmed
    <3>5. tx'[p] = t /\ \A q \in Workers \ {p} : tx'[q] = tx[q]
      BY <2>0, <3>1
    <3> QED
      BY <3>1, <3>2, <3>4, <3>5 DEF SavesWhatItLocked, Confirmed
  <2>3. ASSUME NEW p \in Workers, Abort(p) PROVE SavesWhatItLocked'
    BY <2>0, <2>3, RowTypes DEF Abort, SavesWhatItLocked, Confirmed
  <2>4. ASSUME NEW p \in Workers, Commit(p) PROVE SavesWhatItLocked'
    <3>1. /\ tx' = [tx EXCEPT ![p] = Idle]
          /\ \A b \in Ids : bookings'[b] = After(tx[p], b)
      BY <2>4 DEF Commit
    <3>2. ASSUME NEW q \in Workers \ {p}, NEW b \in Ids, tx[q].put[b].status = "confirmed"
          PROVE  bookings'[b] = bookings[b]
      BY <2>4, <3>1, <3>2 DEF SavesWhatItLocked, Commit, After, Writes, Exists
    <3> QED
      BY <2>0, <3>1, <3>2, RowTypes DEF SavesWhatItLocked, Confirmed
  <2>5. CASE UNCHANGED vars
    BY <2>5 DEF vars, SavesWhatItLocked, Confirmed
  <2> QED
    BY <2>0, <2>1, <2>2, <2>3, <2>4, <2>5, RequestEffect DEF LockedNext
<1> QED
  BY <1>1, <1>2, InductiveInvariant, PTL DEF LockedSpec

\* What any step does to a booking that is confirmed after it.
LEMMA StaysConfirmed ==
    ASSUME TypeOK, SavesWhatItLocked, [LockedNext]_vars,
           NEW b \in Ids, bookings'[b].status = "confirmed"
    PROVE  \/ bookings[b].status = "none"
           \/ Confirmed(b) /\ (bookings[b].checkedIn => bookings'[b].checkedIn)
<1>1. bookings[b] \in Row /\ bookings \in [Ids -> Row] /\ tx \in [Workers -> Tx]
  BY DEF TypeOK
<1>2. CASE bookings' = bookings
  BY <1>2 DEF Confirmed
<1>3. CASE Single
  BY <1>1, <1>3, SingleEffect DEF Confirmed, Row
<1>4. ASSUME NEW p \in Workers, Commit(p)
      PROVE  \/ bookings[b].status = "none"
             \/ Confirmed(b) /\ (bookings[b].checkedIn => bookings'[b].checkedIn)
  <2>1. bookings'[b] = After(tx[p], b)
    BY <1>4 DEF Commit
  <2>2. CASE b \in Writes(tx[p])
    BY <2>1, <2>2 DEF After, SavesWhatItLocked
  <2>3. CASE b \notin Writes(tx[p])
    BY <1>1, <2>1, <2>3 DEF After, Row, Confirmed
  <2> QED
    BY <2>2, <2>3
<1> QED
  BY <1>2, <1>3, <1>4, RequestEffect DEF LockedNext, Abort, Begin, vars

-----------------------------------------------------------------------------
(* With every PATCH body: what a save brings back or loses *)

\* The rows t writes are new, or rows that existed when it began; those it writes as
\* confirmed it has locked and its body names the status of one that is not, or it is a PATCH
\* without times.
WritesAccountedRows(t) ==
    \A b \in Ids : t.put[b].status # "none" =>
        \/ b \in Fresh
        \/ /\ Exists(b)
           /\ t.put[b].status = "confirmed" =>
                \/ b \in t.plain
                \/ /\ b \in t.rows /\ (Confirmed(b) \/ b \in t.named)
                   /\ bookings[b].checkedIn = t.put[b].checkedIn

\* SavesWhatItLocked as far as it holds when a PATCH may lock nothing or name a status.
SaveIsAccounted(p, b) ==
    \/ b \in tx[p].plain
    \/ /\ bookings[b].status = "none"
       /\ \A q \in Workers \ {p} : tx[q].put[b].status = "none"
    \/ /\ b \in tx[p].rows /\ (Confirmed(b) \/ b \in tx[p].named)
       /\ Exists(b) /\ bookings[b].checkedIn = tx[p].put[b].checkedIn

SavesAccounted ==
    \A p \in Workers, b \in Ids : tx[p].put[b].status = "confirmed" => SaveIsAccounted(p, b)

\* Every PATCH begins such a transaction (BookingViewSet.partial_update).
LEMMA PatchBegins ==
    ASSUME TypeOK, NEW p \in Workers, AnyPatch(p)
    PROVE  \E t \in Tx : Begin(p, t) /\ WritesAccountedRows(t)
<1>1. PICK b \in Ids, body \in Body :
         \/ PlainPatch(p, b, body)
         \/ \E u \in Users, slot \in OpenSlots[bookings[b].res] : Reschedule(p, u, b, slot, body)
  BY DEF AnyPatch
<1>2. /\ bookings[b] \in Row /\ Named(b, body) \subseteq Ids
      /\ b \notin Named(b, body) => body.status = Unset
      /\ body.status = Unset \/ body.status \in Status
      /\ body.res = Unset \/ body.res \in Resources
  BY ConstantsAssumption DEF TypeOK, Named, Body, Status, Choices
<1>3. ASSUME NEW row \in Row
      PROVE  /\ Edited(row, body) \in Row /\ Edited(row, body).checkedIn = row.checkedIn
             /\ body.status = Unset => Edited(row, body).status = row.status
  BY <1>2 DEF Edited, Row
<1>4. CASE PlainPatch(p, b, body)
  <2> DEFINE row == Edited(bookings[b], body)
             t == [Idle EXCEPT !.open = TRUE, !.put[b] = row, !.plain = {b},
                               !.named = Named(b, body)]
  <2>1. Begin(p, t) /\ Exists(b)
    BY <1>4 DEF PlainPatch
  <2>2. row \in Row
    BY <1>2, <1>3
  <2> HIDE DEF row
  <2>3. t \in Tx /\ t.plain = {b} /\ \A c \in Ids \ {b} : t.put[c] = NoRow
    BY <1>2, <2>2, RowTypes DEF Tx, Idle
  <2> QED
    BY <2>1, <2>3, RowTypes DEF WritesAccountedRows
<1>5. ASSUME NEW u \in Users, NEW slot \in OpenSlots[bookings[b].res],
             Reschedule(p, u, b, slot, body)
      PROVE  \E t \in Tx : Begin(p, t) /\ WritesAccountedRows(t)
  <2> DEFINE r == bookings[b].res
             moved == [bookings[b] EXCEPT !.start = slot.start, !.end = slot.end]
             row == Edited(moved, body)
             t == [Idle EXCEPT !.open = TRUE, !.locks = {r}, !.rows = {b}, !.put[b] = row,
                               !.named = Named(b, body)]
  <2>1. Begin(p, t) /\ Exists(b)
    BY <1>5 DEF Reschedule
  <2>2. slot \in [start : Nat, end : Nat] /\ r \in Resources
    BY <1>2, ConstantsAssumption DEF Slot, Row
  <2>3. moved \in Row /\ moved.status = bookings[b].status
        /\ moved.checkedIn = bookings[b].checkedIn
    BY <1>2, <2>2 DEF Row
  <2>4. /\ row \in Row /\ row.checkedIn = bookings[b].checkedIn
        /\ b \notin Named(b, body) => row.status = bookings[b].status
    BY <1>2, <1>3, <2>3
  <2> HIDE DEF row
  <2>5. /\ t \in Tx /\ t.rows = {b} /\ t.named = Named(b, body) /\ t.put[b] = row
        /\ \A c \in Ids \ {b} : t.put[c] = NoRow
    BY <1>2, <2>2, <2>4, RowTypes DEF Tx, Idle
  <2> QED
    BY <2>1, <2>4, <2>5, RowTypes DEF WritesAccountedRows, Confirmed
<1> QED
  BY <1>1, <1>4, <1>5

\* So does every other request.
LEMMA AnyRequestEffect ==
    ASSUME TypeOK, NEW p \in Workers, Request(p) \/ AnyPatch(p)
    PROVE  \/ Commit(p)
           \/ Abort(p)
           \/ \E t \in Tx : Begin(p, t) /\ WritesAccountedRows(t)
<1>1. \A t \in Tx : WritesKnownRows(t) => WritesAccountedRows(t)
  BY DEF WritesKnownRows, WritesAccountedRows
<1> QED
  BY <1>1, RequestEffect, PatchBegins

\* A save keeps its account: nobody writes a row that is locked or a key that is new.
LEMMA AccountKept ==
    ASSUME TypeOK, SavesAccounted, [Next]_vars
    PROVE  TypeOK' /\ SavesAccounted'
<1>0. tx \in [Workers -> Tx] /\ bookings \in [Ids -> Row]
  BY DEF TypeOK
<1>1. CASE Single
  <2>1. ASSUME NEW p \in Workers, NEW b \in Ids, tx[p].put[b].status = "confirmed",
               b \notin tx[p].plain
        PROVE  bookings'[b] = bookings[b]
    BY <1>1, <2>1, SingleEffect DEF SavesAccounted, SaveIsAccounted, Exists, RowFree
  <2> QED
    BY <1>1, <2>1, SingleType, SingleEffect
       DEF SavesAccounted, SaveIsAccounted, Confirmed, Exists
<1>2. ASSUME NEW p \in Workers, NEW t \in Tx, Begin(p, t), WritesAccountedRows(t)
      PROVE  TypeOK' /\ SavesAccounted'
  <2>1. /\ bookings' = bookings /\ tx'[p] = t /\ \A q \in Workers \ {p} : tx'[q] = tx[q]
    BY <1>0, <1>2 DEF Begin
  <2>2. ASSUME NEW b \in Ids, t.put[b].status = "confirmed"
        PROVE  SaveIsAccounted(p, b)'
    BY <1>2, <2>1, <2>2 DEF WritesAccountedRows, Fresh, SaveIsAccounted, Confirmed, Exists
  <2>3. ASSUME NEW q \in Workers \ {p}, NEW b \in Ids, tx[q].put[b].status = "confirmed"
        PROVE  SaveIsAccounted(q, b)'
    <3>1. bookings[b].status = "none" => t.put[b].status = "none"
      BY <1>2, <2>3 DEF WritesAccountedRows, Fresh, Exists
    <3> QED
      BY <2>1, <2>3, <3>1 DEF SavesAccounted, SaveIsAccounted, Confirmed, Exists
  <2> QED
    BY <1>2, <2>1, <2>2, <2>3, BeginType DEF SavesAccounted
<1>3. ASSUME NEW p \in Workers, Abort(p) PROVE TypeOK' /\ SavesAccounted'
  <2>1. /\ bookings' = bookings /\ tx' = [tx EXCEPT ![p] = Idle]
    BY <1>3 DEF Abort
  <2>2. TypeOK'
    BY <1>3, RowTypes DEF Abort, TypeOK
  <2>3. SavesAccounted'
    BY <1>0, <2>1, RowTypes DEF SavesAccounted, SaveIsAccounted, Confirmed, Exists
  <2> QED
    BY <2>2, <2>3
<1>4. ASSUME NEW p \in Workers, Commit(p) PROVE TypeOK' /\ SavesAccounted'
  <2>1. /\ tx' = [tx EXCEPT ![p] = Idle]
        /\ \A b \in Ids : bookings'[b] = After(tx[p], b)
    BY <1>4 DEF Commit
  <2>2. ASSUME NEW q \in Workers \ {p}, NEW b \in Ids, tx[q].put[b].status = "confirmed",
               b \notin tx[q].plain
        PROVE  bookings'[b] = bookings[b]
    BY <1>4, <2>1, <2>2 DEF SavesAccounted, SaveIsAccounted, Commit, After, Writes, Exists
  <2>3. SavesAccounted'
    BY <1>0, <2>1, <2>2, RowTypes DEF SavesAccounted, SaveIsAccounted, Confirmed, Exists
  <2> QED
    BY <1>4, <2>3, CommitType
<1>5. CASE UNCHANGED vars
  BY <1>5 DEF vars, TypeOK, SavesAccounted, SaveIsAccounted, Confirmed, Exists
<1> QED
  BY <1>1, <1>2, <1>3, <1>4, <1>5, AnyRequestEffect DEF Next, LockedNext

\* The inductive invariant of the two theorems below.
THEOREM SavesAreAccounted == Spec => [](TypeOK /\ SavesAccounted)
<1>1. Init => TypeOK /\ SavesAccounted
  BY RowTypes, ConstantsAssumption DEF Init, TypeOK, SavesAccounted
<1>2. TypeOK /\ SavesAccounted /\ [Next]_vars => TypeOK' /\ SavesAccounted'
  BY AccountKept
<1> QED
  BY <1>1, <1>2, PTL DEF Spec

\* What any step does to a booking that is confirmed after it.
LEMMA ConfirmedAfter ==
    ASSUME TypeOK, SavesAccounted, [Next]_vars,
           NEW b \in Ids, bookings'[b].status = "confirmed",
           \A p \in Workers : ~(Commit(p) /\ b \in tx[p].plain)
    PROVE  \/ bookings[b].status = "none"
           \/ /\ Confirmed(b) \/ \E p \in Workers : Commit(p) /\ b \in tx[p].named
              /\ bookings[b].checkedIn => bookings'[b].checkedIn
<1>1. bookings[b] \in Row /\ bookings \in [Ids -> Row] /\ tx \in [Workers -> Tx]
  BY DEF TypeOK
<1>2. CASE bookings' = bookings
  BY <1>2 DEF Confirmed
<1>3. ASSUME Single
      PROVE  Confirmed(b) /\ (bookings[b].checkedIn => bookings'[b].checkedIn)
  <2>1. \/ bookings'[b] = bookings[b]
        \/ bookings'[b] = [bookings[b] EXCEPT !.checkedIn = TRUE]
    BY <1>3, SingleEffect
  <2> QED
    BY <1>1, <2>1 DEF Confirmed, Row
<1>4. ASSUME NEW p \in Workers, Commit(p)
      PROVE  \/ bookings[b].status = "none"
             \/ /\ Confirmed(b) \/ b \in tx[p].named
                /\ bookings[b].checkedIn => bookings'[b].checkedIn
  <2>1. bookings'[b] = After(tx[p], b)
    BY <1>4 DEF Commit
  <2>2. CASE b \in Writes(tx[p])
    BY <1>4, <2>1, <2>2 DEF After, SavesAccounted, SaveIsAccounted
  <2>3. CASE b \notin Writes(tx[p])
    BY <1>1, <2>1, <2>3 DEF After, Row, Confirmed
  <2> QED
    BY <2>2, <2>3
<1> QED
  BY <1>2, <1>3, <1>4, AnyRequestEffect DEF Next, LockedNext, Abort, Begin, vars

\* With every PATCH body: a booking that has left the calendar returns to it only by the save
\* of a PATCH without times, or of one that names the status (views.py:1617, 1676).
THEOREM NothingElseRevives == Spec => NoRevival
<1>1. TypeOK /\ SavesAccounted /\ [Next]_vars =>
        [\A b \in Ids :
            bookings[b].status \notin {"none", "confirmed"} /\ bookings'[b].status = "confirmed"
                => \E p \in Workers : Commit(p) /\ b \in tx[p].plain \cup tx[p].named]_vars
  BY ConfirmedAfter DEF Confirmed
<1> QED
  BY <1>1, SavesAreAccounted, PTL DEF Spec, NoRevival

\* With every PATCH body: a check-in is lost only to the save of a PATCH without times.
THEOREM CheckInsSurvive == Spec => CheckInKept
<1>1. TypeOK /\ SavesAccounted /\ [Next]_vars =>
        [\A b \in Ids :
            Confirmed(b) /\ bookings[b].checkedIn /\ bookings'[b].status = "confirmed"
                => \/ bookings'[b].checkedIn
                   \/ \E p \in Workers : Commit(p) /\ b \in tx[p].plain]_vars
  BY ConfirmedAfter DEF Confirmed
<1> QED
  BY <1>1, SavesAreAccounted, PTL DEF Spec, CheckInKept

-----------------------------------------------------------------------------
(* What an open transaction is going to do to the calendar *)

\* It confirms nothing.
Ends(t) == \A b \in Ids : t.put[b].status # "confirmed"

\* It confirms new bookings, and cancels only bookings of a lower priority that are in
\* the way of one of them.
MakesRoom(t) ==
    /\ t.rows = {}
    /\ \A b \in Writes(t) : t.put[b].status = "confirmed"
    /\ \A c \in t.cancel :
          /\ bookings[c].status # "none"
          /\ Confirmed(c) => \E b \in Writes(t) : /\ bookings[c].res = t.put[b].res
                                                  /\ Overlaps(bookings[c], t.put[b])
                                                  /\ bookings[c].prio < t.put[b].prio

\* It gives a booking it has locked other times.
Moves(t) ==
    /\ t.cancel = {}
    /\ \E b \in t.rows : /\ b \in Ids /\ Writes(t) = {b} /\ t.put[b].status = "confirmed"
                         /\ Confirmed(b)
                         /\ t.put[b].res = bookings[b].res /\ t.put[b].prio = bookings[b].prio

Plan(t) == Ends(t) \/ MakesRoom(t) \/ Moves(t)

Plans == \A p \in Workers : Plan(tx[p])

\* Every handler plans one of the three.
LEMMA RequestPlans ==
    ASSUME TypeOK, NEW p \in Workers, Request(p)
    PROVE  Commit(p) \/ Abort(p) \/ \E t \in Tx : Begin(p, t) /\ Plan(t)
<1>1. ASSUME NEW u \in Users, NEW r \in Resources, NEW slot \in OpenSlots[r],
             Create(p, u, r, slot)
      PROVE  \E t \in Tx : Begin(p, t) /\ Plan(t)
  <2> DEFINE out == Conflicting(r, slot, {})
             row == [res |-> r, user |-> u, start |-> slot.start, end |-> slot.end,
                     status |-> "confirmed", prio |-> Tier[u], checkedIn |-> FALSE]
             t(b) == [Idle EXCEPT !.open = TRUE, !.locks = {r}, !.put[b] = row, !.cancel = out]
  <2>1. PICK b \in Fresh : Begin(p, t(b))
    BY <1>1 DEF Create
  <2>2. b \in Ids /\ slot \in [start : Nat, end : Nat]
    BY ConstantsAssumption DEF Fresh, Slot
  <2>3. row \in Row /\ out \in SUBSET Ids
    BY <2>2, ConstantsAssumption DEF Row, Status, Conflicting
  <2>4. /\ t(b) \in Tx /\ t(b).rows = {} /\ t(b).cancel = out
        /\ t(b).put[b] = row /\ \A c \in Ids \ {b} : t(b).put[c] = NoRow
    BY <2>2, <2>3, RowTypes DEF Tx, Idle
  <2>5. Writes(t(b)) = {b}
    BY <2>2, <2>4, RowTypes DEF Writes
  <2>6. \A c \in out : /\ Confirmed(c) /\ bookings[c].res = r
                       /\ Overlaps(bookings[c], slot) /\ bookings[c].prio < Tier[u]
    BY <1>1 DEF Create, Conflicting, Displaceable
  <2>7. \A c \in out : /\ bookings[c].res = row.res /\ Overlaps(bookings[c], row)
                       /\ bookings[c].prio < row.prio /\ bookings[c].status # "none"
    BY <2>6 DEF Overlaps, Confirmed
  <2>8. MakesRoom(t(b))
    <3> HIDE DEF out, row, t
    <3>1. row.status = "confirmed"
      BY DEF row
    <3> QED
      BY <2>4, <2>5, <2>7, <3>1 DEF MakesRoom
  <2> QED
    BY <2>1, <2>4, <2>8 DEF Plan
<1>2. ASSUME NEW u \in Users, NEW r \in Resources, NEW slots \in Series,
             MaterialiseSeries(p, u, r, slots)
      PROVE  \E t \in Tx : Begin(p, t) /\ Plan(t)
  <2> DEFINE kept == {s \in slots : /\ s.end > now
                                    /\ Conflicting(r, s, {}) = {}
                                    /\ ~Blocked(r, s)}
             row(s) == [res |-> r, user |-> u, start |-> s.start, end |-> s.end,
                        status |-> "confirmed", prio |-> 1, checkedIn |-> FALSE]
             put(key) == [b \in Ids |-> IF \E s \in kept : key[s] = b
                                       THEN row(CHOOSE s \in kept : key[s] = b)
                                       ELSE NoRow]
             t(key) == [Idle EXCEPT !.open = TRUE, !.locks = {r}, !.put = put(key)]
  <2>1. PICK key \in [kept -> Fresh] : Begin(p, t(key))
    BY <1>2 DEF MaterialiseSeries
  <2>2. \A s \in kept : row(s) \in Row /\ row(s).status = "confirmed"
    BY ConstantsAssumption DEF Slot, Row, Status
  <2>3. \A b \in Ids : put(key)[b] = NoRow \/ \E s \in kept : put(key)[b] = row(s)
    OBVIOUS
  <2>4. put(key) \in [Ids -> Row]
    <3>1. \A b \in Ids : put(key)[b] \in Row
      BY <2>2, <2>3, RowTypes
    <3> QED
      BY <3>1
  <2>5. t(key) \in Tx /\ t(key).rows = {} /\ t(key).cancel = {} /\ t(key).put = put(key)
    BY <2>4, RowTypes DEF Tx, Idle
  <2>6. MakesRoom(t(key))
    <3> HIDE DEF kept, row, put, t
    <3> QED
      BY <2>2, <2>3, <2>5, RowTypes DEF MakesRoom, Writes
  <2> QED
    BY <2>1, <2>5, <2>6 DEF Plan
<1>3. ASSUME NEW u \in Users, NEW b \in Ids, NEW slot \in OpenSlots[bookings[b].res],
             Reschedule(p, u, b, slot, TimesOnly)
      PROVE  \E t \in Tx : Begin(p, t) /\ Plan(t)
  <2> DEFINE r == bookings[b].res
             row == Edited([bookings[b] EXCEPT !.start = slot.start, !.end = slot.end], TimesOnly)
             t == [Idle EXCEPT !.open = TRUE, !.locks = {r}, !.rows = {b}, !.put[b] = row,
                               !.named = {}]
  <2>0. Named(b, TimesOnly) = {}
    BY DEF Named, TimesOnly
  <2>1. Begin(p, t)
    BY <1>3, <2>0 DEF Reschedule
  <2>2. bookings[b] \in Row /\ slot \in [start : Nat, end : Nat] /\ r \in Resources
    BY ConstantsAssumption DEF Slot, TypeOK, Row
  <2>3. /\ row \in Row /\ row.res = r /\ row.prio = bookings[b].prio
        /\ row.status = bookings[b].status
    BY <2>2 DEF Row, Edited, TimesOnly, Unset
  <2>4. /\ t \in Tx /\ t.rows = {b} /\ t.cancel = {}
        /\ t.put[b] = row /\ \A c \in Ids \ {b} : t.put[c] = NoRow
    BY <2>2, <2>3, RowTypes DEF Tx, Idle
  <2>5. Plan(t)
    <3> HIDE DEF row, t
    <3>1. CASE Confirmed(b)
      <4>1. Writes(t) = {b}
        BY <2>3, <2>4, <3>1, RowTypes DEF Writes, Confirmed
      <4> QED
        BY <2>3, <2>4, <3>1, <4>1 DEF Plan, Moves, Confirmed
    <3>2. CASE ~Confirmed(b)
      BY <2>3, <2>4, <3>2, RowTypes DEF Plan, Ends, Confirmed
    <3> QED
      BY <3>1, <3>2
  <2> QED
    BY <2>1, <2>4, <2>5
<1> QED
  BY <1>1, <1>2, <1>3, OthersBegin DEF Request, Plan, Ends

-----------------------------------------------------------------------------
(* What a step does to a booking *)

\* A key that has been used is used for ever.
LEMMA KeysStayUsed ==
    ASSUME TypeOK, [LockedNext]_vars, NEW c \in Ids, bookings[c].status # "none"
    PROVE  bookings'[c].status # "none"
<1>0. bookings \in [Ids -> Row] /\ \A b \in Ids : bookings[b] \in Row
  BY DEF TypeOK
<1>1. CASE bookings' = bookings
  BY <1>1
<1>2. ASSUME NEW b \in Ids, AdminCancel(b) \/ Delete(b) \/ CheckIn(b) \/ CompleteOne(b)
      PROVE  bookings'[c].status # "none"
  <2>1. CASE AdminCancel(b)
    BY <1>0, <2>1 DEF AdminCancel, Row
  <2>2. CASE Delete(b)
    BY <1>0, <2>2, RowTypes DEF Delete, Row
  <2>3. CASE CheckIn(b)
    BY <1>0, <2>3 DEF CheckIn, Row
  <2>4. CASE CompleteOne(b)
    BY <1>0, <2>4 DEF CompleteOne, Row
  <2> QED
    BY <1>2, <2>1, <2>2, <2>3, <2>4
<1>3. CASE FinishNoShow
  BY <1>0, <1>3 DEF FinishNoShow, Row
<1>4. ASSUME NEW p \in Workers, Commit(p) PROVE bookings'[c].status # "none"
  BY <1>0, <1>4 DEF Commit, After, Writes, Row
<1>5. CASE Single
  <2>1. CASE \/ \E k \in blocks : Unblock(k)
             \/ StartAutoComplete \/ StartNoShow \/ TaskCrash \/ Tick
    BY <1>1, <2>1 DEF Unblock, StartAutoComplete, StartNoShow, TaskCrash, Tick
  <2> QED
    BY <1>2, <1>3, <1>5, <2>1 DEF Single
<1>6. ASSUME NEW p \in Workers, Request(p) PROVE bookings'[c].status # "none"
  <2>1. CASE Abort(p) \/ \E t \in Tx : Begin(p, t)
    BY <1>1, <2>1 DEF Abort, Begin
  <2> QED
    BY <1>4, <1>6, <2>1, RequestPlans
<1> QED
  BY <1>1, <1>5, <1>6 DEF LockedNext, vars

\* A booking that stays confirmed stays on its resource and keeps its priority; only a
\* transaction that has locked the resource moves it.
LEMMA StaysInPlace ==
    ASSUME IInv, SavesWhatItLocked, Plans, [LockedNext]_vars,
           NEW c \in Ids, Confirmed(c), bookings'[c].status = "confirmed"
    PROVE  /\ bookings'[c].res = bookings[c].res /\ bookings'[c].prio = bookings[c].prio
           /\ \/ bookings'[c].start = bookings[c].start /\ bookings'[c].end = bookings[c].end
              \/ \E p \in Workers : Commit(p) /\ bookings[c].res \in tx[p].locks
<1>0. TypeOK /\ bookings[c] \in Row /\ tx \in [Workers -> Tx]
  BY DEF IInv, TypeOK
<1>1. CASE bookings' = bookings
  BY <1>1
<1>2. CASE Single
  <2>1. \/ bookings'[c] = bookings[c]
        \/ bookings'[c] = [bookings[c] EXCEPT !.checkedIn = TRUE]
    BY <1>0, <1>2, SingleEffect
  <2> QED
    BY <1>0, <2>1 DEF Row
<1>3. ASSUME NEW p \in Workers, Commit(p)
      PROVE  /\ bookings'[c].res = bookings[c].res /\ bookings'[c].prio = bookings[c].prio
             /\ \/ bookings'[c].start = bookings[c].start /\ bookings'[c].end = bookings[c].end
                \/ bookings[c].res \in tx[p].locks
  <2>1. bookings'[c] = After(tx[p], c)
    BY <1>3 DEF Commit
  <2>2. CASE c \in Writes(tx[p])
    <3>1. bookings'[c] = tx[p].put[c] /\ tx[p].put[c].status = "confirmed"
      BY <2>1, <2>2 DEF After
    <3>2. c \in tx[p].rows
      BY <3>1 DEF SavesWhatItLocked, Confirmed
    <3>3. Moves(tx[p])
      BY <3>1, <3>2 DEF Plans, Plan, Ends, MakesRoom
    <3>4. tx[p].put[c].res = bookings[c].res /\ tx[p].put[c].prio = bookings[c].prio
      BY <2>2, <3>3 DEF Moves
    <3>5. tx[p].put[c].res \in tx[p].locks
      BY <3>1 DEF IInv, PendingIsClear, ReservesClearTime
    <3> QED
      BY <3>1, <3>4, <3>5
  <2>3. CASE c \notin Writes(tx[p])
    BY <1>0, <2>1, <2>3 DEF After, Row
  <2> QED
    BY <2>2, <2>3
<1>4. ASSUME NEW p \in Workers, Request(p)
      PROVE  Commit(p) \/ bookings' = bookings
  BY <1>0, <1>4, RequestPlans DEF Abort, Begin
<1>5. CASE \E p \in Workers : Request(p)
  <2>1. PICK p \in Workers : Request(p)
    BY <1>5
  <2>2. CASE Commit(p)
    BY <1>3, <2>2
  <2> QED
    BY <1>1, <1>4, <2>1, <2>2
<1> QED
  BY <1>1, <1>2, <1>5 DEF LockedNext, vars

-----------------------------------------------------------------------------
(* The plans hold until they are carried out *)

\* The plan of a transaction that does not end in this step: its locks keep the bookings
\* in its way, or the booking it moves, where they were.
LEMMA PlanKept ==
    ASSUME IInv, SavesWhatItLocked, Plans, [LockedNext]_vars, SavesWhatItLocked',
           NEW q \in Workers, tx'[q] = tx[q], ~Commit(q)
    PROVE  Plan(tx[q])'
<1> DEFINE t == tx[q]
<1>0. TypeOK /\ tx \in [Workers -> Tx] /\ t \in Tx
  BY DEF IInv, TypeOK
<1>1. CASE Ends(t)
  BY <1>1 DEF Plan, Ends
<1>2. CASE MakesRoom(t)
  <2>1. ASSUME NEW c \in t.cancel
        PROVE  /\ bookings'[c].status # "none"
               /\ bookings'[c].status = "confirmed" =>
                     \E b \in Writes(t) : /\ bookings'[c].res = t.put[b].res
                                          /\ Overlaps(bookings'[c], t.put[b])
                                          /\ bookings'[c].prio < t.put[b].prio
    <3>0. c \in Ids
      BY <1>0, <2>1 DEF Tx
    <3>1. bookings[c].status # "none" /\ bookings'[c].status # "none"
      BY <1>0, <1>2, <2>1, <3>0, KeysStayUsed DEF MakesRoom
    <3>2. SUFFICES ASSUME bookings'[c].status = "confirmed"
                   PROVE  \E b \in Writes(t) : /\ bookings'[c].res = t.put[b].res
                                               /\ Overlaps(bookings'[c], t.put[b])
                                               /\ bookings'[c].prio < t.put[b].prio
      BY <3>1
    <3>3. Confirmed(c)
      BY <1>0, <3>0, <3>1, <3>2, StaysConfirmed
    <3>4. PICK b \in Writes(t) : /\ bookings[c].res = t.put[b].res
                                 /\ Overlaps(bookings[c], t.put[b])
                                 /\ bookings[c].prio < t.put[b].prio
      BY <1>2, <2>1, <3>3 DEF MakesRoom
    <3>5. t.put[b].res \in t.locks
      BY <1>2, <3>4 DEF MakesRoom, Writes, IInv, PendingIsClear, ReservesClearTime
    <3>6. ~ \E p \in Workers : Commit(p) /\ bookings[c].res \in tx[p].locks
      BY <3>4, <3>5 DEF IInv, LocksExclusive
    <3>7. /\ bookings'[c].res = bookings[c].res /\ bookings'[c].prio = bookings[c].prio
          /\ bookings'[c].start = bookings[c].start /\ bookings'[c].end = bookings[c].end
      BY <3>0, <3>2, <3>3, <3>6, StaysInPlace
    <3> QED
      BY <3>4, <3>7 DEF Overlaps
  <2>2. MakesRoom(tx[q])'
    BY <1>2, <2>1 DEF MakesRoom, Writes, Confirmed
  <2> QED
    BY <2>2 DEF Plan
<1>3. CASE Moves(t)
  <2>1. PICK b \in Ids : /\ b \in t.rows /\ Writes(t) = {b} /\ t.put[b].status = "confirmed"
                         /\ Confirmed(b) /\ t.cancel = {}
                         /\ t.put[b].res = bookings[b].res /\ t.put[b].prio = bookings[b].prio
    BY <1>3 DEF Moves
  <2>2. bookings'[b].status = "confirmed"
    <3>1. bookings'[b].status # "none"
      BY <1>0, <2>1, KeysStayUsed DEF Confirmed
    <3> QED
      BY <2>1, <3>1 DEF SavesWhatItLocked, Confirmed
  <2>3. bookings'[b].res = bookings[b].res /\ bookings'[b].prio = bookings[b].prio
    BY <2>1, <2>2, StaysInPlace
  <2>4. Moves(tx[q])'
    BY <2>1, <2>2, <2>3 DEF Moves, Writes, Confirmed
  <2> QED
    BY <2>4 DEF Plan
<1> QED
  BY <1>1, <1>2, <1>3 DEF Plans, Plan

\* Open transactions carry out one of the three plans, whatever commits beside them.
THEOREM PlansHold == LockedSpec => []Plans
<1>1. Init => Plans
  BY RowTypes DEF Init, Plans, Plan, Ends
<1>2. IInv /\ SavesWhatItLocked /\ Plans /\ [LockedNext]_vars /\ SavesWhatItLocked' => Plans'
  <2> SUFFICES ASSUME IInv, SavesWhatItLocked, Plans, [LockedNext]_vars, SavesWhatItLocked',
                      NEW q \in Workers
               PROVE  Plan(tx[q])'
    BY DEF Plans
  <2>0. TypeOK /\ tx \in [Workers -> Tx]
    BY DEF IInv, TypeOK
  <2>1. CASE tx'[q] = tx[q] /\ ~Commit(q)
    BY <2>1, PlanKept
  <2>2. CASE tx'[q] = Idle
    BY <2>2, RowTypes DEF Plan, Ends
  <2>3. ASSUME NEW t \in Tx, Begin(q, t), Plan(t)
        PROVE  Plan(tx[q])'
    BY <2>0, <2>3 DEF Begin, Plan, Ends, MakesRoom, Moves, Writes, Confirmed
  <2>4. \/ tx' = tx
        \/ \E p \in Workers : \/ tx' = [tx EXCEPT ![p] = Idle]
                             \/ \E t \in Tx : Begin(p, t) /\ Plan(t)
    BY <2>0, SingleEffect, RequestPlans DEF LockedNext, vars, Commit, Abort
  <2>5. Commit(q) => tx'[q] = Idle
    BY <2>0 DEF Commit
  <2>6. ASSUME NEW p \in Workers \ {q}, \/ tx' = [tx EXCEPT ![p] = Idle]
                                        \/ \E t \in Tx : Begin(p, t)
        PROVE  tx'[q] = tx[q]
    BY <2>0, <2>6 DEF Begin
  <2> QED
    BY <2>0, <2>1, <2>2, <2>3, <2>4, <2>5, <2>6
<1> QED
  BY <1>1, <1>2, InductiveInvariant, SavesAreCurrent, PTL DEF LockedSpec

-----------------------------------------------------------------------------
(* Commits in the calendar *)

\* The reservation that stands for a booking.
Entry(b) == [id |-> b, res |-> bookings[b].res, start |-> bookings[b].start,
             end |-> bookings[b].end, prio |-> bookings[b].prio]

\* The calendar holds the entries of the confirmed bookings.
LEMMA HeldEntries ==
    /\ Held = {Entry(b) : b \in {c \in Ids : Confirmed(c)}}
    /\ Held' = {Entry(b)' : b \in {c \in Ids : bookings'[c].status = "confirmed"}}
  BY DEF Held, Entry, Confirmed

\* No two entries clash when the bookings do not overlap.
LEMMA NoEntriesClash ==
    ASSUME NoDoubleBooking'
    PROVE  \A n, h \in Held' : ~Calendar!Clash(n, h)
  BY HeldEntries DEF Entry, Calendar!Clash, NoDoubleBooking, Confirmed, Overlaps

\* A step after which every confirmed booking is where it was releases reservations.
LEMMA Releases ==
    ASSUME \A b \in Ids : bookings'[b].status = "confirmed" =>
               Confirmed(b) /\ Entry(b)' = Entry(b)
    PROVE  Calendar!Release
  BY HeldEntries DEF Calendar!Release

\* New bookings and the ones they displace.
LEMMA Reserves ==
    ASSUME IInv, SavesWhatItLocked, NoDoubleBooking', NEW p \in Workers, Commit(p),
           MakesRoom(tx[p])
    PROVE  Calendar!Reserve
<1> DEFINE t == tx[p]
<1>0. /\ TypeOK /\ t \in Tx /\ \A c \in Ids : bookings[c] \in Row
      /\ \A c \in Ids : bookings'[c] = After(t, c)
  BY DEF Commit, IInv, TypeOK
<1>1. \A b \in Writes(t) : /\ b \in Ids /\ bookings[b].status = "none"
                           /\ bookings'[b] = t.put[b] /\ bookings'[b].status = "confirmed"
  <2> SUFFICES ASSUME NEW b \in Writes(t)
               PROVE  /\ b \in Ids /\ bookings[b].status = "none"
                      /\ bookings'[b] = t.put[b] /\ bookings'[b].status = "confirmed"
    OBVIOUS
  <2>1. b \in Ids /\ t.put[b].status = "confirmed" /\ t.rows = {}
    BY DEF MakesRoom, Writes
  <2>2. bookings[b].status = "none"
    BY <2>1 DEF SavesWhatItLocked
  <2>3. bookings'[b] = t.put[b]
    BY <1>0, <2>1 DEF After
  <2> QED
    BY <2>1, <2>2, <2>3
<1>2. \A c \in Ids \ Writes(t) :
        bookings'[c].status = "confirmed" => Confirmed(c) /\ Entry(c)' = Entry(c)
  BY <1>0 DEF After, Row, Confirmed, Entry
<1>3. \A n \in Calendar!Gained : \E b \in Writes(t) : n = Entry(b)'
  BY <1>2, HeldEntries DEF Calendar!Gained
<1>4. \A b \in Writes(t) : Entry(b)' \in Calendar!Gained
  BY <1>1, HeldEntries DEF Calendar!Gained, Entry, Confirmed
<1>5. ASSUME NEW o \in Calendar!Lost
      PROVE  \E n \in Calendar!Gained : Calendar!Clash(n, o) /\ o.prio < n.prio
  <2>1. PICK c \in Ids : Confirmed(c) /\ o = Entry(c)
    BY <1>5, HeldEntries DEF Calendar!Lost
  <2>2. c \notin Writes(t)
    BY <1>1, <2>1 DEF Confirmed
  <2>3. c \in t.cancel
    <3>1. bookings'[c].status # "confirmed"
      BY <1>2, <1>5, <2>1, <2>2, HeldEntries DEF Calendar!Lost
    <3> QED
      BY <1>0, <2>1, <2>2, <3>1 DEF After, Row, Confirmed
  <2>4. PICK b \in Writes(t) : /\ bookings[c].res = t.put[b].res
                               /\ Overlaps(bookings[c], t.put[b])
                               /\ bookings[c].prio < t.put[b].prio
    BY <2>1, <2>3 DEF MakesRoom
  <2>5. Entry(b)' \in Calendar!Gained /\ b # c /\ bookings'[b] = t.put[b]
    BY <1>1, <1>4, <2>2
  <2>6. t.put[b] \in Row /\ bookings[c] \in Row
    BY <1>0, <1>1 DEF Tx
  <2>7. Calendar!Clash(Entry(b)', o) /\ o.prio < (Entry(b)').prio
    BY <2>1, <2>4, <2>5, <2>6 DEF Calendar!Clash, Entry, Overlaps, Row
  <2> QED
    BY <2>5, <2>7
<1>6. \A n \in Calendar!Gained : \A h \in Held : n.id # h.id
  BY <1>1, <1>3, HeldEntries DEF Entry, Confirmed
<1>7. Calendar!Clear(Calendar!Gained, Held')
  BY NoEntriesClash DEF Calendar!Clear, Calendar!Gained
<1> QED
  BY <1>5, <1>6, <1>7 DEF Calendar!Reserve

\* A booking that takes other times.
LEMMA MovesOne ==
    ASSUME IInv, NoDoubleBooking', NEW p \in Workers, Commit(p), Moves(tx[p])
    PROVE  Calendar!Move \/ Calendar!Release
<1> DEFINE t == tx[p]
<1>0. /\ TypeOK /\ t \in Tx /\ \A c \in Ids : bookings[c] \in Row
      /\ \A c \in Ids : bookings'[c] = After(t, c)
  BY DEF Commit, IInv, TypeOK
<1>1. PICK b \in Ids : /\ Writes(t) = {b} /\ t.put[b].status = "confirmed" /\ Confirmed(b)
                       /\ t.cancel = {}
                       /\ t.put[b].res = bookings[b].res /\ t.put[b].prio = bookings[b].prio
  BY DEF Moves
<1>2. bookings'[b] = t.put[b]
  BY <1>0, <1>1 DEF After
<1>3. \A c \in Ids \ {b} : /\ bookings'[c].status = bookings[c].status
                            /\ Entry(c)' = Entry(c)
  BY <1>0, <1>1 DEF After, Row, Entry
<1>4. CASE Entry(b)' = Entry(b)
  BY <1>1, <1>3, <1>4, Releases DEF Confirmed
<1>5. CASE Entry(b)' # Entry(b)
  <2>1. /\ Entry(b) \in Held /\ Entry(b)' \in Held'
        /\ \A h \in Held : h.id = b => h = Entry(b)
        /\ \A h \in Held' : h.id = b => h = Entry(b)'
        /\ (Entry(b)').id = b /\ Entry(b).id = b
    BY <1>1, <1>2, HeldEntries DEF Entry
  <2>2. \A h : h.id # b => (h \in Held <=> h \in Held')
    <3>1. ASSUME NEW h \in Held, h.id # b PROVE h \in Held'
      <4>1. PICK c \in Ids : Confirmed(c) /\ h = Entry(c)
        BY HeldEntries
      <4>2. c # b
        BY <3>1, <4>1 DEF Entry
      <4> QED
        BY <1>3, <4>1, <4>2, HeldEntries DEF Confirmed
    <3>2. ASSUME NEW h \in Held', h.id # b PROVE h \in Held
      <4>1. PICK c \in Ids : bookings'[c].status = "confirmed" /\ h = Entry(c)'
        BY HeldEntries
      <4>2. c # b
        BY <3>2, <4>1 DEF Entry
      <4> QED
        BY <1>3, <4>1, <4>2, HeldEntries DEF Confirmed
    <3> QED
      BY <3>1, <3>2
  <2>3. Calendar!Lost = {Entry(b)} /\ Calendar!Gained = {Entry(b)'}
    BY <1>5, <2>1, <2>2 DEF Calendar!Lost, Calendar!Gained
  <2>4. (Entry(b)').prio = Entry(b).prio /\ (Entry(b)').res = Entry(b).res
    BY <1>1, <1>2 DEF Entry
  <2>5. Calendar!Clear({Entry(b)'}, Held')
    BY <2>1, NoEntriesClash DEF Calendar!Clear
  <2> QED
    BY <2>1, <2>3, <2>4, <2>5 DEF Calendar!Move
<1> QED
  BY <1>4, <1>5

\* The bookings are a calendar: reservations appear on free time, make room only for higher
\* priorities, move only to free time.
THEOREM CalendarIsImplemented == LockedSpec => ImplementsCalendar
<1>1. Init => Calendar!Init
  BY RowTypes, HeldEntries DEF Init, Calendar!Init, Confirmed
<1>2. IInv /\ IInv' /\ SavesWhatItLocked /\ Plans /\ [LockedNext]_vars
        => [Calendar!Next]_Held
  <2> SUFFICES ASSUME IInv, IInv', SavesWhatItLocked, Plans, [LockedNext]_vars
               PROVE  Calendar!Next
    OBVIOUS
  <2>0. TypeOK /\ NoDoubleBooking' /\ \A c \in Ids : bookings[c] \in Row
    BY DEF IInv, TypeOK
  <2>1. CASE bookings' = bookings
    BY <2>1, Releases DEF Calendar!Next, Entry, Confirmed
  <2>2. CASE Single
    <3>1. ASSUME NEW b \in Ids, bookings'[b].status = "confirmed"
          PROVE  Confirmed(b) /\ Entry(b)' = Entry(b)
      <4>1. \/ bookings'[b] = bookings[b]
            \/ bookings'[b] = [bookings[b] EXCEPT !.checkedIn = TRUE]
        BY <2>0, <2>2, <3>1, SingleEffect
      <4> QED
        BY <2>0, <3>1, <4>1 DEF Row, Confirmed, Entry
    <3> QED
      BY <3>1, Releases DEF Calendar!Next
  <2>3. ASSUME NEW p \in Workers, Commit(p)
        PROVE  Calendar!Next
    <3>1. CASE Ends(tx[p])
      <4>1. ASSUME NEW b \in Ids, bookings'[b].status = "confirmed"
            PROVE  Confirmed(b) /\ Entry(b)' = Entry(b)
        BY <2>0, <2>3, <3>1, <4>1 DEF Commit, After, Writes, Ends, Row, Confirmed, Entry
      <4> QED
        BY <4>1, Releases DEF Calendar!Next
    <3>2. CASE MakesRoom(tx[p])
      BY <2>0, <2>3, <3>2, Reserves DEF Calendar!Next
    <3>3. CASE Moves(tx[p])
      BY <2>0, <2>3, <3>3, MovesOne DEF Calendar!Next
    <3> QED
      BY <3>1, <3>2, <3>3 DEF Plans, Plan
  <2>4. ASSUME NEW p \in Workers, Request(p)
        PROVE  Commit(p) \/ bookings' = bookings
    BY <2>0, <2>4, RequestPlans DEF Abort, Begin
  <2>5. CASE \E p \in Workers : Request(p)
    BY <2>1, <2>3, <2>4, <2>5
  <2> QED
    BY <2>1, <2>2, <2>5 DEF LockedNext, vars
<1> QED
  BY <1>1, <1>2, InductiveInvariant, SavesAreCurrent, PlansHold, PTL
     DEF LockedSpec, ImplementsCalendar, Calendar!Spec
-----------------------------------------------------------------------------
(* Cancellation audits *)

\* What t audits it cancels, and does not confirm again.
AuditsItsCancellations(t) ==
    \A b \in t.audit :
        \/ t.put[b].status = "cancelled"
        \/ b \in t.cancel /\ b \notin Writes(t)

\* The inductive invariant behind AuditedIsReleased.
AuditsFollow ==
    /\ \A b \in audits : bookings[b].status \notin {"none", "confirmed"}
    /\ \A p \in Workers : AuditsItsCancellations(tx[p])

\* cancel, bulk_cancel and block create the audit rows with the cancellation; the other
\* handlers create none.
LEMMA RequestAudits ==
    ASSUME TypeOK, NEW p \in Workers, Request(p)
    PROVE  \/ Commit(p) \/ Abort(p)
           \/ \E t : Begin(p, t) /\ AuditsItsCancellations(t)
<1>0. Idle.audit = {}
  BY DEF Idle
<1>1. ASSUME NEW u \in Users, NEW r \in Resources, NEW slot, Create(p, u, r, slot)
      PROVE  \E t : Begin(p, t) /\ t.audit = {}
  <2> DEFINE row == [res |-> r, user |-> u, start |-> slot.start, end |-> slot.end,
                     status |-> "confirmed", prio |-> Tier[u], checkedIn |-> FALSE]
             t(b) == [Idle EXCEPT !.open = TRUE, !.locks = {r}, !.put[b] = row,
                                  !.cancel = Conflicting(r, slot, {})]
  <2>1. PICK b \in Fresh : Begin(p, t(b))
    BY <1>1 DEF Create
  <2>2. t(b).audit = {}
    BY DEF Idle
  <2> QED
    BY <2>1, <2>2
<1>2. ASSUME NEW u \in Users, NEW r \in Resources, NEW slots, MaterialiseSeries(p, u, r, slots)
      PROVE  \E t : Begin(p, t) /\ t.audit = {}
  <2> DEFINE kept == {s \in slots : /\ s.end > now
                                    /\ Conflicting(r, s, {}) = {}
                                    /\ ~Blocked(r, s)}
             row(s) == [res |-> r, user |-> u, start |-> s.start, end |-> s.end,
                        status |-> "confirmed", prio |-> 1, checkedIn |-> FALSE]
             put(key) == [b \in Ids |-> IF \E s \in kept : key[s] = b
                                       THEN row(CHOOSE s \in kept : key[s] = b)
                                       ELSE NoRow]
             t(key) == [Idle EXCEPT !.open = TRUE, !.locks = {r}, !.put = put(key)]
  <2>1. PICK key \in [kept -> Fresh] : Begin(p, t(key))
    BY <1>2 DEF MaterialiseSeries
  <2>2. t(key).audit = {}
    <3> HIDE DEF put
    <3> QED
      BY DEF Idle
  <2> QED
    BY <2>1, <2>2
<1>3. ASSUME NEW u \in Users, NEW b \in Ids, NEW slot, Reschedule(p, u, b, slot, TimesOnly)
      PROVE  \E t : Begin(p, t) /\ t.audit = {}
  <2> DEFINE r == bookings[b].res
             row == Edited([bookings[b] EXCEPT !.start = slot.start, !.end = slot.end], TimesOnly)
             t == [Idle EXCEPT !.open = TRUE, !.locks = {r}, !.rows = {b}, !.put[b] = row,
                               !.named = {}]
  <2>0. Named(b, TimesOnly) = {}
    BY DEF Named, TimesOnly
  <2>1. Begin(p, t)
    BY <1>3, <2>0 DEF Reschedule
  <2>2. t.audit = {}
    <3> HIDE DEF row
    <3> QED
      BY DEF Idle
  <2> QED
    BY <2>1, <2>2
<1>4. ASSUME NEW b \in Ids, ScanQr(p, b)
      PROVE  \E t : Begin(p, t) /\ t.audit = {}
  <2>1. [Idle EXCEPT !.open = TRUE, !.checkin = {b}].audit = {}
    BY DEF Idle
  <2> QED
    BY <1>4, <2>1 DEF ScanQr
<1>5. ASSUME NEW r \in Resources, Deactivate(p, r)
      PROVE  \E t : Begin(p, t) /\ t.audit = {}
  <2> DEFINE cancelled(b) == [bookings[b] EXCEPT !.status = "cancelled"]
             put(future) == [b \in Ids |-> IF b \in future THEN cancelled(b) ELSE NoRow]
             t(future) == [Idle EXCEPT !.open = TRUE, !.locks = {r}, !.put = put(future)]
  <2>1. PICK future \in SUBSET {b \in Ids : Confirmed(b)} : Begin(p, t(future))
    BY <1>5 DEF Deactivate
  <2>2. t(future).audit = {}
    <3> HIDE DEF put
    <3> QED
      BY DEF Idle
  <2> QED
    BY <2>1, <2>2
<1>6. ASSUME NEW b \in Ids, Cancel(p, b)
      PROVE  \E t : Begin(p, t) /\ AuditsItsCancellations(t)
  <2> DEFINE row == [bookings[b] EXCEPT !.status = "cancelled"]
             t == [Idle EXCEPT !.open = TRUE, !.audit = {b}, !.put[b] = row]
  <2>1. row.status = "cancelled"
    BY DEF TypeOK, Row
  <2>2. t.audit = {b} /\ t.put[b] = row
    BY DEF Idle
  <2>3. Begin(p, t)
    BY <1>6 DEF Cancel
  <2> QED
    BY <2>1, <2>2, <2>3 DEF AuditsItsCancellations
<1>7. ASSUME NEW t, Begin(p, t), t.audit = t.cancel, t.put = Idle.put
      PROVE  \E d : Begin(p, d) /\ AuditsItsCancellations(d)
  <2>1. Writes(t) = {}
    BY <1>7, RowTypes DEF Writes
  <2> QED
    BY <1>7, <2>1 DEF AuditsItsCancellations
<1>8. ASSUME NEW u \in Users, NEW ids \in SUBSET Ids, BulkCancel(p, u, ids)
      PROVE  \E t : Begin(p, t) /\ AuditsItsCancellations(t)
  <2> DEFINE t(taken) == [Idle EXCEPT !.open = TRUE, !.cancel = taken, !.audit = taken]
  <2>1. PICK taken \in SUBSET Ids : Begin(p, t(taken))
    BY <1>8 DEF BulkCancel
  <2>2. t(taken).audit = t(taken).cancel /\ t(taken).put = Idle.put
    BY DEF Idle
  <2> HIDE DEF t
  <2> QED
    BY <1>7, <2>1, <2>2
<1>9. ASSUME NEW r \in Resources, NEW slot \in BlockSlots, Block(p, r, slot)
      PROVE  \E t : Begin(p, t) /\ AuditsItsCancellations(t)
  <2> DEFINE new == [res |-> r, start |-> slot.start, end |-> slot.end]
             t(hit) == [Idle EXCEPT !.open = TRUE, !.cancel = hit, !.audit = hit,
                                    !.block = {new}]
  <2>1. PICK hit \in SUBSET Ids : Begin(p, t(hit))
    BY <1>9 DEF Block, Conflicting
  <2>2. t(hit).audit = t(hit).cancel /\ t(hit).put = Idle.put
    BY DEF Idle
  <2> HIDE DEF t
  <2> QED
    BY <1>7, <2>1, <2>2
<1>10. \A t : t.audit = {} => AuditsItsCancellations(t)
  BY DEF AuditsItsCancellations
<1> QED
  BY <1>1, <1>2, <1>3, <1>4, <1>5, <1>6, <1>8, <1>9, <1>10 DEF Request

\* What a commit audits it leaves cancelled.
LEMMA CommitAudits ==
    ASSUME TypeOK, NEW p \in Workers, Commit(p), AuditsItsCancellations(tx[p]),
           NEW b \in tx[p].audit
    PROVE  bookings'[b].status = "cancelled"
<1>1. b \in Ids /\ bookings[b] \in Row /\ bookings'[b] = After(tx[p], b)
  BY DEF TypeOK, Tx, Commit
<1> QED
  BY <1>1 DEF AuditsItsCancellations, After, Writes, Row

\* A step outside the transactions audits only what it has cancelled.
LEMMA SingleAudits ==
    ASSUME TypeOK, Single, NEW b \in audits', b \notin audits
    PROVE  bookings'[b].status = "cancelled"
<1>1. PICK c \in Ids : AdminCancel(c)
  BY DEF Single, Delete, CheckIn, CompleteOne, Unblock, StartAutoComplete, StartNoShow,
         FinishNoShow, TaskCrash, Tick
<1> QED
  BY <1>1 DEF AdminCancel, TypeOK, Row

\* An audited booking is out of the calendar for good (BookingCancellationAudit).
THEOREM AuditsAreTrue == LockedSpec => []AuditedIsReleased
<1>1. Init => AuditsFollow
  BY RowTypes DEF Init, AuditsFollow, AuditsItsCancellations, Idle
<1>2. TypeOK /\ TypeOK' /\ SavesWhatItLocked /\ AuditsFollow /\ [LockedNext]_vars => AuditsFollow'
  <2> SUFFICES ASSUME TypeOK, TypeOK', SavesWhatItLocked, AuditsFollow, [LockedNext]_vars
               PROVE  AuditsFollow'
    OBVIOUS
  <2>0. tx \in [Workers -> Tx] /\ audits \subseteq Ids /\ audits' \subseteq Ids
    BY DEF TypeOK
  <2>1. ASSUME NEW b \in audits', b \in audits
        PROVE  bookings'[b].status \notin {"none", "confirmed"}
    <3>1. bookings[b].status \notin {"none", "confirmed"}
      BY <2>1 DEF AuditsFollow
    <3> QED
      BY <2>0, <2>1, <3>1, StaysConfirmed, KeysStayUsed DEF Confirmed
  <2>2. ASSUME NEW b \in audits', b \notin audits
        PROVE  bookings'[b].status = "cancelled"
    <3>1. CASE Single
      BY <2>2, <3>1, SingleAudits
    <3>2. ASSUME NEW p \in Workers, Commit(p)
          PROVE  bookings'[b].status = "cancelled"
      BY <2>2, <3>2, CommitAudits DEF Commit, AuditsFollow
    <3> QED
      BY <2>2, <3>1, <3>2, RequestAudits DEF LockedNext, Abort, Begin, vars
  <2>3. ASSUME NEW q \in Workers
        PROVE  AuditsItsCancellations(tx'[q])
    <3>1. AuditsItsCancellations(tx[q]) /\ AuditsItsCancellations(Idle)
      BY DEF AuditsFollow, AuditsItsCancellations, Idle
    <3>2. CASE tx' = tx
      BY <3>1, <3>2
    <3>3. ASSUME NEW p \in Workers, NEW t, tx' = [tx EXCEPT ![p] = t], AuditsItsCancellations(t)
          PROVE  AuditsItsCancellations(tx'[q])
      BY <2>0, <3>1, <3>3
    <3>4. ASSUME NEW p \in Workers, Request(p)
          PROVE  AuditsItsCancellations(tx'[q])
      BY <3>1, <3>3, <3>4, RequestAudits DEF Commit, Abort, Begin
    <3> QED
      BY <3>2, <3>4, SingleEffect DEF LockedNext, vars
  <2> QED
    BY <2>1, <2>2, <2>3 DEF AuditsFollow, AuditsItsCancellations, Writes
<1>3. IInv => TypeOK
  BY DEF IInv
<1>4. AuditsFollow => AuditedIsReleased
  BY DEF AuditsFollow, AuditedIsReleased, Confirmed
<1> QED
  BY <1>1, <1>2, <1>3, <1>4, InductiveInvariant, SavesAreCurrent, PTL DEF LockedSpec

-----------------------------------------------------------------------------
(* The calendar itself *)

\* The three kinds of step SlotCalendar allows keep its reservations apart, whatever
\* implements it: a component that is shown to be a calendar double-books nothing.
THEOREM CalendarsDoNotClash == ImplementsCalendar => []Calendar!NoClash
<1>1. Calendar!Init => Calendar!NoClash
  BY DEF Calendar!Init, Calendar!NoClash
<1>2. Calendar!NoClash /\ [Calendar!Next]_Held => Calendar!NoClash'
  <2> SUFFICES ASSUME Calendar!NoClash, [Calendar!Next]_Held
               PROVE  Calendar!NoClash'
    OBVIOUS
  <2>1. ASSUME Calendar!Clear(Calendar!Gained, Held')
        PROVE  Calendar!NoClash'
    <3>1. \A a, b : Calendar!Clash(a, b) => Calendar!Clash(b, a)
      BY DEF Calendar!Clash
    <3>2. SUFFICES ASSUME NEW a \in Held', NEW b \in Held' PROVE ~Calendar!Clash(a, b)
      BY DEF Calendar!NoClash, Calendar!Clash
    <3>3. CASE a \in Calendar!Gained \/ b \in Calendar!Gained
      BY <2>1, <3>1, <3>3 DEF Calendar!Clear
    <3>4. CASE a \in Held /\ b \in Held
      BY <3>4 DEF Calendar!NoClash
    <3> QED
      BY <3>3, <3>4 DEF Calendar!Gained
  <2>2. CASE Calendar!Release \/ Held' = Held
    BY <2>2 DEF Calendar!Release, Calendar!NoClash, Calendar!Clash
  <2>3. CASE Calendar!Reserve
    BY <2>1, <2>3 DEF Calendar!Reserve
  <2>4. CASE Calendar!Move
    BY <2>1, <2>4 DEF Calendar!Move, Calendar!Clear
  <2> QED
    BY <2>2, <2>3, <2>4 DEF Calendar!Next
<1> QED
  BY <1>1, <1>2, PTL DEF ImplementsCalendar, Calendar!Spec
=============================================================================
