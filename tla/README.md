# New Level Hub Backend: specification and proofs

TLA+ modules, TLC runs and TLAPS proofs about the New Level Hub backend: a Django REST
service for a business centre (PostgreSQL, Redis, Celery, JWT). `PROJECT.json` lists the
runs, their mutants, the source lines of every definition, the hazards and the theorems.

## The system

A request is handled by a worker inside **one PostgreSQL transaction**
(`ATOMIC_REQUESTS`, `src/config/settings/base.py:83`) at the default isolation level,
READ COMMITTED: every statement sees the rows committed when it starts, row locks
(`select_for_update`, any UPDATE) are held to the end, and an exception rolls everything
back. Celery tasks run beside the requests in autocommit, each statement a transaction of
its own, on the schedule of `CELERY_BEAT_SCHEDULE`. Three habits of the code decide which
races are possible:

- `select_for_update().get()` before the checks (bookings, invitations, leave approval);
- `save()` of a whole row read earlier without a lock: the last writer wins, column by
  column, and a row that was deleted is inserted again;
- `save(update_fields=[...])`: only these columns; raises if the row is gone.

### Inventory

| Component | State | Operations | Hard behaviour | What makes it correct |
|---|---|---|---|---|
| Reservations (`apps/bookings`) | bookings, cancellation audits | create (with displacement by tier), reschedule, patch, cancel, admin cancel, bulk cancel, delete, check-in, QR scan | racing requests, stale full-row saves, locks on two tables | no double booking; a booking comes back, or loses its check-in, by nothing but a PATCH |
| Resource catalogue (`apps/bookings`) | resources, blocks, is_active | block, unblock, (de)activate, bulk flags, delete | blocks and deactivation racing bookings | a block leaves no confirmed booking under it |
| Recurring series (`apps/bookings`) | series, valid_until | create, edit, weekly materialisation, delete | rerun after a crash, dates already taken, stale full-row saves | each date booked at most once, valid_until in step with the bookings until somebody edits it |
| Periodic booking tasks | the id lists they work from | auto-complete, no-show, reminders | list read once, saved one by one; killed tasks | every ended booking is settled (reminders: not modelled) |
| Sessions (`apps/users`) | refresh tokens, blacklist, cache markers, last activity | register, login, refresh, logout, reset, block, activate, impersonate | idle and absolute timeouts, old tokens beside new ones | an expired session stays closed, a new one is not closed by an old one |
| Companies and membership (`apps/companies`, `apps/users`) | companies, users' roles and activity, invitations | invite, accept, revoke, resend, expire, change role, remove, (de)activate, edit a profile | unlocked counts, revoke against accept, stale profile saves | the employee limit up to the registrations in flight, one use per invitation |
| Leave (`apps/hr`) | requests, balances | request, edit, cancel, review | edit against review, balance updates | used days = days of the approved leaves |
| Guest passes (`apps/access`) | passes, access log | issue, revoke, scan, expire | two scans at once, scan against revoke | a single-use pass opens no more often than scans are in flight at once |
| Storage (`apps/storage`) | folders, files, trash, shares | upload, move, delete, restore, purge, cleanup task | quota sums, restore against cleanup | the quota up to the uploads in flight, no dangling key, the trash is emptied |
| CRM boards (`apps/crm`) | boards, columns, tasks with positions | create, move, reorder, archive | rows that some handlers renumber and others do not, WIP limit | columns at positions of their own, tasks numbered from 1 after a move, the limit |
| Services, notifications, analytics, core | requests, announcements, notifications; reports | CRUD, status changes; read-only | little | status machine of a service request |

Requests of different components meet in few places: deactivating a member or a company
cancels bookings and settles leaves; booking handlers and tasks write notifications; a
single booking scan writes the access log.

## Modules

| Module | Models | Instance, runs | Proofs |
|---|---|---|---|
| `Reservations`, `SlotCalendar` | bookings, blocks, periodic booking tasks; the calendar they implement | `MCReservations`: `reservations_race`, `reservations_tasks`, `patch_without_times`, `block_races_create`, `sweep_completes_cancelled` | `ReservationsProofs` |
| `RecurringSeries` | series of recurring bookings, the weekly task, the bookings in their way | `MCRecurringSeries`: `recurring_series` | `RecurringSeriesProofs` |
| `Membership`, `Roster` | users' roles and companies, invitations; what invitations promise | `MCMembership`: `membership` | `MembershipProofs` |
| `Leave`, `LeaveLedger` | leave requests, reviews, balances; the ledger they implement | `MCLeave`: `leave` | `LeaveProofs` |
| `GuestPass` | guest passes, scans, resends, expiry | `MCGuestPass`: `guest_passes` | `GuestPassProofs` |
| `Sessions` | tokens, timeouts, what ends a session | `MCSessions`: `sessions` | `SessionsProofs` |
| `Board` | columns and tasks of a CRM board | `MCBoard`: `board` | `BoardProofs` |
| `Storage` | files, folders, trash, quota, cleanup | `MCStorage`: `storage` | `StorageProofs` |

A request is a transaction, and the modules share one convention for it. A request that decides
on rows it has locked, or in one statement, is one step. One that decides on what it read without
a lock is two: the handler, guarded by its checks, leaves what it is going to write in `open` (`tx`
in `Reservations`), and `Commit` writes it or `Abort` drops it; everybody else runs in between.
What is written is what the code writes: the columns of `save(update_fields=...)`, or every
column of the row as it was read. `MaxOpen` bounds the requests in flight, in the model and
therefore in the properties that count them.

### `Reservations.tla`

One module for the bookings table and everything that races on it.

| State | In the code |
|---|---|
| `now` | `timezone.now()` |
| `bookings` | committed rows of `bookings`: resource, owner, times, status, priority, whether `checked_in_at` is set. Status `none` is a key never used, `deleted` one whose row is gone |
| `audits` | bookings with a `BookingCancellationAudit` row |
| `blocks` | committed rows of `resource_blocks` |
| `tx[p]` | the open transaction of worker `p`: the resource and booking rows it has locked, and its writes — whole rows (`put`), status updates (`cancel`), check-ins, audits, blocks |
| `sweep` | the bookings `auto_complete_bookings` has queried and not yet saved |
| `noShow` | the bookings the UPDATE of `mark_no_show_bookings` has selected |

A request is **two steps**: the handler, which takes its locks, reads and decides, and
`Commit` or `Abort`. In between everybody else runs. Applying the writes at the commit is
what PostgreSQL's row locks amount to, since a writer waits for the row's other writers and
the writes depend on nothing read after the wait: `Commit` is disabled while another
transaction holds a row it writes, or a resource a new foreign key of it refers to. Handlers that decide on nothing they read without a lock
(`AdminCancel`, `Delete`, `CheckIn`) are one step. `CheckIn`, `Reschedule` and the locked part
of `ScanQr` also need the resource row: `get_queryset` joins it, and `FOR UPDATE` locks every
table of the join. `Deactivate` gets that lock from saving the resource.
`MaterialiseSeries` is `create_bookings_for_recurring`, called by requests and by the weekly
task alike. The periodic tasks are two steps each, the list and the saves, and `TaskCrash`
kills them anywhere.

The rules about time slots that only look at the resource and the slot (opening hours,
weekdays, type rules; minimum and maximum duration) are the constants `OpenSlots` and
`FitSlots`; who may book what is `MayBook`; the tiers are `Tier`. Limits that depend on the
state or the clock (advance booking, active bookings, override lead, cancellation window,
no-show delay) are translated.

Two next-state relations: `Next` has every PATCH body the API accepts, `LockedNext` only those
that carry the two times and nothing else the model has. `NoDoubleBooking` fails under the first and
is proved under the second: the difference is `PlainPatch`, the unchecked save of a whole row, and a
`Reschedule` whose body also names a status or another resource. The calendar and the audits
(`ImplementsCalendar`, `AuditedIsReleased`) are judged under `LockedNext` too.

`NoRevival` and `CheckInKept` are judged under `Next`, with every body, and say who the culprit is. An
**ordinary** PATCH, of the description say, saves every column of a row read without a lock
(`views.py:1617`): over a cancellation, a completion or a deletion committed meanwhile it confirms the
booking again, and over a check-in it clears `checked_in_at`; a PATCH with the times may name the status as well
(`views.py:1676`). The two properties say that nothing else in the component does either: no other
full-row save (`Cancel`, `AdminCancel`, `Deactivate`), no task, no reschedule under the locks. Nothing in
the repository's documents promises what the PATCH breaks there, so there is no run that refutes it.

### `SlotCalendar.tla`

What the component promises about calendars: a set of reservations that never clash, changed
by releasing some, by reserving free time (at the price of clashing reservations of a strictly
lower tier only) and by moving one to free time. `ImplementsCalendar` is the refinement: the
reservations held are the confirmed bookings.

### `RecurringSeries.tla`

One resource and one time of day: two bookings clash when they are on the same date. `Reservations`
has the hours, the locks and a materialisation as one request among others; here the calendar goes
on from week to week.

| State | In the code |
|---|---|
| `today`, `over`, `monday`, `started` | the date; whether the hours of today's booking are over; the last Monday; whether the beat has started the task since |
| `series[s]` | the row of `recurring_bookings`: pattern, `is_active`, `valid_from`, `valid_until` (`until`) |
| `rows` | rows of `bookings` from today on; a cancelled one is kept while it has a series, as `get_or_create` finds it |
| `open` | a series validated and not yet inserted, the row a PATCH has read, the bookings a deletion has removed |
| `run` | the series `generate_recurring_bookings` has still to do, as it read them at the start, and the one whose bookings are made and whose end is not saved |
| `seen`, `edited`, `promised`, `faulty` | history: dates looked at per series; series a PATCH has saved; weekly series that are to go on; a Monday missed or a run died |

The task runs in autocommit: `Materialise` is the transaction of `create_bookings_for_recurring`,
`SaveEnd` the save of `valid_until` after it, `RunDies` comes anywhere. A request that displaces a
booking is `Cancel` and `Book`; `Reschedule` keeps the booking in its series, which marks it `moved`.
`DeactivateCompany` cancels the bookings and leaves the series alone.

Modelled as the code has it and judged by no property:

- The task moves every active series on, past the `repeat_until` its author gave, which
  `mobile_api_bookings.md` calls the inclusive end; the tests of the task expect the extension.
- A PATCH that moves the end on leaves out the dates in between, and so does one that inserts a
  deleted series again: it makes no booking (`serializers.py:930`), and the task begins behind the end
  it finds (`tasks.py:234`). Nothing says who should make them.
- A daily series moves on one day per week and so lapses; a weekly one lapses for good when a
  Monday is missed in its last week (`GoesOn` holds while none is).
- Between the two statements of `destroy` the task can make bookings, which then have no series; a
  PATCH that overlaps the deletion inserts the series again.
- The series of a deactivated company go on. The guard against duplicate series takes no lock.
- `get_or_create` raises when it finds two rows, a cancelled occurrence and one rescheduled to its
  date and cancelled there (`Ambiguous`). Nothing catches it: the task ends with the series after
  that one not done, and does so again as long as the period is the same.

### `Membership.tla`

| State | In the code |
|---|---|
| `users[e]` | the row of `users` with e-mail `e`: company, role (`guest` has none), `is_active` |
| `invites[i]` | the row of `invitations`; `lapsed` is pending past `expires_at` |
| `open` | registrations that hold the locks of the invitation and of the user (`join`), saves of a member's columns (`save`), invitations about to be inserted or revoked (`offer`), profiles read and about to be saved whole (`profile`) |
| `uses`, `readmitted` | history: registrations per invitation; users last made active by hand |

`Register` is `InviteRegistrationSerializer.create`: the checks of `validate` are made again under
the locks of the invitation and of the existing user, the employee limit under no lock of the
company. `Invite`, `Revoke` and `Resend` read without locks; `Revoke` looks at no status and
overwrites an acceptance. `CheckExpiredInvitations` is one UPDATE, which waits for locked rows
and evaluates its filter again. `RemoveMember`, `DeactivateMember`, `ActivateMember` and
`ChangeMemberRole` save the columns they name on a row read before, so that a role change that
overtakes a removal runs into the constraint on role and company (`RoleHasCompany`) and fails.
`SetCompanyActive` activates everybody, those deactivated one by one before included.
`UpdateProfile` is `update_profile`: it saves every column of the row it read (`users/views.py:576`), so
that a member removed, moved or deactivated in between is back in the company, role and activity they
had, with no invitation and no look at the limit.

### `Roster.tla`

What invitations promise, without requests or locks: people with a seat (company, role, active),
the invitations on offer, the keys of those that were. `Invite` closes some and opens at most one,
under a key of its own; `Admit` closes one and seats the person it names, with its company and role,
if that person is not active in a company; `Manage` switches people off and on, changes roles inside
a company and lets people leave; `Edit` takes a note of a seat and `EndEdit` may put it back.
So a company is given by an open invitation, or given back by a profile edit begun while it was held.
`ImplementsRoster` is the refinement: `offered` are the pending invitations (lapsed ones too: a
registration that has locked one may still commit), `retired` those accepted, expired, revoked or
deleted. `People!OpenOnce` follows from it.

### `Leave.tla`

| State | In the code |
|---|---|
| `leaves[l]` | the row of `hr_leave_requests`: author, type, days, assigned reviewer, status |
| `balance[u]` | `total_days` and `used_days` of the year; no row reads as the default |
| `admins` | active administrators of the company |
| `open` | insertions, edits and cancellations about to be saved, and the loss of a reviewer with the rows it has locked |

`Review` takes the lock of the request and, through the join with the user, that of the author:
the reviews of one author are one step each. It accepts any status, so a rejected or cancelled
request can be approved later and an approved one rejected. `PatchLeave` saves every column: an
approval that commits in between is taken back to pending, and its days stay charged. So are
those of a request cancelled after its approval was read as pending. `LoseReviewer` is what
deactivating or removing an administrator does to the requests assigned to them.

### `LeaveLedger.tla`

Leaves that stand and the purse they are paid from. `Grant` adds a leave that shares no day with
another of the same person and charges it within the total; `Withdraw` takes one off and refunds
what it cost, all of it; `Forfeit` takes one off without a refund, which is what an edit or a
cancellation saved over an approval amounts to; `SetTotal` changes totals. `ImplementsLedger` is the
refinement: `taken` are the approved requests, `purse` the balances. That `Withdraw` refunds in full
is not what the code says: it takes the days off and stops at 0 (`UsedAfter`). The refinement holds
because the balance never stands below the days that are approved.

### `GuestPass.tla`

| State | In the code |
|---|---|
| `passes[p]` | the row of `guest_passes`, with the counter and the window of resends |
| `logs[p]` | its rows in `access_logs` |
| `open` | passes about to be inserted, scans with the whole row they will save, revocations, resends waiting for the lock |
| `resent`, `windows` | history: resends granted; windows started because none was running |

`ValidateQr` is a scan: it reads, checks and saves the whole row, and so brings back what a
revocation, the expiry task or a resend committed meanwhile. `CommitResend` reads the window
again under the lock, but not the status. The other limit of resends, a counter in the cache,
can only refuse more.

### `Sessions.tla`

| State | In the code |
|---|---|
| `user` | the account: `is_active`, verified, `last_login` |
| `tokens[k]` | a refresh token and the access token issued with it: blacklisted or not, `session_created_at` of both, when the access token ends, and when the login it goes back to was made (history) |
| `resets[r]` | the rows of the password reset tokens |
| `marks` | the markers of an expired session in the cache: no transaction holds them, and `LoseMarks` forgets them |
| `open` | logins, refreshes, saves of the account, resets, in flight |
| `activity` | history: the last login or tracked request |

Idle and absolute timeouts are read as in `authenticate` and in the refresh, in that order.
A refusal marks the account and blacklists its tokens; the request is then rolled back, and only
the marker remains (`Refuse`): a refresh token that is itself young enough goes on once the
marker is gone. `Activate` is whatever sets `is_active` by hand (unblocking, `activate_member`, the
activation of a company), `AcceptInvitation` the registration that takes up an existing account.
`UpdateProfile` saves every column of the account it has read, which undoes a
block or a password change committed meanwhile. An impersonation's tokens have no
`session_created_at`; their first refresh gives them one.

### `Board.tla`

`columns[c]` and `tasks[t]` are the rows of one board; `archived` and `deleted` tasks are those the
soft-delete manager hides, `lost` ones went with their column. One action is one request and
requests follow one another: the code locks nothing here, and requests that overlap pass limits and
share positions at once, which says little. What is modelled are the histories: moves and archiving
renumber the columns they touch (`Normalized`), `PatchTask` and `DeleteColumn` do not; `PatchColumn`
shifts the siblings between two places, in a board whose template counted from 0 and whose further
columns go behind the last one; a limit of work in progress is checked on five ways into a column
and when it is lowered. Tasks leave for other boards and come from them by PATCH (`TaskElsewhere`,
`BringTask`); `reorder` accepts a column twice in its list, which leaves a gap in the positions.

Four smaller disagreements are modelled as the code has them and judged by no property:
`DeleteColumn` moves the tasks the soft-delete manager shows (`crm/views.py:526`,
`crm/models.py:71`), and archived tasks go with the column, where `mobile_api_crm.md:210` has all
tasks moved; a new task comes first though the comment says "end of column" (`crm/views.py:795`); a
column at position 0 cannot be moved there by PATCH; PATCH of a task to another column leaves two
tasks at one position until the next move.

### `Storage.tla`

| State | In the code |
|---|---|
| `files[f]`, `folders[g]` | rows of `storage_files`, `storage_folders`: live, in the trash since `at`, or gone; the folder they are in |
| `uploads` | uploads that have been counted and not yet inserted |
| `batch` | the files `cleanup_deleted_files` listed and has not yet removed |
| `today`, `deaths` | the date; how often the task has died |

Deleting a folder flags the live folders and files under it and does not enter a folder already in
the trash. Restoring a folder restores the trashed files directly in it, not its subfolders.
Rows are removed by `Remove`, with everything below them by `CASCADE`. The task removes the files
it listed as it listed them, restored or not, then the folders that are due, with what they hold:
a file restored into a folder that stays in the trash goes with the folder. S3 may refuse a file
(`SweepDies`); the next night begins anew.

## What the runs show

`Reservations`. Instances are in `MCReservations.tla`. Bounds: two bookings (`Ids`) — the least with which
bookings can overlap, displace or be mixed up —, two users of tiers 1 and 3, slots `[1,2)`
and `[1,3)` plus a series of `[1,2)` and `[2,3)`, one blocked interval, a clock up to `Horizon`.

| Run | Instance | Result |
|---|---|---|
| `reservations_race` | a capsule, two workers, clock 0..2, workers symmetric | the two inductive invariants, `NoDoubleBooking`, `AuditedIsReleased`, `ImplementsCalendar` hold under `LockedNext` (about 570 000 states) |
| `reservations_tasks` | a meeting room, one user, one worker, clock 0..3 (bookings end), no blocks, every PATCH body that leaves the status or confirms | `NoRevival` and `CheckInKept` hold under `Next`; under fairness, `EndedIsSettled` does (about 357 000 states) |
| `patch_without_times` | `Next`, two workers | `NoDoubleBooking` violated: cancel, rebook, PATCH the status back |
| `block_races_create` | two workers | `BlocksAreEmpty` violated: the block and the booking do not see each other |
| `sweep_completes_cancelled` | clock 0..3 | `CompletesOnlyConfirmed` violated: cancelled between the query and the save |

The capsule instance has the QR scan and no no-show task; the meeting room has it the other
way round; with the clock's two ranges this keeps each instance small while every action
fires in one of them. With its one worker `reservations_tasks` runs a request beside the one-step handlers
(check-in, administrative cancellation, deletion) and the tasks; two such requests beside each other are in the
theorems `NothingElseRevives` and `CheckInsSurvive`. The clock stops at `Horizon`; nothing else does, and the runs check for
deadlock.

**Fairness** (`FairSpec`, used by `EndedIsSettled` only): an open request ends, by
commit or rollback (worker timeouts); the beat keeps starting `auto_complete_bookings`; a save
that waits for a row again and again gets it (PostgreSQL queues lock waiters), hence strong
fairness; and the task worker is not killed for ever (`restart` policy of the container).
Without the last one a client that keeps rescheduling a past booking and a task that is
always killed while it waits can postpone the settling for ever.

Every property of a passing run has a mutant: a variation of one definition, of the kind a
plausible bug would make (a dropped lock, a filter too narrow), under which TLC finds it
violated. They stand before the definition they vary, marked `Mutant`.

`recurring_series`: one series, a week of two days, days 0..3 and so two Mondays, two requests in
flight, bookings made up to a day ahead, one booking at a time that is nobody's or has been moved;
about 5.6 million states. Two Mondays let a period be made, lost, repeated and followed by the
next; two requests, a PATCH beside a deletion or another PATCH, all beside the task. Other series of
the resource are to this one what single bookings are; the proofs have any number. `OnePerDate`,
`MadeOnce` (a repeated period finds its bookings, cancelled ones too), `NoDateSkipped` (as long as no
PATCH has saved the series, a crash leaves no date before the end that nobody has looked at), `GoesOn`. The
clock stops at `LastDay`, so the run does not check for deadlock.

`membership`: two addresses, two companies (room for one member, room for none), two
invitations, two requests in flight, invitations for the roles employee and staff only (`OfferedRoles`;
administrators come by `ChangeMemberRole`, and the theorems have every role); about 715 000 states. Two of each are what a race needs: two
registrations for one place, two invitations for one person, a revocation beside an acceptance.
`ImplementsRoster` (a place comes from an open invitation and closes it, or from a profile edit begun
in it; `OneUse`, an invitation admits once, is part of it), `NoLateJoin` (no registration gets through
with one seen revoked, expired or used), `NoPoaching` (no registration and no administrator takes an active
member into another company; a late profile save of their own can take them back to one), and `Overshoot`: the limit is checked without a lock and is passed by at most one member for each
*other* registration in flight, not counting those re-activated by hand or by a profile save.

`leave`: one author, three users who may be administrators, two requests over two days (nested,
adjacent, overlapping, paid and unpaid), totals 1 and 2, two requests in flight; about 1.1 million states. `ImplementsLedger`,
`DaysArePaid` (each day of approved leave has been charged: late edits and cancellations charge too
much, never too little), `ApprovedAsAgreed` (what stays approved is what was approved), and the
inductive invariant `IInv`, with disjoint leaves (`NoOverlap`) and the balance never overdrawn.

`guest_passes`: one pass, two desks, the clock 0..3, two requests in flight; about 315 000 states. A single-use pass admits at most `MaxOpen` times
(`SingleUse`: scans in flight together all enter, later ones never do); scans lose counts, never log
entries (`UsesAreLogged`); each scan can hand one window of resends back (`ResendIsLimited`);
a pass that is over and not being scanned stays over (`OverStaysOver`). Under fairness a pass past
its time ends for good (`OverduePassesEnd`): requests end (worker timeout), the beat goes on
starting the task. The clock stops at `LastTick`, so the run does not check for deadlock.

`sessions`: two tokens, one reset token from two devices, the clock 0..3, two requests in flight;
about 2.9 million states. Two tokens are two sessions, or one and its first refresh: a chain of two
refreshes is in the theorems only, which have any number. `AcceptedIsYoung` (nobody is served longer
than the absolute timeout after the login, however often the session was refreshed; impersonations
excepted), `AcceptedIsRecent` (once an account has been active, polling, refreshes and stale saves keep no
session of it alive; an account that registered and has only polled since was never active, and the
code has no idle timeout for it: `session.py:107`), `ResetOnce`, `BlockedStaysOut` (a blocked account
gets nothing served and begins nothing; what makes it active again is an activation, an accepted invitation, or
the one save that should not: that of a profile edit begun before the block, `users/views.py:576`).

`board`: up to three columns and two tasks, limits 0 and 1; about 94 000 states, all histories.
A list sent to `reorder` names columns once or twice (`Places`).
Three columns are the least in which a shift has a column to pass over; two tasks the least that
pass a limit of 1 or share a position. `WipHolds`, `ColumnsInOrder`, `MoveNumbersBoth` (after a
move the columns left and entered read 1, 2, 3, whatever was there before), `LiveTasksSurvive`.

`storage`: three files, two folders (nested or not), a quota of one file, a day in the trash, two
uploads in flight, one death of the task; about 165 000 states. `TypeOK` contains that no folder a
file or folder refers to is gone, `QuotaOvershoot` that only overlapping uploads pass the quota,
since the trash counts. (That is about the company's own files. The code's sum also has the personal files
of members and the attachments of tasks, `limits.py:43-57`: both only make it refuse an upload sooner, but
a member who joins, or an attachment, can take the whole sum past the quota without an upload here.)
`TrashIsEmptied` assumes that the nightly task is started every night and
runs to its end unless it dies (`WF_vars(Sweep)`), and that it dies finitely often (`MaxDeaths`): a
file that S3 refuses every night stops the task every night, and the folders are never reached. The
clock stops, so the run does not check for deadlock.

## What is proved

`ReservationsProofs.tla`, checked by TLAPS, for any sets of bookings, workers, resources,
users, slots and any configuration allowed by `ConstantsAssumption` (whose only substantial
part is that the occurrences of a series do not overlap, as each lies within its own date):

- `InductiveInvariant`: `LockedSpec => []IInv`. `NoDoubleBooking` is not inductive: a commit
  publishes rows checked earlier. `IInv` adds the types, `LocksExclusive`, and
  `PendingIsClear`: what a transaction is about to confirm lies on a resource it has locked
  and is clear of everything that will be there when it commits. A commit keeps the other
  transactions' `PendingIsClear` because two transactions that confirm bookings of one
  resource would share its lock; every other step only takes bookings out of the calendar.
- `CalendarIsSafe`: `LockedSpec => []NoDoubleBooking`.
- `SavesAreCurrent`: `LockedSpec => []SavesWhatItLocked`. A row saved as confirmed is a new key
  or a locked row: no one has changed it since it was read.
- `NothingElseRevives` and `CheckInsSurvive`: `Spec => NoRevival` and `Spec => CheckInKept`, with every
  PATCH body. They need an invariant of their own (`SavesAccounted`, theorem `SavesAreAccounted`):
  a transaction about to save a row as confirmed has inserted it, has it locked as it was read,
  or is a PATCH marked as such.

Also `CalendarIsImplemented`: `LockedSpec => ImplementsCalendar`. A commit is one step of `SlotCalendar`, but what it does was decided when the request read; between the two the
bookings change. The invariant `Plans` (`PlansHold`) says that the decision stays good: every open
transaction still only ends reservations (`Ends`: then the commit is a `Release`), confirms new
bookings and cancels only lower ones in their way (`MakesRoom`: `Reserve`), or gives new times to a
booking it has locked (`Moves`: `Move`). It is kept because nobody moves a booking of a locked
resource (`StaysInPlace`) or reuses a key (`KeysStayUsed`); that the times reserved are free is
`PendingIsClear` of `IInv`. `CalendarsDoNotClash` closes the circle: the rules of `SlotCalendar` alone
keep what it holds free of overlaps, so whatever implements it has no double booking.

`AuditsAreTrue`: `LockedSpec => []AuditedIsReleased`. An audit row is written in the transaction of the
cancellation, decided on before others commit. `AuditsFollow` says of the open transactions that
what they log they cancel and do not confirm (`AuditsItsCancellations`), so a commit leaves each
booking it logs cancelled. That a logged booking stays out of the calendar is no matter of
the audit: no step confirms a booking that is not (`StaysConfirmed`, from `SavesWhatItLocked`).

`RecurringSeriesProofs.tla`, for any series, weeks of any length, any `MaxOpen` and last day:
`SeriesInvariant` (`IInv`). `NoDateSkipped` is not inductive: the task saves an end it has computed
from the row it read, and a PATCH a whole row. `RunLooked` says that what the task is going to save
has been looked at, `CopiesAgree` that copies of a row differ from it in the end and the switch only,
so that the dates of the one are those of the other, and `KeysAreNew` that a new series is nobody
else's. `GoesOn` follows from `Promise`: the end lies at or behind the next Monday, or it is Monday
and the task has the series still before it. `SeriesNeverClash`, `SeriesMadeOnce`, `SeriesSkipNoDate`
and `WeeklySeriesGoOn` are the four properties.

`MembershipProofs.tla`, for any addresses, companies, invitations and `MaxOpen`:
`MembershipInvariant` (`IInv`). `OneUse` is not inductive: a registration in flight will use its
invitation, so `IInv` adds that whoever is about to is alone with a pending invitation
(`JoinsExclusive`), that fresh keys are nobody else's (`KeysDrawn`) and that a pending invitation
has not been used (`UsedIsSpent`). A commit spends the invitation; a revocation that overtakes it
waits for its lock. `InvitationsAreUsedOnce`, `NobodyJoinsLate` and `MembersAreNotPoached` follow.

`OvershootIsBounded` (`Overshoot`, with `MaxOpen` at least 1 and finitely many addresses): the members
alone say nothing about the registrations that were let in and have not committed. `CrowdBounded`
counts them together. A registration begins while the members are fewer than the limit, beside at
most `MaxOpen` - 1 others, so both together stay under the limit plus `MaxOpen` - 1; a commit moves one
from the second count to the first; nobody is activated by hand, or put back by a profile save, without being counted in `readmitted`.

`MembershipImplementsRoster`: `Spec => ImplementsRoster`. A commit is an `Admit` only if what the request
carries is still what the invitation says. That is `RequestsAgree`
(`RequestsStayInAgreement`), kept because a row is changed only while no registration holds it
(`InviteFree`) and inserted only under a key nobody has used (`KeysDrawn`). `InvitesAge` is what any step
does to the invitations, from which `OffersOpenAndClose` reads the open and closed ones of the roster.
What a profile save writes is one of the drafts of the roster (`Drafts`), taken when the edit began.
`InvitationsOpenOnce`: the roster opens nothing twice.

`LeaveProofs.tla`, for any users, requests, days and forms: `LeaveInvariant` (`IInv`), of which
`ApprovedLeavesAreDisjoint`, `ApprovedDaysArePaid` and `BalanceNeverOverdrawn` are parts.
`DaysArePaid` counts the days of all approved requests of an author: a review adds the days of a
request that shares none with the others (`NoOverlap`), or takes away days that only it had; the
proof counts them as finite sets. `ApprovalsStandAsAgreed` (`ApprovedAsAgreed`): of the commits that
write a row, an insertion has a key of its own, the loss of a reviewer holds rows that are pending and
locked, and an edit leaves its row pending.

`LeaveImplementsLedger`: `Spec => ImplementsLedger`. Every step changes the approval of one request at
most (`OneEntryChanges`). An approval that passes the overlap and balance checks is a `Grant`, an
approval taken back a `Withdraw` because the days it stands for are among those paid
(`ApprovedIsCovered`, from `DaysArePaid`), an edit or cancellation that comes late a `Forfeit`.
`LedgerStaysDisjoint`: the ledger's rules alone keep its leaves disjoint.

`SessionsProofs.tla`, for any tokens, reset tokens, devices, timeouts and requests in flight:
`SessionsInvariant` (`IInv`). `AcceptedIsYoung` is not inductive, as a refresh copies the claim of
the token it replaces: `ChainsKeepTheirStart` says that along a chain of refreshes both claims are
the time of the login, and that a refresh in flight has a token to copy. `AcceptedIsRecent` needs
`NothingAhead`: neither the column `last_login` nor a row that `update_profile` has read and will
save is ahead of the last activity, and the column is not empty once there was one, so a late save
can only end a session early. `ResetOnce` needs
`MarkedByOne`: the conditional UPDATE leaves one confirmation per reset token, which has not set
the password. `SessionsAreYoung`, `SessionsAreActive`, `ResetsAreUsedOnce` and the action property
`BlockedAccountsStayOut` follow.
`BlockedAccountsStayOut` needs the types only: every other step of `Next` leaves a blocked account blocked,
and none that serves or begins anything is enabled for it.

`GuestPassProofs.tla`, for any users, passes, limits, clocks and `MaxOpen`: `GuestPassInvariant`
(`IInv`, which the run checks too). `SingleUse` is not inductive: a scan in flight will let somebody
in, whatever the row says by then. `IInv` counts entries and scans together, and says that a pass
once used is not scanned again unless a scan that read it earlier is in flight. `SingleUseIsBounded`,
`EveryUseIsLogged`, `ResendsAreBounded` and the action property `OverPassesStayOver` follow.
`ActivePassesAreBounded` proves `ActiveOvershoot`, for which the run's one pass is too small: the
active passes of one owner are among those counted when the last request began, fewer than the
limit, and the keys of the requests in flight, of which a scan may bring a revoked pass back.

`StorageProofs.tla`, for any files, folders, quota, retention and `MaxOpen`: `StorageInvariant`. The
quota bounds what is stored together with what is under way (`Held`): an upload is counted before it
is inserted, so `QuotaOvershoot` alone says nothing about the ones in flight. `NoKeyDangles` rests on
`Gone` being closed under the foreign keys (`GoneIsClosed`); `QuotaIsBounded` follows from `Held`.

`BoardProofs.tla`, for any columns, tasks and limits: `BoardInvariant` (`TypeOK`, `WipHolds`,
`ColumnsInOrder`, inductive together), `TasksHaveColumns`, `LimitsHold`, `ColumnsStayInOrder`, and the
action properties `MovesNumberBoth` and `NoLiveTaskIsLost`. `MovesNumberBoth` needs that the ranks of
the n tasks of a column are distinct numbers of 1..n, and so all of them (`Rank`, an injection
between finite sets of one size); `ColumnsStayInOrder` that a finite set of positions has a largest
one, which a new column goes behind, and that `Shifted` is an injection beside the column moved.

Only model-checked: the liveness properties `EndedIsSettled`, `OverduePassesEnd` and `TrashIsEmptied`,
as the provers have no rule for fairness; the three violations are TLC's counterexamples. Every other
property of a run is a theorem.

## What is not modelled

- Participants, change audits, reminders, QR images, notifications and e-mail: nothing modelled
  reads them. A notification that raises is an `Abort`.
- `is_active` of a resource: no booking handler reads it, and `activate` sets it at any time.
- The company-wide cancellation when a company is deactivated, the cascades of deleted users and
  resources, and in `Reservations` the deletion of a series (a set of `Delete` steps). They only
  remove bookings.
- `MaterialiseSeries` of `Reservations` creates a booking wherever the slot is free; that
  `get_or_create` finds the bookings of an earlier run again is in `RecurringSeries`.
- `RecurringSeries`: a PATCH of a series that changes anything but the end and the switch (hours, day,
  resource, no end at all), a PATCH of a booking other than its times, requests made during the hours
  of a booking, several resources.
- Deadlocks of the database are not represented; PostgreSQL ends one of the two transactions,
  which is `Abort`.
- The active-booking limit and the desk rule are checked by `Create` as in the code, under the
  lock of one resource; what two requests on two resources make of them is not judged by a run: with two resources
  the state space of `Reservations` is out of reach.

- `Membership`: the deletion of a company, its limits and settings (`max_employees` is a constant,
  so a limit lowered below the members it has is not met), the bookings, tasks and tokens a departing
  member leaves behind, two pending invitations of one address made by two requests at once are
  possible in the model as in the code.
- `Leave`: requests across two years, the creation of the balance row by two reviews at once, and
  the clock (days before today are refused; the model's days are all to come).
- `GuestPass`: QR images, the expiring-soon e-mail, entries written by hand, cascades of deleted users.
- `Sessions`: several accounts (nothing but the cache key relates them), the throttle of
  verification e-mails, cookies.
- `Board`: overlapping requests, archived boards and their limit, checklists, comments, labels,
  attachments, history.
- `Storage`: shares and folder permissions (who may do what), the objects in S3, moves of folders,
  sizes other than one, the personal files of members and attachments in the quota's sum, the personal
  quota of guests.
- Service requests: sibling endpoints do not share their rules, so few guarantees hold across them.
  The assignee of a request in progress is locked in `status`, not in `assign`; that a manager works
  on one request at a time is checked in `assign`, not in `status`. An assignment without a status
  reopens a completed request, and completing it again with `completed_at: null` clears the stamp,
  which the comment at `services/views.py:1007` says is never overwritten.
- Onboarding, announcements, notifications, reminders and reports: independent rows
  changed by one request at a time, or output that nothing reads back.

## What could follow

A run of `Reservations` with two resources for the
limits counted under one lock; a PATCH of a series' hours or resource; overlapping requests in `Board`; the cancellations that a member's or a company's deactivation causes, which are
`Release` steps of `SlotCalendar`.
