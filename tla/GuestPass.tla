----------------------------- MODULE GuestPass -----------------------------
(***************************************************************************)
(* Guest passes (apps/access): creation under a limit of active passes,    *)
(* the scan at the entrance, revocation, the resending of the e-mail and   *)
(* the task that expires passes.                                           *)
(*                                                                         *)
(* Only resend locks a row.  The other requests decide on what they read   *)
(* and leave their writes in `open`, to be committed later.  A scan saves  *)
(* every column it read.                                                   *)
(***************************************************************************)
EXTENDS Integers, FiniteSets

CONSTANTS
    Guests,         \* users with role guest
    Employees,      \* employees of one company on the basic plan
    Staff,          \* users without a limit: administrators, reception, larger plans
    None,           \* NULL
    Emails,         \* e-mail addresses of visitors
    Passes,         \* bound: primary keys
    Desks,          \* where scans and resends are sent from: tells two requests apart
    PassLimit,      \* 2 in the code
    ResendLimit,    \* 3 in the code
    Hour,           \* the length of the resend window, in ticks of the clock
    Span,           \* the longest validity, in ticks: 30 days
    MultiSpan,      \* the longest validity of a multi-use pass: 1 day
    LastTick,       \* bound: the clock stops there
    MaxScans,       \* bound: scans of one pass
    MaxOpen         \* bound: requests handled at the same time

VARIABLES
    passes,     \* passes[p]: the row of guest_passes
    logs,       \* logs[p]: rows of access_logs for this pass
    clock,
    open,       \* requests that have decided and not yet committed
    resent,     \* history: resends granted for this pass
    windows     \* history: resend windows started because none was running

vars == <<passes, logs, clock, open, resent, windows>>

-----------------------------------------------------------------------------
(* Types *)

Users == Guests \cup Employees \cup Staff
Tick  == 0..LastTick

PassRow == [creator : Users \cup {None}, email : Emails \cup {None},
            status : {"none", "active", "used", "expired", "revoked"},
            usage : {"single", "multi"}, times_used : Nat,
            valid_from : Nat, valid_until : Nat,
            attempts : 0..ResendLimit, window : Tick \cup {None}]

NoPass == [creator |-> None, email |-> None, status |-> "none", usage |-> "single",
           times_used |-> 0, valid_from |-> 0, valid_until |-> 0, attempts |-> 0,
           window |-> None]

\* A row about to be inserted, or saved with every column.
Insert   == [kind : {"insert"}, key : Passes, row : PassRow]
Scanning == [kind : {"scan"}, key : Passes, by : Desks, row : PassRow]
Revoking == [kind : {"revoke"}, key : Passes]
\* A resend that waits for the lock of the row, with the time it has read.
Resending == [kind : {"resend"}, key : Passes, by : Desks, now : Tick]

TypeOK ==
    /\ passes \in [Passes -> PassRow]
    /\ logs \in [Passes -> Nat]
    /\ clock \in Tick
    /\ open \subseteq Insert \cup Scanning \cup Revoking \cup Resending
    /\ resent \in [Passes -> Nat]
    /\ windows \in [Passes -> Nat]

ASSUME GuestPassAssumption ==
    /\ {PassLimit, ResendLimit, Hour, Span, MultiSpan} \subseteq Nat \ {0}
    /\ {LastTick, MaxScans, MaxOpen} \subseteq Nat
    /\ IsFiniteSet(Passes)
    /\ Guests \cap Employees = {}
    /\ None \notin Users /\ None \notin Nat

-----------------------------------------------------------------------------
(* Reading *)

Exists(p) == passes[p].status # "none"
Active(p) == passes[p].status = "active"
Scans(p)  == {t \in open : t.kind = "scan" /\ t.key = p}

\* GuestPassCreateSerializer.validate: active passes counted against `u`.
BelowLimit(u, e) ==
    /\ u \in Guests =>
          Cardinality({p \in Passes : passes[p].creator = u /\ Active(p)}) < PassLimit
    /\ u \in Employees =>
          Cardinality({p \in Passes : /\ passes[p].creator \in Employees \cup Staff
                                      /\ passes[p].email = e /\ Active(p)}) < PassLimit

\* Mutant: the times of use are not looked at.
AdmitsUsed(p) ==
    /\ passes[p].valid_from <= clock /\ clock <= passes[p].valid_until
    /\ passes[p].status \in {"active", "used"}

\* Mutant: a revoked pass is let in.
AdmitsRevoked(p) ==
    /\ passes[p].valid_from <= clock /\ clock <= passes[p].valid_until
    /\ passes[p].status \in {"active", "revoked"}
    /\ passes[p].usage = "single" => passes[p].times_used = 0

\* What validate_qr demands of the row it has read.
Admits(p) ==
    /\ passes[p].valid_from <= clock /\ clock <= passes[p].valid_until
    /\ Active(p)
    /\ passes[p].usage = "single" => passes[p].times_used = 0

-----------------------------------------------------------------------------
(* Transactions *)

Begin(t) ==
    /\ Cardinality(open) < MaxOpen
    /\ t \notin open
    /\ open' = open \cup {t}
    /\ UNCHANGED <<passes, logs, clock, resent, windows>>

Abort(t) ==
    /\ open' = open \ {t}
    /\ UNCHANGED <<passes, logs, clock, resent, windows>>

CommitInsert(t) ==
    /\ t.kind = "insert"
    /\ passes' = [passes EXCEPT ![t.key] = t.row]
    /\ open' = open \ {t}
    /\ UNCHANGED <<logs, clock, resent, windows>>

\* Mutant: the entry is recorded only for the first use.
CommitScanOnce(t) ==
    /\ t.kind = "scan"
    /\ passes' = [passes EXCEPT ![t.key] = t.row]
    /\ logs' = [logs EXCEPT ![t.key] = IF passes[t.key].times_used = 0 THEN @ + 1 ELSE @]
    /\ open' = open \ {t}
    /\ UNCHANGED <<clock, resent, windows>>

CommitScan(t) ==
    /\ t.kind = "scan"
    /\ passes' = [passes EXCEPT ![t.key] = t.row]
    /\ logs' = [logs EXCEPT ![t.key] = @ + 1]
    /\ open' = open \ {t}
    /\ UNCHANGED <<clock, resent, windows>>

CommitRevoke(t) ==
    /\ t.kind = "revoke"
    /\ passes' = [passes EXCEPT ![t.key].status = "revoked"]
    /\ open' = open \ {t}
    /\ UNCHANGED <<logs, clock, resent, windows>>

\* Mutant: the attempts are compared with > instead of >=.
GrantedOneMore(attempts) == attempts <= ResendLimit

Granted(attempts) == attempts < ResendLimit

\* resend, holding the lock of the row: it reads the window again and not the status.
CommitResend(t) ==
    LET row   == passes[t.key]
        fresh == row.window = None \/ row.window < t.now - Hour
        used  == IF fresh THEN 0 ELSE row.attempts
    IN  /\ t.kind = "resend"
        /\ Granted(used)
        /\ passes' = [passes EXCEPT ![t.key].attempts = used + 1,
                                    ![t.key].window = IF fresh THEN t.now ELSE @]
        /\ resent' = [resent EXCEPT ![t.key] = @ + 1]
        /\ windows' = [windows EXCEPT ![t.key] = IF fresh THEN @ + 1 ELSE @]
        /\ open' = open \ {t}
        /\ UNCHANGED <<logs, clock>>

-----------------------------------------------------------------------------
(* Requests *)

\* The next key of the table.
Draw(p) == /\ ~Exists(p)
           /\ \A t \in open : t.key # p

Create(u, e, p, usage, from, until) ==
    /\ Draw(p)
    /\ clock <= from /\ from < until
    /\ until <= from + (IF usage = "multi" THEN MultiSpan ELSE Span)
    /\ BelowLimit(u, e)
    /\ Begin([kind |-> "insert", key |-> p,
              row |-> [creator |-> u, email |-> e, status |-> "active", usage |-> usage,
                       times_used |-> 0, valid_from |-> from, valid_until |-> until,
                       attempts |-> 0, window |-> None]])

\* The row a scan saves.
Scanned(row) == [row EXCEPT !.times_used = @ + 1,
                            !.status = IF row.usage = "single" THEN "used" ELSE @]

ValidateQr(p, d) ==
    /\ logs[p] + Cardinality(Scans(p)) < MaxScans
    /\ Admits(p)
    /\ Begin([kind |-> "scan", key |-> p, by |-> d, row |-> Scanned(passes[p])])

Revoke(p) ==
    /\ passes[p].status \in {"active", "revoked"}
    /\ Begin([kind |-> "revoke", key |-> p])

\* The counter in the cache may refuse as well: its attempts are then lost with the
\* request, which is no step.
Resend(p, d) ==
    /\ Active(p)
    /\ Begin([kind |-> "resend", key |-> p, by |-> d, now |-> clock])

Commit(t) == CommitInsert(t) \/ CommitScan(t) \/ CommitRevoke(t) \/ CommitResend(t)

-----------------------------------------------------------------------------
(* The task and the clock *)

\* Mutant: passes that were scanned are left alone.
LapsedUnused(p) == Active(p) /\ passes[p].valid_until < clock /\ passes[p].times_used = 0

Lapsed(p) == Active(p) /\ passes[p].valid_until < clock

\* expire_guest_passes: a single UPDATE.
ExpireGuestPasses ==
    /\ \E p \in Passes : Lapsed(p)
    /\ passes' = [p \in Passes |-> IF Lapsed(p) THEN [passes[p] EXCEPT !.status = "expired"]
                                              ELSE passes[p]]
    /\ UNCHANGED <<logs, clock, open, resent, windows>>

Advance ==
    /\ clock < LastTick
    /\ clock' = clock + 1
    /\ UNCHANGED <<passes, logs, open, resent, windows>>

-----------------------------------------------------------------------------
(* Specification *)

Init ==
    /\ passes = [p \in Passes |-> NoPass]
    /\ logs = [p \in Passes |-> 0]
    /\ clock = 0
    /\ open = {}
    /\ resent = [p \in Passes |-> 0]
    /\ windows = [p \in Passes |-> 0]

Next ==
    \/ \E u \in Users, e \in Emails, p \in Passes, usage \in {"single", "multi"},
          from \in Tick, until \in Tick : Create(u, e, p, usage, from, until)
    \/ \E p \in Passes : Revoke(p) \/ \E d \in Desks : ValidateQr(p, d) \/ Resend(p, d)
    \/ \E t \in open : Commit(t) \/ Abort(t)
    \/ ExpireGuestPasses
    \/ Advance

\* Every request ends and the beat schedule goes on starting the task.
Fairness ==
    /\ WF_vars(\E t \in open : Commit(t) \/ Abort(t))
    /\ WF_vars(ExpireGuestPasses)

Spec == Init /\ [][Next]_vars /\ Fairness

-----------------------------------------------------------------------------
(* Properties *)

\* How often a single-use pass lets somebody in is bounded by the scans that run at the
\* same time: once one of them has committed, no later scan is accepted.
SingleUse == \A p \in Passes : passes[p].usage = "single" => logs[p] <= MaxOpen

\* Every use that is counted has its entry in the log; concurrent scans may lose counts,
\* never entries.
UsesAreLogged == \A p \in Passes : passes[p].times_used <= logs[p]

\* The rows that `u` (with visitor `e`) has created under the limit.
Own(u, e, row) ==
    \/ u \in Guests /\ row.creator = u
    \/ u \in Employees /\ row.creator \in Employees /\ row.email = e

\* The limit of active passes is overrun at most by the requests under way, although a
\* scan may bring back a pass that was revoked while it ran.
ActiveOvershoot ==
    \A u \in Guests \cup Employees, e \in Emails :
        Cardinality({p \in Passes : Own(u, e, passes[p]) /\ Active(p)}) <= PassLimit - 1 + MaxOpen

\* In one window the pass is resent ResendLimit times at most; each scan, which restores
\* the counter it has read, can add one window's worth.
ResendIsLimited == \A p \in Passes : resent[p] <= ResendLimit * (windows[p] + logs[p])

\* What is under way agrees with the rows: a new row has a key of its own, the others
\* have a row, and a scan changes neither the owner nor the kind of the pass.
OpenAgrees ==
    \A t \in open :
        /\ t.kind = "insert" => /\ ~Exists(t.key) /\ t.row.status = "active"
                                /\ t.row.times_used = 0 /\ t.row.window = None
                                /\ \A q \in open : q.key = t.key => q = t
        /\ t.kind # "insert" => Exists(t.key)
        /\ t.kind = "scan" => /\ t.row.creator = passes[t.key].creator
                              /\ t.row.email = passes[t.key].email
                              /\ t.row.usage = passes[t.key].usage
                              /\ t.row.times_used \in 1..(logs[t.key] + 1)
                              /\ t.row.status # "none"
                              /\ t.row.usage = "single" => t.row.status = "used"

\* Keys that never had a row have no history.
Unborn == \A p \in Passes : ~Exists(p) => logs[p] = 0 /\ resent[p] = 0 /\ windows[p] = 0

\* Entries made and entries under way with a single-use pass.
ScansInFlight ==
    \A p \in Passes : passes[p].usage = "single" =>
        /\ logs[p] + Cardinality(Scans(p)) <= MaxOpen
        /\ logs[p] > 0 => passes[p].times_used > 0

\* Resends already made and those the running window still allows.
Allowance == \A p \in Passes :
    resent[p] + (IF passes[p].window = None THEN 0 ELSE ResendLimit - passes[p].attempts)
        <= ResendLimit * (windows[p] + logs[p])

\* The passes of a limit that are active, or that a request under way may make active.
Alive(u, e) ==
    {p \in Passes : \/ Own(u, e, passes[p]) /\ (Active(p) \/ Scans(p) # {})
                    \/ \E t \in open : t.kind = "insert" /\ t.key = p /\ Own(u, e, t.row)}
AliveBound == \A u \in Guests \cup Employees, e \in Emails :
                  Cardinality(Alive(u, e)) <= PassLimit - 1 + MaxOpen

\* The inductive invariant behind the four properties above.
IInv == /\ TypeOK /\ IsFiniteSet(open) /\ Cardinality(open) <= MaxOpen
        /\ OpenAgrees /\ Unborn /\ UsesAreLogged /\ ScansInFlight /\ Allowance /\ AliveBound

\* A pass that is used, expired or revoked, and not being scanned, stays so for ever: it
\* never becomes active again and nobody enters with it.
Over(p) == Exists(p) /\ ~Active(p) /\ Scans(p) = {}
OverStaysOver ==
    [][\A p \in Passes : Over(p) => Over(p)' /\ logs'[p] = logs[p]]_vars

\* A pass past its validity ends up settled for good, whatever the scans restore.
OverduePassesEnd ==
    \A p \in Passes :
        (Exists(p) /\ passes[p].valid_until < clock) ~> [](~Active(p))
=============================================================================
